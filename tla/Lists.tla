-------------------------------- MODULE Lists --------------------------------
(***************************************************************************)
(* What the code does with lists and dicts that Python has a phrase for.   *)
(* Loops are folds, which SequenceFolds proves about.                      *)
(***************************************************************************)
EXTENDS Integers, SequencesExt

\* A field without a value.
None == -1

Take(s, n) == SubSeq(s, 1, Min({n, Len(s)}))

\* The elements of s that are in S, in their order.
Among(s, S) == FoldLeft(LAMBDA kept, x : IF x \in S THEN Append(kept, x) ELSE kept, <<>>, s)

\* [x for x in s if Test(x)]
Those(s, Test(_)) == Among(s, {x \in ToSet(s) : Test(x)})

\* A stable sort: each element comes behind all those it need not precede, so
\* what Before leaves undecided keeps its order.
Sorted(s, Before(_, _)) ==
    FoldLeft(LAMBDA sorted, x :
                InsertAt(sorted, Cardinality({i \in DOMAIN sorted : ~Before(x, sorted[i])}) + 1, x),
             <<>>, s)

\* {**fields, **more}: what both have is taken from more.
Updated(fields, more) ==
    [key \in DOMAIN fields \cup DOMAIN more |->
        IF key \in DOMAIN more THEN more[key] ELSE fields[key]]

=============================================================================
