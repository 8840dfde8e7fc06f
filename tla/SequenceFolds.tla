---------------------------- MODULE SequenceFolds ----------------------------
(***************************************************************************)
(* What a loop over a sequence computes.  The model writes the loops of the *)
(* code as FoldLeft of the community modules; here is the induction over    *)
(* their turns, for any step Op, with a parameter p that the turns leave    *)
(* alone.  A module that proves something about a loop takes an instance    *)
(* with its step for Op.                                                   *)
(***************************************************************************)
EXTENDS Integers, SequencesExt, WellFoundedInduction, SequenceTheorems, TLAPS

CONSTANT Op(_, _, _)

Folded(p, base, seq) == FoldLeft(LAMBDA acc, x : Op(p, acc, x), base, seq)

----------------------------------------------------------------------------
(* Induction over the numbers, for sets *)

\* A set of numbers with 0, and with the successor of each of its members, has
\* them all: the form of induction that needs no operator as a parameter.
LEMMA NatSetInduction ==
    \A S \in SUBSET Nat : 0 \in S /\ (\A n \in S : n + 1 \in S) => S = Nat
<1> SUFFICES ASSUME NEW S \in SUBSET Nat, 0 \in S, \A n \in S : n + 1 \in S
             PROVE  S = Nat
  OBVIOUS
<1> DEFINE R == OpToRel(<, Nat)
<1>1. IsWellFoundedOn(R, Nat)
  BY NatLessThanWellFounded
<1>2. \A x, y \in Nat : y < x => <<y, x>> \in R
  BY DEF OpToRel
<1> HIDE DEF R
<1>3. ASSUME Nat \ S # {} PROVE FALSE
  <2>1. PICK x \in Nat \ S : \A y \in Nat \ S : ~(<<y, x>> \in R)
    BY <1>1, <1>3, WFMin
  <2>2. x # 0 /\ x - 1 \in Nat /\ x - 1 < x /\ x = (x - 1) + 1
    BY <2>1
  <2>3. x - 1 \in Nat \ S
    BY <2>2
  <2>4. <<x - 1, x>> \in R
    BY <2>2, <1>2
  <2> QED BY <2>1, <2>3, <2>4
<1> QED BY <1>3

\* Induction up to n.
LEMMA UpTo ==
    \A n \in Nat : \A K : 0 \in K /\ (\A k \in 1..n : k - 1 \in K => k \in K) => 0..n \subseteq K
<1> SUFFICES ASSUME NEW n \in Nat, NEW K, 0 \in K, \A k \in 1..n : k - 1 \in K => k \in K
             PROVE  0..n \subseteq K
  OBVIOUS
<1> DEFINE S == {k \in Nat : k <= n => k \in K}
<1>1. 0 \in S
  OBVIOUS
<1>2. ASSUME NEW k \in S PROVE k + 1 \in S
  <2>1. CASE k + 1 <= n
    <3>1. k + 1 \in 1..n /\ (k + 1) - 1 = k /\ k <= n
      BY <2>1
    <3> QED BY <3>1
  <2> QED BY <2>1
<1> HIDE DEF S
<1>3. S = Nat
  BY <1>1, <1>2, NatSetInduction DEF S
<1> QED BY <1>3 DEF S

\* A nonempty set of numbers has a least member, and Min is that one.
LEMMA MinOf == \A S \in SUBSET Nat : S # {} => Min(S) \in S /\ \A m \in S : Min(S) <= m
<1> SUFFICES ASSUME NEW S \in SUBSET Nat, S # {}
             PROVE  \E x \in S : \A y \in S : x <= y
  BY DEF Min
<1> DEFINE R == OpToRel(<, Nat)
<1>1. IsWellFoundedOn(R, Nat)
  BY NatLessThanWellFounded
<1>2. \A x, y \in Nat : y < x => <<y, x>> \in R
  BY DEF OpToRel
<1> HIDE DEF R
<1>3. PICK x \in S : \A y \in S : ~(<<y, x>> \in R)
  BY <1>1, WFMin
<1>4. ASSUME NEW y \in S PROVE x <= y
  <2>1. x \in Nat /\ y \in Nat /\ ~(y < x)
    BY <1>2, <1>3
  <2> QED BY <2>1
<1> QED BY <1>4

\* Max is the member that is as great as any.
LEMMA MaxOf ==
    ASSUME NEW S \in SUBSET Nat, NEW n \in S, \A m \in S : m <= n
    PROVE  Max(S) = n
<1>1. n \in S /\ \A m \in S : n >= m
  OBVIOUS
<1>2. Max(S) \in S /\ \A m \in S : Max(S) >= m
  BY <1>1 DEF Max
<1>3. Max(S) \in Nat /\ n \in Nat /\ Max(S) <= n /\ Max(S) >= n
  BY <1>1, <1>2
<1> QED BY <1>3

----------------------------------------------------------------------------
(* FoldLeft, turn by turn *)

\* The recursive function FoldLeft chooses, on the sets of places 1..n.
Equation(iter, p, base, seq, n) ==
    iter = [s \in SUBSET (1..n) |->
                IF s = {} THEN base ELSE Op(p, iter[s \ {Max(s)}], seq[Max(s)])]

\* That function exists, by induction over n: a set without n + 1 keeps its
\* value, and one with it takes a turn more.
LEMMA EquationHasSolution ==
    ASSUME NEW p, NEW base, NEW seq
    PROVE  \A n \in Nat : \E iter : Equation(iter, p, base, seq, n)
<1> DEFINE S == {n \in Nat : \E iter : Equation(iter, p, base, seq, n)}
<1>1. 0 \in S
  <2>1. 1..0 = {}
    OBVIOUS
  <2> DEFINE it == [s \in SUBSET (1..0) |-> base]
  <2>2. Equation(it, p, base, seq, 0)
    BY <2>1 DEF Equation
  <2> QED BY <2>2
<1>2. ASSUME NEW n \in S PROVE n + 1 \in S
  <2>1. n \in Nat /\ n + 1 \in Nat
    OBVIOUS
  <2>2. PICK iter : Equation(iter, p, base, seq, n)
    OBVIOUS
  <2> DEFINE it == [s \in SUBSET (1..(n + 1)) |->
                        IF n + 1 \in s THEN Op(p, iter[s \ {n + 1}], seq[n + 1]) ELSE iter[s]]
  <2>3. \A s \in SUBSET (1..(n + 1)) : n + 1 \in s =>
            /\ Max(s) = n + 1 /\ s # {}
            /\ s \ {n + 1} \in SUBSET (1..n) /\ s \ {n + 1} \in SUBSET (1..(n + 1))
            /\ n + 1 \notin s \ {n + 1}
    BY <2>1, MaxOf
  <2>4. \A s \in SUBSET (1..(n + 1)) : n + 1 \notin s => s \in SUBSET (1..n)
    BY <2>1
  <2>5. \A s \in SUBSET (1..(n + 1)) :
            it[s] = IF s = {} THEN base ELSE Op(p, it[s \ {Max(s)}], seq[Max(s)])
    <3> SUFFICES ASSUME NEW s \in SUBSET (1..(n + 1))
                 PROVE  it[s] = IF s = {} THEN base ELSE Op(p, it[s \ {Max(s)}], seq[Max(s)])
      OBVIOUS
    <3>1. CASE n + 1 \in s
      BY <3>1, <2>3
    <3>2. CASE n + 1 \notin s
      <4>1. /\ s \in SUBSET (1..n) /\ s \ {Max(s)} \in SUBSET (1..(n + 1))
            /\ n + 1 \notin s \ {Max(s)}
        BY <3>2, <2>4
      <4>2. iter[s] = IF s = {} THEN base ELSE Op(p, iter[s \ {Max(s)}], seq[Max(s)])
        BY <4>1, <2>2 DEF Equation
      <4> QED BY <4>1, <4>2, <3>2
    <3> QED BY <3>1, <3>2
  <2>6. Equation(it, p, base, seq, n + 1)
    BY <2>5 DEF Equation
  <2> QED BY <2>1, <2>6
<1> HIDE DEF S
<1>3. S = Nat
  BY <1>1, <1>2, NatSetInduction DEF S
<1> QED BY <1>3 DEF S

\* g is the accumulator before the first turn and after each of the n turns.
Trace(g, p, base, seq, n) ==
    /\ g[0] = base
    /\ \A k \in 1..n : g[k] = Op(p, g[k - 1], seq[k])
    /\ Folded(p, base, seq) = g[n]

\* Every fold over a sequence has such a trace.
LEMMA FoldTrace ==
    ASSUME NEW p, NEW base, NEW seq, NEW n \in Nat, DOMAIN seq = 1..n
    PROVE  \E g : Trace(g, p, base, seq, n)
<1> DEFINE it == CHOOSE iter : Equation(iter, p, base, seq, n)
<1>1. Equation(it, p, base, seq, n)
  BY EquationHasSolution
<1>2. Folded(p, base, seq) = it[1..n]
  BY DEF Folded, FoldLeft, MapThenFoldSet, Equation
<1> HIDE DEF it
<1> DEFINE g == [k \in 0..n |-> it[1..k]]
<1>3. g[0] = base
  <2>1. 1..0 = {} /\ {} \in SUBSET (1..n)
    OBVIOUS
  <2> QED BY <1>1, <2>1 DEF Equation
<1>4. ASSUME NEW k \in 1..n PROVE g[k] = Op(p, g[k - 1], seq[k])
  <2>1. /\ 1..k \in SUBSET (1..n) /\ k \in 1..k /\ (1..k) \ {k} = 1..(k - 1)
        /\ k - 1 \in 0..n /\ k \in 0..n
    OBVIOUS
  <2>2. Max(1..k) = k
    BY <2>1, MaxOf
  <2>3. it[1..k] = Op(p, it[(1..k) \ {k}], seq[k])
    BY <1>1, <2>1, <2>2 DEF Equation
  <2> QED BY <2>1, <2>3
<1>5. Folded(p, base, seq) = g[n]
  BY <1>2
<1> QED BY <1>3, <1>4, <1>5 DEF Trace

\* The same as a formula, for instances.
THEOREM FoldTraces ==
    \A p, base, seq : \A n \in Nat : DOMAIN seq = 1..n => \E g : Trace(g, p, base, seq, n)
  BY FoldTrace

\* A loop over nothing, and a loop over a sequence with one element more.
THEOREM FoldAppends ==
    \A p, base : /\ Folded(p, base, <<>>) = base
                 /\ \A S : \A seq \in Seq(S), x \in S :
                        Folded(p, base, Append(seq, x)) = Op(p, Folded(p, base, seq), x)
<1> SUFFICES ASSUME NEW p, NEW base
             PROVE  /\ Folded(p, base, <<>>) = base
                    /\ \A S : \A seq \in Seq(S), x \in S :
                        Folded(p, base, Append(seq, x)) = Op(p, Folded(p, base, seq), x)
  OBVIOUS
<1>1. Folded(p, base, <<>>) = base
  <2>1. DOMAIN <<>> = 1..0 /\ 0 \in Nat
    OBVIOUS
  <2>2. PICK g : Trace(g, p, base, <<>>, 0)
    BY <2>1, FoldTrace
  <2> QED BY <2>2 DEF Trace
<1>2. ASSUME NEW S, NEW seq \in Seq(S), NEW x \in S
      PROVE  Folded(p, base, Append(seq, x)) = Op(p, Folded(p, base, seq), x)
  <2> DEFINE more == Append(seq, x)
             n == Len(seq)
  <2>1. /\ n \in Nat /\ n + 1 \in Nat /\ DOMAIN seq = 1..n /\ DOMAIN more = 1..(n + 1)
        /\ more[n + 1] = x /\ \A i \in 1..n : more[i] = seq[i]
    BY AppendProperties
  <2> HIDE DEF more, n
  <2>2. PICK f : Trace(f, p, base, seq, n)
    BY <2>1, FoldTrace
  <2>3. PICK g : Trace(g, p, base, more, n + 1)
    BY <2>1, FoldTrace
  <2> DEFINE K == {k \in Nat : f[k] = g[k]}
  <2>4. 0 \in K
    BY <2>2, <2>3 DEF Trace
  <2>5. ASSUME NEW k \in 1..n, k - 1 \in K PROVE k \in K
    <3>1. k \in 1..(n + 1) /\ k \in Nat
      BY <2>1
    <3>2. f[k] = Op(p, f[k - 1], seq[k]) /\ g[k] = Op(p, g[k - 1], more[k])
      BY <2>2, <2>3, <3>1 DEF Trace
    <3> QED BY <2>1, <2>5, <3>1, <3>2
  <2> HIDE DEF K
  <2>6. f[n] = g[n]
    <3>1. 0..n \subseteq K
      BY <2>1, <2>4, <2>5, UpTo
    <3> QED BY <2>1, <3>1 DEF K
  <2>7. n + 1 \in 1..(n + 1) /\ (n + 1) - 1 = n
    BY <2>1
  <2>8. g[n + 1] = Op(p, g[n], x)
    BY <2>1, <2>3, <2>7 DEF Trace
  <2>9. Folded(p, base, more) = g[n + 1] /\ Folded(p, base, seq) = f[n]
    BY <2>2, <2>3 DEF Trace
  <2> QED BY <2>6, <2>8, <2>9 DEF more
<1> QED BY <1>1, <1>2

\* Whatever I[k - 1] holds, the k-th turn makes a member of I[k] of.
Inductive(I, p, base, seq, n) ==
    /\ DOMAIN seq = 1..n
    /\ base \in I[0]
    /\ \A k \in 1..n : \A a \in I[k - 1] : Op(p, a, seq[k]) \in I[k]

\* Induction over the turns: where I[k] holds every value the accumulator may
\* have after k of them, I[n] holds the result.
THEOREM FoldInduction ==
    \A I, p, base, seq : \A n \in Nat :
        Inductive(I, p, base, seq, n) => Folded(p, base, seq) \in I[n]
<1> SUFFICES ASSUME NEW I, NEW p, NEW base, NEW seq, NEW n \in Nat,
                    Inductive(I, p, base, seq, n)
             PROVE  Folded(p, base, seq) \in I[n]
  OBVIOUS
<1>1. PICK g : Trace(g, p, base, seq, n)
  BY FoldTrace DEF Inductive
<1> DEFINE S == {k \in Nat : k <= n => g[k] \in I[k]}
<1>2. 0 \in S
  BY <1>1 DEF Trace, Inductive
<1>3. ASSUME NEW k \in S PROVE k + 1 \in S
  <2>1. CASE k + 1 <= n
    <3>1. k + 1 \in 1..n /\ (k + 1) - 1 = k /\ k <= n
      BY <2>1
    <3>2. g[k + 1] = Op(p, g[k], seq[k + 1]) /\ g[k] \in I[k]
      BY <1>1, <3>1 DEF Trace
    <3>3. Op(p, g[k], seq[k + 1]) \in I[k + 1]
      BY <3>1, <3>2 DEF Inductive
    <3> QED BY <3>2, <3>3
  <2> QED BY <2>1
<1> HIDE DEF S
<1>4. S = Nat
  BY <1>2, <1>3, NatSetInduction DEF S
<1> QED BY <1>1, <1>4 DEF S, Trace

\* A turn makes a member of I of a member of I.
Closed(I, p, S) == \A a \in I, x \in S : Op(p, a, x) \in I

\* Induction with one set for all turns.
THEOREM FoldClosed ==
    \A I, p, S : Closed(I, p, S) => \A base \in I, seq \in Seq(S) : Folded(p, base, seq) \in I
<1> SUFFICES ASSUME NEW I, NEW p, NEW S, Closed(I, p, S), NEW base \in I, NEW seq \in Seq(S)
             PROVE  Folded(p, base, seq) \in I
  OBVIOUS
<1>1. PICK n \in Nat : n = Len(seq)
  OBVIOUS
<1>2. DOMAIN seq = 1..n /\ \A i \in 1..n : seq[i] \in S
  BY <1>1
<1> DEFINE J == [k \in 0..n |-> I]
<1>3. \A k \in 1..n : k - 1 \in 0..n /\ k \in 0..n
  OBVIOUS
<1>4. Inductive(J, p, base, seq, n)
  BY <1>2, <1>3 DEF Inductive, Closed
<1> HIDE DEF J
<1>5. Folded(p, base, seq) \in J[n]
  BY <1>4, FoldInduction
<1> QED BY <1>5 DEF J

----------------------------------------------------------------------------
(* Loops that build a sequence *)

\* The elements of the first k places.
FirstOf(seq, k) == {seq[i] : i \in 1..k}

\* The first k places grow by the element at the next.
LEMMA FirstOfGrows ==
    ASSUME NEW seq, NEW k \in Nat
    PROVE  /\ FirstOf(seq, 0) = {}
           /\ FirstOf(seq, k + 1) = FirstOf(seq, k) \cup {seq[k + 1]}
<1>1. 1..0 = {} /\ 1..(k + 1) = (1..k) \cup {k + 1}
  OBVIOUS
<1> QED BY <1>1 DEF FirstOf

\* What an appended element adds to a sequence.
LEMMA AppendAdds ==
    ASSUME NEW S, NEW a \in Seq(S), NEW x \in S
    PROVE  /\ Append(a, x) \in Seq(S) /\ Len(Append(a, x)) = Len(a) + 1
           /\ ToSet(Append(a, x)) = ToSet(a) \cup {x}
<1>1. /\ Append(a, x) \in Seq(S) /\ Len(Append(a, x)) = Len(a) + 1
      /\ \A i \in 1..Len(a) : Append(a, x)[i] = a[i]
      /\ Append(a, x)[Len(a) + 1] = x
  BY AppendProperties
<1>2. DOMAIN a = 1..Len(a) /\ DOMAIN Append(a, x) = 1..(Len(a) + 1) /\ Len(a) \in Nat
  BY <1>1
<1>3. ASSUME NEW y \in ToSet(Append(a, x)) PROVE y \in ToSet(a) \cup {x}
  <2>1. PICK i \in 1..(Len(a) + 1) : y = Append(a, x)[i]
    BY <1>2 DEF ToSet
  <2>2. i \in 1..Len(a) \/ i = Len(a) + 1
    BY <1>2
  <2> QED BY <1>1, <1>2, <2>1, <2>2 DEF ToSet
<1>4. ASSUME NEW y \in ToSet(a) PROVE y \in ToSet(Append(a, x))
  <2>1. PICK i \in 1..Len(a) : y = a[i]
    BY <1>2 DEF ToSet
  <2>2. i \in 1..(Len(a) + 1) /\ y = Append(a, x)[i]
    BY <1>1, <1>2, <2>1
  <2> QED BY <1>2, <2>2 DEF ToSet
<1>5. x \in ToSet(Append(a, x))
  <2>1. Len(a) + 1 \in 1..(Len(a) + 1)
    BY <1>2
  <2> QED BY <1>1, <1>2, <2>1 DEF ToSet
<1> QED BY <1>1, <1>3, <1>4, <1>5

\* A turn keeps the sequence it has or appends its element.
Selects(p, S) ==
    \A a \in Seq(S), x \in S : Op(p, a, x) = a \/ Op(p, a, x) = Append(a, x)

\* A loop of such turns returns a sequence of elements it went over.
THEOREM FoldSelects ==
    \A p, S : Selects(p, S) => \A seq \in Seq(S) :
        /\ Folded(p, <<>>, seq) \in Seq(S)
        /\ ToSet(Folded(p, <<>>, seq)) \subseteq ToSet(seq)
        /\ Len(Folded(p, <<>>, seq)) <= Len(seq)
<1> SUFFICES ASSUME NEW p, NEW S, Selects(p, S), NEW seq \in Seq(S)
             PROVE  /\ Folded(p, <<>>, seq) \in Seq(S)
                    /\ ToSet(Folded(p, <<>>, seq)) \subseteq ToSet(seq)
                    /\ Len(Folded(p, <<>>, seq)) <= Len(seq)
  OBVIOUS
<1>1. PICK n \in Nat : n = Len(seq)
  OBVIOUS
<1>2. DOMAIN seq = 1..n /\ FirstOf(seq, n) = ToSet(seq) /\ \A i \in 1..n : seq[i] \in S
  BY <1>1 DEF FirstOf, ToSet
<1> DEFINE I == [k \in 0..n |-> {a \in Seq(S) : ToSet(a) \subseteq FirstOf(seq, k) /\ Len(a) <= k}]
<1>3. <<>> \in I[0]
  BY FirstOfGrows DEF ToSet
<1>4. ASSUME NEW k \in 1..n, NEW a \in I[k - 1] PROVE Op(p, a, seq[k]) \in I[k]
  <2>1. k - 1 \in Nat /\ (k - 1) + 1 = k /\ k - 1 \in 0..n /\ k \in 0..n
    OBVIOUS
  <2>2. a \in Seq(S) /\ ToSet(a) \subseteq FirstOf(seq, k - 1) /\ Len(a) <= k - 1
    BY <2>1
  <2>3. FirstOf(seq, k) = FirstOf(seq, k - 1) \cup {seq[k]}
    BY <2>1, FirstOfGrows
  <2>4. Op(p, a, seq[k]) = a \/ Op(p, a, seq[k]) = Append(a, seq[k])
    BY <1>2, <2>2 DEF Selects
  <2>5. CASE Op(p, a, seq[k]) = a
    BY <2>1, <2>2, <2>3, <2>5
  <2>6. CASE Op(p, a, seq[k]) = Append(a, seq[k])
    <3>1. /\ Append(a, seq[k]) \in Seq(S) /\ Len(Append(a, seq[k])) = Len(a) + 1
          /\ ToSet(Append(a, seq[k])) = ToSet(a) \cup {seq[k]}
      BY <1>2, <2>2, AppendAdds
    <3> QED BY <2>1, <2>2, <2>3, <2>6, <3>1
  <2> QED BY <2>4, <2>5, <2>6
<1> HIDE DEF I
<1>5. Inductive(I, p, <<>>, seq, n)
  BY <1>2, <1>3, <1>4 DEF Inductive
<1>6. Folded(p, <<>>, seq) \in I[n]
  BY <1>5, FoldInduction
<1> QED BY <1>1, <1>2, <1>6 DEF I

\* A turn appends the elements of T and no other.
Filters(p, S, T) ==
    \A a \in Seq(S), x \in S : Op(p, a, x) = IF x \in T THEN Append(a, x) ELSE a

\* A loop of such turns returns the elements it went over that are in T.
THEOREM FoldFilters ==
    \A p, S, T : Filters(p, S, T) => \A seq \in Seq(S) :
        /\ Folded(p, <<>>, seq) \in Seq(S)
        /\ ToSet(Folded(p, <<>>, seq)) = ToSet(seq) \cap T
<1> SUFFICES ASSUME NEW p, NEW S, NEW T, Filters(p, S, T), NEW seq \in Seq(S)
             PROVE  /\ Folded(p, <<>>, seq) \in Seq(S)
                    /\ ToSet(Folded(p, <<>>, seq)) = ToSet(seq) \cap T
  OBVIOUS
<1>1. PICK n \in Nat : n = Len(seq)
  OBVIOUS
<1>2. DOMAIN seq = 1..n /\ FirstOf(seq, n) = ToSet(seq) /\ \A i \in 1..n : seq[i] \in S
  BY <1>1 DEF FirstOf, ToSet
<1> DEFINE I == [k \in 0..n |-> {a \in Seq(S) : ToSet(a) = FirstOf(seq, k) \cap T}]
<1>3. <<>> \in I[0]
  BY FirstOfGrows DEF ToSet
<1>4. ASSUME NEW k \in 1..n, NEW a \in I[k - 1] PROVE Op(p, a, seq[k]) \in I[k]
  <2>1. k - 1 \in Nat /\ (k - 1) + 1 = k /\ k - 1 \in 0..n /\ k \in 0..n
    OBVIOUS
  <2>2. a \in Seq(S) /\ ToSet(a) = FirstOf(seq, k - 1) \cap T
    BY <2>1
  <2>3. FirstOf(seq, k) = FirstOf(seq, k - 1) \cup {seq[k]}
    BY <2>1, FirstOfGrows
  <2>4. Op(p, a, seq[k]) = IF seq[k] \in T THEN Append(a, seq[k]) ELSE a
    BY <1>2, <2>2 DEF Filters
  <2>5. /\ Append(a, seq[k]) \in Seq(S)
        /\ ToSet(Append(a, seq[k])) = ToSet(a) \cup {seq[k]}
    BY <1>2, <2>2, AppendAdds
  <2> QED BY <2>1, <2>2, <2>3, <2>4, <2>5
<1> HIDE DEF I
<1>5. Inductive(I, p, <<>>, seq, n)
  BY <1>2, <1>3, <1>4 DEF Inductive
<1>6. Folded(p, <<>>, seq) \in I[n]
  BY <1>5, FoldInduction
<1> QED BY <1>1, <1>2, <1>6 DEF I

\* The places at lead through seq, in order, to the elements of a: the ones in
\* T among the first k.
Places(at, a, seq, k, T) ==
    /\ at \in [1..Len(a) -> 1..k]
    /\ \A l, m \in 1..Len(a) : l < m => at[l] < at[m]
    /\ \A m \in 1..Len(a) : a[m] = seq[at[m]] /\ a[m] \in T
    /\ \A i \in 1..k : seq[i] \in T => \E m \in 1..Len(a) : at[m] = i

\* One more place, for an element of T.
LEMMA PlaceAppended ==
    ASSUME NEW S, NEW T, NEW a \in Seq(S), NEW seq, NEW k \in Nat, NEW x \in S \cap T,
           seq[k + 1] = x, \E at : Places(at, a, seq, k, T)
    PROVE  \E at : Places(at, Append(a, x), seq, k + 1, T)
<1>1. PICK at : Places(at, a, seq, k, T)
  OBVIOUS
<1>2. PICK n \in Nat : n = Len(a)
  OBVIOUS
<1>3. /\ Len(Append(a, x)) = n + 1 /\ Append(a, x)[n + 1] = x
      /\ \A m \in 1..n : Append(a, x)[m] = a[m]
  BY <1>2, AppendProperties
<1>4. /\ at \in [1..n -> 1..k]
      /\ \A l, m \in 1..n : l < m => at[l] < at[m]
      /\ \A m \in 1..n : a[m] = seq[at[m]] /\ a[m] \in T
      /\ \A i \in 1..k : seq[i] \in T => \E m \in 1..n : at[m] = i
  BY <1>1, <1>2 DEF Places
<1> DEFINE next == [m \in 1..(n + 1) |-> IF m = n + 1 THEN k + 1 ELSE at[m]]
<1>5. \A m \in 1..n : m \in 1..(n + 1) /\ m # n + 1 /\ at[m] \in 1..k
  BY <1>4
<1>6. \A m \in 1..n : next[m] = at[m]
  BY <1>5
<1>7. next[n + 1] = k + 1 /\ n + 1 \in 1..(n + 1)
  OBVIOUS
<1>8. next \in [1..(n + 1) -> 1..(k + 1)]
  BY <1>5
<1> HIDE DEF next
<1>9. ASSUME NEW l \in 1..(n + 1), NEW m \in 1..(n + 1), l < m PROVE next[l] < next[m]
  <2>1. CASE m = n + 1
    <3>1. l \in 1..n /\ at[l] \in 1..k
      BY <1>5, <1>9, <2>1
    <3> QED BY <1>6, <1>7, <2>1, <3>1
  <2>2. CASE m # n + 1
    <3>1. l \in 1..n /\ m \in 1..n
      BY <1>9, <2>2
    <3> QED BY <1>4, <1>6, <1>9, <3>1
  <2> QED BY <2>1, <2>2
<1>10. ASSUME NEW m \in 1..(n + 1)
       PROVE  Append(a, x)[m] = seq[next[m]] /\ Append(a, x)[m] \in T
  <2>1. m \in 1..n \/ m = n + 1
    OBVIOUS
  <2> QED BY <1>3, <1>4, <1>6, <1>7, <2>1
<1>11. ASSUME NEW i \in 1..(k + 1), seq[i] \in T PROVE \E m \in 1..(n + 1) : next[m] = i
  <2>1. i \in 1..k \/ i = k + 1
    OBVIOUS
  <2> QED BY <1>4, <1>5, <1>6, <1>7, <1>11, <2>1
<1>12. Places(next, Append(a, x), seq, k + 1, T)
  BY <1>3, <1>8, <1>9, <1>10, <1>11 DEF Places
<1> QED BY <1>12

\* A loop of such turns returns them in the order in which it met them.
THEOREM FoldPlaces ==
    \A p, S, T : Filters(p, S, T) => \A seq \in Seq(S) :
        \E at : Places(at, Folded(p, <<>>, seq), seq, Len(seq), T)
<1> SUFFICES ASSUME NEW p, NEW S, NEW T, Filters(p, S, T), NEW seq \in Seq(S)
             PROVE  \E at : Places(at, Folded(p, <<>>, seq), seq, Len(seq), T)
  OBVIOUS
<1>1. PICK n \in Nat : n = Len(seq)
  OBVIOUS
<1>2. DOMAIN seq = 1..n /\ \A i \in 1..n : seq[i] \in S
  BY <1>1
<1> DEFINE I == [k \in 0..n |-> {a \in Seq(S) : \E at : Places(at, a, seq, k, T)}]
<1>3. <<>> \in I[0]
  <2>1. Len(<<>>) = 0 /\ 1..0 = {} /\ <<>> \in Seq(S) /\ 0 \in 0..n
    OBVIOUS
  <2>2. Places([m \in 1..0 |-> m], <<>>, seq, 0, T)
    BY <2>1 DEF Places
  <2> QED BY <2>1, <2>2
<1>4. ASSUME NEW k \in 1..n, NEW a \in I[k - 1] PROVE Op(p, a, seq[k]) \in I[k]
  <2>1. k - 1 \in Nat /\ (k - 1) + 1 = k /\ k - 1 \in 0..n /\ k \in 0..n
    OBVIOUS
  <2>2. a \in Seq(S) /\ \E at : Places(at, a, seq, k - 1, T)
    BY <2>1
  <2>3. Op(p, a, seq[k]) = IF seq[k] \in T THEN Append(a, seq[k]) ELSE a
    BY <1>2, <2>2 DEF Filters
  <2>4. CASE seq[k] \in T
    <3>1. \E at : Places(at, Append(a, seq[k]), seq, (k - 1) + 1, T)
      BY <1>2, <2>1, <2>2, <2>4, PlaceAppended
    <3>2. Append(a, seq[k]) \in Seq(S)
      BY <1>2, <2>2
    <3> QED BY <2>1, <2>3, <2>4, <3>1, <3>2
  <2>5. CASE seq[k] \notin T
    <3>1. PICK at : Places(at, a, seq, k - 1, T)
      BY <2>2
    <3>2. 1..(k - 1) \subseteq 1..k /\ \A i \in 1..k : i \in 1..(k - 1) \/ i = k
      BY <2>1
    <3>3. Places(at, a, seq, k, T)
      BY <2>5, <3>1, <3>2 DEF Places
    <3> QED BY <2>1, <2>2, <2>3, <2>5, <3>3
  <2> QED BY <2>4, <2>5
<1> HIDE DEF I
<1>5. Inductive(I, p, <<>>, seq, n)
  BY <1>2, <1>3, <1>4 DEF Inductive
<1>6. Folded(p, <<>>, seq) \in I[n]
  BY <1>5, FoldInduction
<1> QED BY <1>1, <1>6 DEF I

\* A turn puts its element in somewhere.
Inserts(p, S) ==
    \A a \in Seq(S), x \in S :
        /\ Op(p, a, x) \in Seq(S) /\ Len(Op(p, a, x)) = Len(a) + 1
        /\ ToSet(Op(p, a, x)) = ToSet(a) \cup {x}

\* A loop of such turns loses and invents nothing.
THEOREM FoldInserts ==
    \A p, S : Inserts(p, S) => \A seq \in Seq(S) :
        /\ Folded(p, <<>>, seq) \in Seq(S)
        /\ ToSet(Folded(p, <<>>, seq)) = ToSet(seq)
        /\ Len(Folded(p, <<>>, seq)) = Len(seq)
<1> SUFFICES ASSUME NEW p, NEW S, Inserts(p, S), NEW seq \in Seq(S)
             PROVE  /\ Folded(p, <<>>, seq) \in Seq(S)
                    /\ ToSet(Folded(p, <<>>, seq)) = ToSet(seq)
                    /\ Len(Folded(p, <<>>, seq)) = Len(seq)
  OBVIOUS
<1>1. PICK n \in Nat : n = Len(seq)
  OBVIOUS
<1>2. DOMAIN seq = 1..n /\ FirstOf(seq, n) = ToSet(seq) /\ \A i \in 1..n : seq[i] \in S
  BY <1>1 DEF FirstOf, ToSet
<1> DEFINE I == [k \in 0..n |-> {a \in Seq(S) : ToSet(a) = FirstOf(seq, k) /\ Len(a) = k}]
<1>3. <<>> \in I[0]
  BY FirstOfGrows DEF ToSet
<1>4. ASSUME NEW k \in 1..n, NEW a \in I[k - 1] PROVE Op(p, a, seq[k]) \in I[k]
  <2>1. k - 1 \in Nat /\ (k - 1) + 1 = k /\ k - 1 \in 0..n /\ k \in 0..n
    OBVIOUS
  <2>2. a \in Seq(S) /\ ToSet(a) = FirstOf(seq, k - 1) /\ Len(a) = k - 1
    BY <2>1
  <2>3. FirstOf(seq, k) = FirstOf(seq, k - 1) \cup {seq[k]}
    BY <2>1, FirstOfGrows
  <2>4. /\ Op(p, a, seq[k]) \in Seq(S) /\ Len(Op(p, a, seq[k])) = Len(a) + 1
        /\ ToSet(Op(p, a, seq[k])) = ToSet(a) \cup {seq[k]}
    BY <1>2, <2>2 DEF Inserts
  <2> QED BY <2>1, <2>2, <2>3, <2>4
<1> HIDE DEF I
<1>5. Inductive(I, p, <<>>, seq, n)
  BY <1>2, <1>3, <1>4 DEF Inductive
<1>6. Folded(p, <<>>, seq) \in I[n]
  BY <1>5, FoldInduction
<1> QED BY <1>1, <1>2, <1>6 DEF I

----------------------------------------------------------------------------
(* FlattenSeq *)

\* The function FlattenSeq chooses: the first k sequences, one behind the other.
Flattening(f, seqs, n) ==
    f = [i \in 1..n |-> IF i = 1 THEN seqs[i] ELSE f[i - 1] \o seqs[i]]

\* That function exists.
LEMMA FlatteningExists ==
    ASSUME NEW seqs
    PROVE  \A n \in Nat : \E f : Flattening(f, seqs, n)
<1> DEFINE S == {n \in Nat : \E f : Flattening(f, seqs, n)}
<1>1. 0 \in S
  <2>1. 1..0 = {}
    OBVIOUS
  <2>2. Flattening([i \in 1..0 |-> 0], seqs, 0)
    BY <2>1 DEF Flattening
  <2> QED BY <2>2
<1>2. ASSUME NEW n \in S PROVE n + 1 \in S
  <2>1. n \in Nat /\ n + 1 \in Nat
    OBVIOUS
  <2>2. PICK f : Flattening(f, seqs, n)
    OBVIOUS
  <2> DEFINE g == [i \in 1..(n + 1) |-> IF i = n + 1
                                       THEN IF i = 1 THEN seqs[i] ELSE f[i - 1] \o seqs[i]
                                       ELSE f[i]]
  <2>3. \A i \in 1..(n + 1) : g[i] = IF i = 1 THEN seqs[i] ELSE g[i - 1] \o seqs[i]
    <3> SUFFICES ASSUME NEW i \in 1..(n + 1)
                 PROVE  g[i] = IF i = 1 THEN seqs[i] ELSE g[i - 1] \o seqs[i]
      OBVIOUS
    <3>1. CASE i = n + 1
      <4>1. i # 1 => i - 1 \in 1..(n + 1) /\ i - 1 # n + 1
        BY <2>1
      <4> QED BY <3>1, <4>1
    <3>2. CASE i # n + 1
      <4>1. i \in 1..n /\ (i # 1 => i - 1 \in 1..(n + 1) /\ i - 1 # n + 1)
        BY <2>1, <3>2
      <4>2. f[i] = IF i = 1 THEN seqs[i] ELSE f[i - 1] \o seqs[i]
        BY <2>2, <4>1 DEF Flattening
      <4> QED BY <3>2, <4>1, <4>2
    <3> QED BY <3>1, <3>2
  <2>4. Flattening(g, seqs, n + 1)
    BY <2>3 DEF Flattening
  <2> QED BY <2>1, <2>4
<1> HIDE DEF S
<1>3. S = Nat
  BY <1>1, <1>2, NatSetInduction DEF S
<1> QED BY <1>3 DEF S

FlattenTrace(f, seqs, n) ==
    /\ f[1] = seqs[1]
    /\ \A k \in 2..n : f[k] = f[k - 1] \o seqs[k]
    /\ FlattenSeq(seqs) = f[n]

\* Flattening, sequence by sequence.
THEOREM FlattenTraces ==
    \A seqs : \A n \in Nat : Len(seqs) = n /\ n # 0 => \E f : FlattenTrace(f, seqs, n)
<1> SUFFICES ASSUME NEW seqs, NEW n \in Nat, Len(seqs) = n, n # 0
             PROVE  \E f : FlattenTrace(f, seqs, n)
  OBVIOUS
<1> DEFINE f == CHOOSE f : Flattening(f, seqs, n)
<1>1. Flattening(f, seqs, n)
  BY FlatteningExists
<1>2. FlattenSeq(seqs) = f[n]
  BY DEF FlattenSeq, Flattening
<1> HIDE DEF f
<1>3. 1 \in 1..n /\ \A k \in 2..n : k \in 1..n /\ k # 1
  OBVIOUS
<1> QED BY <1>1, <1>2, <1>3 DEF Flattening, FlattenTrace

\* The sequences of a sequence make one sequence, of their elements.
THEOREM FlattenIsSeq ==
    \A S : \A seqs \in Seq(Seq(S)) : FlattenSeq(seqs) \in Seq(S)
<1> SUFFICES ASSUME NEW S, NEW seqs \in Seq(Seq(S)) PROVE FlattenSeq(seqs) \in Seq(S)
  OBVIOUS
<1>1. PICK n \in Nat : n = Len(seqs)
  OBVIOUS
<1>2. \A i \in 1..n : seqs[i] \in Seq(S)
  BY <1>1
<1>3. CASE n = 0
  <2>1. seqs = <<>> /\ Len(seqs) = 0
    BY <1>1, <1>3, EmptySeq, Zenon
  <2>2. FlattenSeq(seqs) = <<>>
    BY <2>1 DEF FlattenSeq
  <2> QED BY <2>2
<1>4. CASE n # 0
  <2>0. PICK f : FlattenTrace(f, seqs, n)
    BY <1>1, <1>4, FlattenTraces
  <2>1. /\ f[1] = seqs[1]
        /\ \A k \in 2..n : f[k] = f[k - 1] \o seqs[k]
        /\ FlattenSeq(seqs) = f[n]
    BY <2>0 DEF FlattenTrace
  <2> DEFINE K == {k \in Nat : k = 0 \/ f[k] \in Seq(S)}
  <2>2. 0 \in K
    OBVIOUS
  <2>3. ASSUME NEW k \in 1..n, k - 1 \in K PROVE k \in K
    <3>1. CASE k = 1
      BY <1>2, <2>1, <3>1
    <3>2. CASE k # 1
      <4>1. k \in 2..n /\ k - 1 # 0
        BY <3>2
      <4>2. f[k - 1] \in Seq(S) /\ seqs[k] \in Seq(S) /\ f[k] = f[k - 1] \o seqs[k]
        BY <1>2, <2>1, <2>3, <4>1
      <4>3. f[k] \in Seq(S)
        BY ONLY <4>2, ConcatProperties
      <4> QED BY <4>3
    <3> QED BY <3>1, <3>2
  <2> HIDE DEF K
  <2>4. 0..n \subseteq K
    BY ONLY <2>2, <2>3, n \in Nat, UpTo
  <2>5. n \in K
    BY <2>4
  <2> QED BY <1>4, <2>1, <2>5 DEF K
<1> QED BY <1>3, <1>4

=============================================================================
