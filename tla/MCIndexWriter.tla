---------------------------- MODULE MCIndexWriter ----------------------------
(***************************************************************************)
(* Instances of CoordinatedIndexWriter for TLC.  An id fixes the embedding *)
(* class here; it is a digest of the blocks and of the first 500           *)
(* characters of the text, so longer chunks with one id may differ.  How   *)
(* ids and versions go together is what the parser decides, and differs    *)
(* between documents:                                                      *)
(*   A  each version has chunk ids of its own                              *)
(*   B  the parser gives no version and ids repeat between batches         *)
(*   S  an unchanged chunk keeps its id in the next version                *)
(***************************************************************************)
EXTENDS CoordinatedIndexWriter, TLC

MCIds == {"a1", "a2", "a3", "a4", "a5", "b1", "b2", "b3", "s1", "s2"}
MCDocs == {"A", "B", "S"}
MCDocOf == [a1 |-> "A", a2 |-> "A", a3 |-> "A", a4 |-> "A", a5 |-> "A",
            b1 |-> "B", b2 |-> "B", b3 |-> "B", s1 |-> "S", s2 |-> "S"]

\* Chunks of one class are near duplicates.
VecOf == [a1 |-> "x", a2 |-> "y", a3 |-> "x", a4 |-> "x", a5 |-> "z",
          b1 |-> "x", b2 |-> "y", b3 |-> "x", s1 |-> "x", s2 |-> "y"]
MCVecs == {"x", "y", "z"}
MCNear == {<<v, v>> : v \in MCVecs}

C(i, v) == [id |-> i, ver |-> v, vec |-> VecOf[i]]

\* Two versions; in the second one a chunk duplicates another.
Keyed ==
    {<<C("a1", "v1"), C("a2", "v1")>>,
     <<C("a3", "v2"), C("a4", "v2"), C("a5", "v2")>>}

\* Ids shared between batches, and a near duplicate of a chunk stored before.
Unversioned ==
    {<<C("b1", NoVersion)>>,
     <<C("b2", NoVersion), C("b3", NoVersion)>>}

\* The second version leaves one of its chunks unchanged.
Unchanged ==
    {<<C("s1", "v1")>>,
     <<C("s1", "v2"), C("s2", "v2")>>}

\* One chunk per version, for writers that interleave freely.
Single == {<<C("a1", "v1")>>, <<C("a3", "v2")>>}

KeyedAndUnversioned == Keyed \cup Unversioned
KeyedPlusOne == Keyed \cup {<<C("b1", NoVersion)>>}

\* The writers run the same code.
WriterSymmetry == Permutations(Writers)
=============================================================================
