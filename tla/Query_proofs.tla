----------------------------- MODULE Query_proofs -----------------------------
(***************************************************************************)
(* Query is proved of any corpora, questions and answers: the loops of      *)
(* retrieval and of the context builder by induction over their turns, the  *)
(* call by an invariant of its variables.                                  *)
(***************************************************************************)
EXTENDS Query, FiniteSetTheorems, SequenceTheorems, TLAPS

----------------------------------------------------------------------------
(* The turns of the loops, with what each loop leaves alone as p *)

\* The orders the code sorts by.
Precedes(order, x, y) ==
    CASE order = "similarity" -> x.sim > y.sim
      [] order = "fusion"     -> x.score > y.score
      [] order = "reranking"  -> PromotedBefore(x, y)
      [] order = "window"     -> TupleBefore(OrderKey(x), OrderKey(y))
      [] OTHER                -> WeakerThan(x, y)

SortTurn(order, sorted, x) ==
    InsertAt(sorted, Cardinality({i \in DOMAIN sorted : ~Precedes(order, x, sorted[i])}) + 1, x)

FilterTurn(T, kept, x) == IF x \in T THEN Append(kept, x) ELSE kept

PayloadTurn(p, acc, h) ==
    IF \E c \in ToSet(acc) : c.id = h.chunk.id THEN acc ELSE Append(acc, h.chunk)

DeduplicateTurn(p, kept, s) == IF IsRedundant(s, ToSet(kept)) THEN kept ELSE Append(kept, s)

CompressTurn(question, kept, s) == RemoveWeakest(question, kept)

Sorting == INSTANCE SequenceFolds WITH Op <- SortTurn
Filtering == INSTANCE SequenceFolds WITH Op <- FilterTurn
Collecting == INSTANCE SequenceFolds WITH Op <- PayloadTurn
Deduplicating == INSTANCE SequenceFolds WITH Op <- DeduplicateTurn
Compressing == INSTANCE SequenceFolds WITH Op <- CompressTurn

----------------------------------------------------------------------------
(* Operators on sequences *)

\* Whatever is a sequence is one of its own elements.
LEMMA SeqOfOwn ==
    ASSUME NEW S, NEW s \in Seq(S)
    PROVE  s \in Seq(ToSet(s)) /\ ToSet(s) \subseteq S /\ DOMAIN s = 1..Len(s) /\ Len(s) \in Nat
<1>1. DOMAIN s = 1..Len(s) /\ Len(s) \in Nat /\ \A i \in 1..Len(s) : s[i] \in S
  OBVIOUS
<1>2. \A i \in 1..Len(s) : s[i] \in ToSet(s)
  BY <1>1 DEF ToSet
<1>3. s \in Seq(ToSet(s))
  BY <1>1, <1>2, IsASeq
<1> QED BY <1>1, <1>3 DEF ToSet

\* What a list comprehension returns.
LEMMA AmongKeeps ==
    ASSUME NEW T, NEW S, NEW s \in Seq(S)
    PROVE  Among(s, T) \in Seq(S) /\ ToSet(Among(s, T)) = ToSet(s) \cap T
<1>1. Filtering!Filters(T, S, T)
  BY DEF Filtering!Filters, FilterTurn
<1>2. Among(s, T) = Filtering!Folded(T, <<>>, s)
  BY DEF Among, FilterTurn, Filtering!Folded, FoldLeft, MapThenFoldSet, Max,
         Filtering!FoldLeft, Filtering!MapThenFoldSet, Filtering!Max
<1> QED BY <1>1, <1>2, Filtering!FoldFilters DEF ToSet, Filtering!ToSet

\* A function on 1..n is a sequence, of its own elements.
LEMMA FunctionIsSeq ==
    ASSUME NEW f, NEW n \in Nat, DOMAIN f = 1..n, f = [i \in 1..n |-> f[i]]
    PROVE  f \in Seq(ToSet(f)) /\ Len(f) = n
<1>1. f \in [1..n -> ToSet(f)]
  BY DEF ToSet
<1> QED BY <1>1

\* InsertAt, place by place.
LEMMA InsertAtPlaces ==
    ASSUME NEW S, NEW a \in Seq(S), NEW x \in S, NEW k \in 1..(Len(a) + 1)
    PROVE  InsertAt(a, k, x) =
              [i \in 1..(Len(a) + 1) |->
                  IF i < k THEN a[i] ELSE IF i = k THEN x ELSE a[i - 1]]
<1> DEFINE front == SubSeq(a, 1, k - 1)
           back == SubSeq(a, k, Len(a))
<1>1. Len(a) \in Nat /\ k \in Nat /\ k >= 1 /\ k <= Len(a) + 1
  OBVIOUS
<1>2. front \in Seq(S) /\ Len(front) = k - 1 /\ \A i \in 1..(k - 1) : front[i] = a[i]
  BY <1>1, SubSeqProperties
<1>3. back \in Seq(S) /\ Len(back) = Len(a) - k + 1 /\ \A i \in 1..(Len(a) - k + 1) : back[i] = a[k + i - 1]
  <2> HIDE DEF back
  <2>1. k \in Int /\ Len(a) \in Int /\ \A i \in k..Len(a) : a[i] \in S
    BY <1>1
  <2>2. /\ back \in Seq(S) /\ Len(back) = IF k <= Len(a) THEN Len(a) - k + 1 ELSE 0
        /\ \A i \in 1..(Len(a) - k + 1) : back[i] = a[k + i - 1]
    BY ONLY <2>1, SubSeqProperties DEF back
  <2> QED BY <1>1, <2>2
<1> HIDE DEF front, back
<1> DEFINE mid == front \o <<x>>
<1>4. mid \in Seq(S) /\ Len(mid) = k /\ (\A i \in 1..(k - 1) : mid[i] = a[i]) /\ mid[k] = x
  BY <1>1, <1>2
<1> HIDE DEF mid
<1> DEFINE all == mid \o back
<1>5. all \in Seq(S) /\ Len(all) = Len(a) + 1
  <2>1. mid \o back \in Seq(S) /\ Len(mid \o back) = Len(mid) + Len(back)
    BY <1>3, <1>4, ConcatProperties
  <2> QED BY <1>1, <1>3, <1>4, <2>1
<1>6. ASSUME NEW i \in 1..(Len(a) + 1)
      PROVE  all[i] = IF i < k THEN a[i] ELSE IF i = k THEN x ELSE a[i - 1]
  <2>0. i \in Nat /\ (i < k \/ i = k \/ i > k)
    BY <1>1
  <2>1. CASE i < k
    BY <1>1, <1>3, <1>4, <2>1
  <2>2. CASE i = k
    BY <1>1, <1>3, <1>4, <2>2
  <2>3. CASE i > k
    <3>0. i \in 1..(Len(mid) + Len(back)) /\ ~(i <= Len(mid))
      BY <1>1, <1>3, <1>4, <2>3
    <3>1. all[i] = back[i - k]
      BY <1>3, <1>4, <3>0, ConcatProperties
    <3>2. i - k \in 1..(Len(a) - k + 1) /\ k + (i - k) - 1 = i - 1
      BY <1>1, <2>3
    <3> HIDE DEF all
    <3> QED BY <1>1, <1>3, <2>0, <2>3, <3>1, <3>2
  <2> QED BY ONLY <2>0, <2>1, <2>2, <2>3
<1>7. all = InsertAt(a, k, x)
  BY DEF all, mid, front, back, InsertAt
<1> QED BY <1>5, <1>6, <1>7

\* What an inserted element adds.
LEMMA InsertAtAdds ==
    ASSUME NEW S, NEW a \in Seq(S), NEW x \in S, NEW k \in 1..(Len(a) + 1)
    PROVE  /\ InsertAt(a, k, x) \in Seq(S) /\ Len(InsertAt(a, k, x)) = Len(a) + 1
           /\ ToSet(InsertAt(a, k, x)) = ToSet(a) \cup {x}
<1> DEFINE all == InsertAt(a, k, x)
<1>1. all = [i \in 1..(Len(a) + 1) |-> IF i < k THEN a[i] ELSE IF i = k THEN x ELSE a[i - 1]]
  BY InsertAtPlaces
<1>2. Len(a) \in Nat /\ k \in Nat /\ DOMAIN a = 1..Len(a) /\ \A i \in 1..Len(a) : a[i] \in S
  OBVIOUS
<1> HIDE DEF all
<1>3. all \in [1..(Len(a) + 1) -> S]
  BY <1>1, <1>2
<1>4. all \in Seq(S) /\ Len(all) = Len(a) + 1 /\ DOMAIN all = 1..(Len(a) + 1)
  BY <1>2, <1>3
<1>5. ASSUME NEW y \in ToSet(all) PROVE y \in ToSet(a) \cup {x}
  <2>1. PICK i \in 1..(Len(a) + 1) : y = all[i]
    BY <1>4 DEF ToSet
  <2>2. y = x \/ (i < k /\ y = a[i]) \/ (i > k /\ y = a[i - 1])
    BY <1>1, <1>2, <2>1
  <2>3. (i < k => i \in 1..Len(a)) /\ (i > k => i - 1 \in 1..Len(a))
    BY <1>2
  <2> QED BY <1>2, <2>2, <2>3 DEF ToSet
<1>6. ASSUME NEW y \in ToSet(a) PROVE y \in ToSet(all)
  <2>1. PICK i \in 1..Len(a) : y = a[i]
    BY <1>2 DEF ToSet
  <2>2. i \in 1..(Len(a) + 1) /\ i + 1 \in 1..(Len(a) + 1) /\ (i + 1) - 1 = i
    BY <1>2
  <2>3. (i < k => all[i] = y) /\ (i >= k => all[i + 1] = y)
    BY <1>1, <1>2, <2>1, <2>2
  <2> QED BY <1>2, <1>4, <2>2, <2>3 DEF ToSet
<1>7. x \in ToSet(all)
  <2>1. k \in 1..(Len(a) + 1) /\ all[k] = x
    BY <1>1, <1>2
  <2> QED BY <1>4, <2>1 DEF ToSet
<1> QED BY <1>4, <1>5, <1>6, <1>7 DEF all
----------------------------------------------------------------------------
(* The loops of the model are the folds of the instances *)

\* A sort by any of the orders loses and invents nothing.
LEMMA SortKeeps ==
    ASSUME NEW order, NEW S, NEW seq \in Seq(S)
    PROVE  /\ Sorting!Folded(order, <<>>, seq) \in Seq(S)
           /\ ToSet(Sorting!Folded(order, <<>>, seq)) = ToSet(seq)
           /\ Len(Sorting!Folded(order, <<>>, seq)) = Len(seq)
<1>1. ASSUME NEW a \in Seq(S), NEW x \in S
      PROVE  /\ SortTurn(order, a, x) \in Seq(S) /\ Len(SortTurn(order, a, x)) = Len(a) + 1
             /\ ToSet(SortTurn(order, a, x)) = ToSet(a) \cup {x}
  <2> DEFINE behind == {i \in DOMAIN a : ~Precedes(order, x, a[i])}
  <2>1. DOMAIN a = 1..Len(a) /\ Len(a) \in Nat
    OBVIOUS
  <2>2. IsFiniteSet(1..Len(a)) /\ Cardinality(1..Len(a)) = Len(a)
    <3>1. PICK n \in Nat : n = Len(a)
      BY <2>1
    <3>2. 1 \in Int /\ n \in Int
      OBVIOUS
    <3>3. IsFiniteSet(1..n) /\ Cardinality(1..n) = IF 1 > n THEN 0 ELSE n - 1 + 1
      BY ONLY <3>2, FS_Interval
    <3> QED BY <3>1, <3>3
  <2>3. behind \subseteq 1..Len(a)
    BY <2>1
  <2> HIDE DEF behind
  <2>4. Cardinality(behind) \in Nat /\ Cardinality(behind) <= Len(a)
    BY <2>2, <2>3, FS_Subset, FS_CardinalityType
  <2>5. Cardinality(behind) + 1 \in 1..(Len(a) + 1)
    BY <2>1, <2>4
  <2>6. SortTurn(order, a, x) = InsertAt(a, Cardinality(behind) + 1, x)
    BY DEF SortTurn, behind
  <2> QED BY <2>5, <2>6, InsertAtAdds
<1>2. Sorting!Inserts(order, S)
  BY <1>1 DEF Sorting!Inserts, ToSet, Sorting!ToSet
<1>3. \A s \in Seq(S) :
        /\ Sorting!Folded(order, <<>>, s) \in Seq(S)
        /\ Sorting!ToSet(Sorting!Folded(order, <<>>, s)) = Sorting!ToSet(s)
        /\ Len(Sorting!Folded(order, <<>>, s)) = Len(s)
  BY <1>2, Sorting!FoldInserts
<1> QED BY <1>3 DEF ToSet, Sorting!ToSet

\* Each sort of the model is one of them.
LEMMA SortsFold ==
    ASSUME NEW s
    PROVE  /\ Sorted(s, LAMBDA c, d : c.sim > d.sim) = Sorting!Folded("similarity", <<>>, s)
           /\ Sorted(s, LAMBDA h, g : h.score > g.score) = Sorting!Folded("fusion", <<>>, s)
           /\ Sorted(s, PromotedBefore) = Sorting!Folded("reranking", <<>>, s)
           /\ OrderSources(s) = Sorting!Folded("window", <<>>, s)
           /\ Sorted(s, WeakerThan) = Sorting!Folded("removal", <<>>, s)
<1>1. Sorted(s, LAMBDA c, d : c.sim > d.sim) = Sorting!Folded("similarity", <<>>, s)
  BY DEF Sorted, SortTurn, Precedes, Sorting!Folded, FoldLeft, MapThenFoldSet, Max,
         Sorting!FoldLeft, Sorting!MapThenFoldSet, Sorting!Max
<1>2. Sorted(s, LAMBDA h, g : h.score > g.score) = Sorting!Folded("fusion", <<>>, s)
  BY DEF Sorted, SortTurn, Precedes, Sorting!Folded, FoldLeft, MapThenFoldSet, Max,
         Sorting!FoldLeft, Sorting!MapThenFoldSet, Sorting!Max
<1>3. Sorted(s, PromotedBefore) = Sorting!Folded("reranking", <<>>, s)
  BY DEF Sorted, SortTurn, Precedes, Sorting!Folded, FoldLeft, MapThenFoldSet, Max,
         Sorting!FoldLeft, Sorting!MapThenFoldSet, Sorting!Max
<1>4. OrderSources(s) = Sorting!Folded("window", <<>>, s)
  BY DEF OrderSources, Sorted, SortTurn, Precedes, Sorting!Folded, FoldLeft, MapThenFoldSet, Max,
         Sorting!FoldLeft, Sorting!MapThenFoldSet, Sorting!Max
<1>5. Sorted(s, WeakerThan) = Sorting!Folded("removal", <<>>, s)
  BY DEF Sorted, SortTurn, Precedes, Sorting!Folded, FoldLeft, MapThenFoldSet, Max,
         Sorting!FoldLeft, Sorting!MapThenFoldSet, Sorting!Max
<1> QED BY <1>1, <1>2, <1>3, <1>4, <1>5

----------------------------------------------------------------------------
(* Retrieval *)

\* Min of two numbers.
LEMMA MinOfTwo ==
    ASSUME NEW m \in Nat, NEW n \in Nat
    PROVE  Min({m, n}) \in Nat /\ Min({m, n}) <= m /\ Min({m, n}) <= n
<1>1. \E x \in {m, n} : \A y \in {m, n} : x <= y
  OBVIOUS
<1>2. Min({m, n}) \in {m, n} /\ \A y \in {m, n} : Min({m, n}) <= y
  BY <1>1 DEF Min
<1> QED BY <1>2

\* The first elements of a sequence.
LEMMA TakeKeeps ==
    ASSUME NEW S, NEW s \in Seq(S), NEW n \in Nat
    PROVE  Take(s, n) \in Seq(S) /\ Len(Take(s, n)) <= n
<1>1. PICK m \in Nat : m = Min({n, Len(s)}) /\ m <= n /\ m <= Len(s)
  BY MinOfTwo
<1>0. m <= n /\ m <= Len(s) /\ Len(s) \in Nat
  BY <1>1
<1>2. 1 \in Int /\ m \in Int /\ \A i \in 1..m : s[i] \in S
  BY ONLY <1>0, m \in Nat, s \in Seq(S)
<1>3. SubSeq(s, 1, m) \in Seq(S) /\ Len(SubSeq(s, 1, m)) = IF 1 <= m THEN m - 1 + 1 ELSE 0
  BY ONLY <1>2, SubSeqProperties
<1>4. Take(s, n) = SubSeq(s, 1, m)
  BY <1>1 DEF Take
<1>5. Len(SubSeq(s, 1, m)) <= n
  BY ONLY <1>0, <1>3, m \in Nat, n \in Nat
<1> QED BY <1>3, <1>4, <1>5

\* A store answers with chunks it holds.
LEMMA SearchesFind ==
    ASSUME NEW store, IsFiniteSet(store), NEW backend, NEW limit \in Nat,
           NEW found \in Searches(store, backend, limit)
    PROVE  found \in Seq(store)
<1> DEFINE matching == {c \in store : MatchesBackend(c, backend)}
<1>1. matching \subseteq store /\ Cardinality(matching) \in Nat
  BY FS_Subset, FS_CardinalityType
<1> HIDE DEF matching
<1>2. PICK s \in SetToSeqs(matching) : found = Take(s, limit)
  BY DEF Searches, matching
<1>3. s \in [1..Cardinality(matching) -> matching]
  BY <1>2 DEF SetToSeqs
<1>4. s \in Seq(store)
  BY <1>1, <1>3
<1> QED BY <1>2, <1>4, TakeKeeps

\* So does one that searches the text.
LEMMA TextSearchesFind ==
    ASSUME NEW store, IsFiniteSet(store), NEW backend, NEW limit \in Nat, NEW question,
           NEW found \in TextSearches(store, backend, limit, question)
    PROVE  found \in Seq(store)
<1> DEFINE worded == {c \in store : ToSet(c.text) \cap ToSet(question) # {}}
<1>1. worded \subseteq store /\ IsFiniteSet(worded)
  BY FS_Subset
<1> HIDE DEF worded
<1>2. found \in Searches(store, backend, limit) \/ found \in Searches(worded, backend, limit)
  BY DEF TextSearches, worded
<1>3. found \in Seq(store) \/ found \in Seq(worded)
  BY <1>1, <1>2, SearchesFind
<1> QED BY <1>1, <1>3, SeqMonotonic

\* The limit of a search is a number.
LEMMA LimitIsNat == Limit \in Nat /\ Prefetch \in Nat
<1>1. Prefetch \in Nat /\ Pool \in Nat
  BY RetrievalAssumption
<1>2. \E x \in {Prefetch, Pool} : \A y \in {Prefetch, Pool} : x >= y
  BY <1>1
<1>3. Limit \in {Prefetch, Pool}
  BY <1>2 DEF Limit, Max
<1> QED BY <1>1, <1>3

\* The filters the store does not know drop candidates and keep the order.
LEMMA FilteredKeeps ==
    ASSUME NEW S, NEW candidates \in Seq(S), NEW filters
    PROVE  Filtered(candidates, filters) \in Seq(S)
<1> QED BY AmongKeeps DEF Filtered, Those

\* The hits of a branch: no more than prefetch_k, ranked from 1.
HitsOK(hits) ==
    /\ hits \in Seq(ToSet(hits)) /\ Len(hits) <= Prefetch
    /\ \A i \in DOMAIN hits : hits[i].rank = i

\* Ranking the first prefetch_k of a sequence makes such hits.
LEMMA RankedOK ==
    ASSUME NEW S, NEW s \in Seq(S)
    PROVE  HitsOK(Ranked(Take(s, Prefetch)))
<1>1. PICK t \in Seq(S) : t = Take(s, Prefetch) /\ Len(t) <= Prefetch
  BY LimitIsNat, TakeKeeps
<1>2. DOMAIN t = 1..Len(t) /\ Len(t) \in Nat
  OBVIOUS
<1> DEFINE hits == [i \in 1..Len(t) |-> [chunk |-> t[i], rank |-> i]]
<1>3. hits = Ranked(Take(s, Prefetch))
  BY <1>1, <1>2 DEF Ranked
<1>4. DOMAIN hits = 1..Len(t) /\ hits = [i \in 1..Len(t) |-> hits[i]]
      /\ \A i \in 1..Len(t) : hits[i].rank = i
  OBVIOUS
<1> HIDE DEF hits
<1>5. hits \in Seq(ToSet(hits)) /\ Len(hits) = Len(t)
  BY <1>2, <1>4, FunctionIsSeq
<1> QED BY <1>1, <1>3, <1>4, <1>5 DEF HitsOK

\* What the dense retriever returns.
LEMMA DenseHitsOK ==
    ASSUME NEW S, NEW found \in Seq(S), NEW filters
    PROVE  HitsOK(DenseHits(found, filters))
<1>1. Filtered(found, filters) \in Seq(S)
  BY FilteredKeeps
<1>2. Sorted(Filtered(found, filters), LAMBDA c, d : c.sim > d.sim) \in Seq(S)
  BY <1>1, SortKeeps, SortsFold
<1> QED BY <1>2, RankedOK DEF DenseHits

\* What the sparse retriever returns.
LEMMA SparseHitsOK ==
    ASSUME NEW S, NEW found \in Seq(S), NEW filters
    PROVE  HitsOK(SparseHits(found, filters))
<1>1. Filtered(found, filters) \in Seq(S)
  BY FilteredKeeps
<1> QED BY <1>1, RankedOK DEF SparseHits

----------------------------------------------------------------------------
(* What a rank earns *)

\* One factor more of the common denominator.
FactorTurn(p, product, factor) == product * factor

Multiplying == INSTANCE SequenceFolds WITH Op <- FactorTurn

\* A multiple stays one when it is multiplied again.
LEMMA MultipleOfMultiple ==
    ASSUME NEW a \in Nat, NEW b \in Nat, NEW c \in Nat,
           \E m \in Nat : a = b * m
    PROVE  \E m \in Nat : a * c = b * m
<1>1. PICK m \in Nat : a = b * m
  OBVIOUS
<1>2. m * c \in Nat /\ (b * m) * c = b * (m * c)
  OBVIOUS
<1> QED BY <1>1, <1>2

\* The common denominator is a positive multiple of what each rank divides by.
LEMMA DenominatorDivides ==
    /\ Denominator \in Nat \ {0}
    /\ \A r \in 1..Prefetch : \E m \in Nat : Denominator = (RrfK + r) * m
<1> DEFINE factors == [r \in 1..Prefetch |-> RrfK + r]
           I == [k \in 0..Prefetch |->
                    {a \in Nat \ {0} : \A r \in 1..k : \E m \in Nat : a = (RrfK + r) * m}]
<1>1. Prefetch \in Nat /\ RrfK \in Nat \ {0}
  BY RetrievalAssumption
<1>2. 1 \in I[0]
  BY <1>1
<1>3. ASSUME NEW k \in 1..Prefetch, NEW a \in I[k - 1]
      PROVE  FactorTurn(0, a, factors[k]) \in I[k]
  <2>1. k - 1 \in 0..Prefetch /\ k \in 0..Prefetch /\ k \in Nat
    BY <1>1
  <2>2. a \in Nat \ {0} /\ \A r \in 1..(k - 1) : \E m \in Nat : a = (RrfK + r) * m
    BY <2>1
  <2>3. factors[k] = RrfK + k /\ RrfK + k \in Nat \ {0}
    BY <1>1
  <2> DEFINE b == a * (RrfK + k)
  <2>4. b \in Nat \ {0}
    BY <2>2, <2>3
  <2>5. ASSUME NEW r \in 1..k PROVE \E m \in Nat : b = (RrfK + r) * m
    <3>1. CASE r = k
      <4>1. b = (RrfK + r) * a
        BY <1>1, <2>1, <2>2, <3>1
      <4> QED BY <2>2, <4>1
    <3>2. CASE r # k
      <4>1. r \in 1..(k - 1) /\ RrfK + r \in Nat
        BY <1>1, <2>1, <3>2
      <4>2. \E m \in Nat : a = (RrfK + r) * m
        BY <2>2, <4>1
      <4> QED BY <2>2, <2>3, <4>1, <4>2, MultipleOfMultiple
    <3> QED BY <3>1, <3>2
  <2> HIDE DEF b
  <2>6. b \in I[k]
    BY <2>1, <2>4, <2>5
  <2>7. FactorTurn(0, a, factors[k]) = b
    BY <2>3 DEF FactorTurn, b
  <2> QED BY <2>6, <2>7
<1>4. DOMAIN factors = 1..Prefetch
  OBVIOUS
<1>5. I[Prefetch] = {a \in Nat \ {0} : \A r \in 1..Prefetch : \E m \in Nat : a = (RrfK + r) * m}
  BY <1>1
<1> HIDE DEF I
<1>6. Multiplying!Inductive(I, 0, 1, factors, Prefetch)
  BY <1>2, <1>3, <1>4 DEF Multiplying!Inductive
<1>7. Multiplying!Folded(0, 1, factors) \in I[Prefetch]
  BY <1>1, <1>6, Multiplying!FoldInduction
<1>8. Denominator = Multiplying!Folded(0, 1, factors)
  BY DEF Denominator, FactorTurn, Multiplying!Folded, FoldLeft, MapThenFoldSet, Max,
         Multiplying!FoldLeft, Multiplying!MapThenFoldSet, Multiplying!Max
<1> QED BY <1>5, <1>7, <1>8

\* Of two ways to write a positive product the one with the greater first
\* factor has the smaller second one.
LEMMA SmallerFactor ==
    ASSUME NEW a \in Nat \ {0}, NEW b \in Nat \ {0}, NEW m \in Nat, NEW n \in Nat,
           a * m = b * n, a * m # 0, a < b
    PROVE  0 < n /\ n < m
<1>1. n # 0 /\ m # 0
  <2>1. a * 0 = 0 /\ b * 0 = 0
    OBVIOUS
  <2> QED BY <2>1
<1>2. ASSUME m <= n PROVE FALSE
  <2>1. PICK d \in Nat : n = m + d
    <3>1. n - m \in Nat /\ n = m + (n - m)
      BY <1>2
    <3> QED BY <3>1
  <2>2. PICK e \in Nat : b = a + e /\ e > 0
    <3>1. b - a \in Nat /\ b = a + (b - a) /\ b - a > 0
      OBVIOUS
    <3> QED BY <3>1
  <2>3. b * n = a * m + a * d + e * n
    BY <2>1, <2>2
  <2>4. a * d >= 0 /\ e * n > 0
    BY <1>1, <2>2
  <2>5. a * m \in Nat /\ a * d \in Nat /\ e * n \in Nat
    BY <2>2
  <2> QED BY <2>3, <2>4, <2>5
<1> QED BY <1>1, <1>2

\* A multiple divided gives the other factor.
LEMMA QuotientIs ==
    ASSUME NEW b \in Nat \ {0}, NEW m \in Nat
    PROVE  (b * m) \div b = m
  OBVIOUS

\* A weighted branch gives a hit something, and the more the better its rank.
LEMMA ShareFalls ==
    ASSUME NEW weight \in Nat \ {0}, NEW r \in 1..Prefetch
    PROVE  /\ Share(weight, r) \in Nat \ {0}
           /\ \A q \in 1..Prefetch : r < q => Share(weight, q) < Share(weight, r)
<1>1. Prefetch \in Nat /\ RrfK \in Nat \ {0} /\ RrfK + r \in Nat \ {0}
  BY RetrievalAssumption
<1>2. PICK m \in Nat : Denominator = (RrfK + r) * m
  BY DenominatorDivides
<1>3. Denominator # 0
  BY DenominatorDivides
<1>4. m # 0
  <2>1. (RrfK + r) * 0 = 0
    BY <1>1
  <2> QED BY <1>2, <1>3, <2>1
<1>5. Share(weight, r) = weight * m
  BY <1>1, <1>2, QuotientIs DEF Share
<1>6. ASSUME NEW q \in 1..Prefetch, r < q PROVE Share(weight, q) < Share(weight, r)
  <2>1. RrfK + q \in Nat \ {0} /\ RrfK + r < RrfK + q
    BY <1>1, <1>6
  <2>2. PICK n \in Nat : Denominator = (RrfK + q) * n
    BY DenominatorDivides
  <2>3. Share(weight, q) = weight * n
    BY <2>1, <2>2, QuotientIs DEF Share
  <2>4. n < m
    BY <1>1, <1>2, <1>3, <2>1, <2>2, SmallerFactor
  <2>5. PICK d \in Nat \ {0} : m = n + d
    <3>1. m - n \in Nat \ {0} /\ m = n + (m - n)
      BY <2>4
    <3> QED BY <3>1
  <2>6. weight * m = weight * n + weight * d /\ weight * d > 0
    BY <2>5
  <2>7. weight * n \in Nat /\ weight * d \in Nat
    BY <2>5
  <2> QED BY <1>5, <2>3, <2>6, <2>7
<1> QED BY <1>4, <1>5, <1>6

----------------------------------------------------------------------------
(* Sequences that repeat nothing *)

\* A sequence repeats nothing when it has as many elements as places.
LEMMA InjectiveCounts ==
    ASSUME NEW S, NEW s \in Seq(S)
    PROVE  IsInjective(s) <=> Cardinality(ToSet(s)) = Len(s)
<1>1. PICK n \in Nat : n = Len(s) /\ DOMAIN s = 1..n
  OBVIOUS
<1>2. 1 \in Int /\ n \in Int
  OBVIOUS
<1>3. IsFiniteSet(1..n) /\ Cardinality(1..n) = n
  <2>1. IsFiniteSet(1..n) /\ Cardinality(1..n) = IF 1 > n THEN 0 ELSE n - 1 + 1
    BY ONLY <1>2, FS_Interval
  <2> QED BY <2>1
<1>4. s \in Surjection(1..n, ToSet(s))
  BY <1>1 DEF ToSet, Surjection
<1>5. Cardinality(ToSet(s)) = Cardinality(1..n) <=> s \in Injection(1..n, ToSet(s))
  BY <1>3, <1>4, FS_Surjection
<1>6. s \in [1..n -> ToSet(s)]
  BY <1>1 DEF ToSet
<1>7. s \in Injection(1..n, ToSet(s)) <=> IsInjective(s)
  BY <1>6 DEF Injection
<1> QED BY <1>1, <1>3, <1>5, <1>7

\* A sort of such a sequence is one.
LEMMA SortInjective ==
    ASSUME NEW order, NEW S, NEW s \in Seq(S), IsInjective(s)
    PROVE  IsInjective(Sorting!Folded(order, <<>>, s))
<1>1. /\ Sorting!Folded(order, <<>>, s) \in Seq(S)
      /\ ToSet(Sorting!Folded(order, <<>>, s)) = ToSet(s)
      /\ Len(Sorting!Folded(order, <<>>, s)) = Len(s)
  BY SortKeeps
<1>2. Cardinality(ToSet(s)) = Len(s)
  BY InjectiveCounts
<1> QED BY <1>1, <1>2, InjectiveCounts

\* Any choice of its elements is one.
LEMMA AmongInjective ==
    ASSUME NEW T, NEW S, NEW s \in Seq(S), IsInjective(s)
    PROVE  IsInjective(Among(s, T))
<1>1. Filtering!Filters(T, S, T)
  BY DEF Filtering!Filters, FilterTurn
<1>2. Among(s, T) = Filtering!Folded(T, <<>>, s)
  BY DEF Among, FilterTurn, Filtering!Folded, FoldLeft, MapThenFoldSet, Max,
         Filtering!FoldLeft, Filtering!MapThenFoldSet, Filtering!Max
<1> DEFINE a == Among(s, T)
<1>3. PICK at : Filtering!Places(at, a, s, Len(s), T)
  BY <1>1, <1>2, Filtering!FoldPlaces
<1>4. a \in Seq(S)
  BY AmongKeeps
<1> HIDE DEF a
<1>5. PICK n \in Nat : n = Len(a) /\ DOMAIN a = 1..n
  BY <1>4
<1>6. /\ at \in [1..n -> 1..Len(s)]
      /\ \A l, m \in 1..n : l < m => at[l] < at[m]
      /\ \A m \in 1..n : a[m] = s[at[m]]
  BY <1>3, <1>5 DEF Filtering!Places
<1>7. DOMAIN s = 1..Len(s) /\ Len(s) \in Nat
  OBVIOUS
<1>8. ASSUME NEW l \in 1..n, NEW m \in 1..n, a[l] = a[m], l < m PROVE FALSE
  <2>1. at[l] \in 1..Len(s) /\ at[m] \in 1..Len(s) /\ at[l] < at[m]
    BY <1>6, <1>8
  <2>2. at[l] = at[m]
    BY <1>6, <1>7, <1>8, <2>1 DEF IsInjective
  <2> QED BY <1>7, <2>1, <2>2
<1>9. \A l, m \in 1..n : l = m \/ l < m \/ m < l
  OBVIOUS
<1>10. IsInjective(a)
  BY <1>5, <1>8, <1>9 DEF IsInjective
<1> QED BY <1>10 DEF a

\* What Take takes.
LEMMA TakeTakes ==
    ASSUME NEW S, NEW s \in Seq(S), NEW n \in Nat
    PROVE  /\ Len(Take(s, n)) = Min({n, Len(s)})
           /\ DOMAIN Take(s, n) = 1..Min({n, Len(s)})
           /\ \A i \in 1..Min({n, Len(s)}) : Take(s, n)[i] = s[i] /\ i \in 1..Len(s)
           /\ Min({n, Len(s)}) \in Nat /\ Min({n, Len(s)}) <= Len(s)
<1>1. PICK m \in Nat : m = Min({n, Len(s)}) /\ m <= n /\ m <= Len(s)
  BY MinOfTwo
<1>2. m <= Len(s) /\ Len(s) \in Nat
  BY <1>1
<1>3. 1 \in Int /\ m \in Int /\ \A i \in 1..m : s[i] \in S
  BY ONLY <1>2, m \in Nat, s \in Seq(S)
<1>4. /\ SubSeq(s, 1, m) \in Seq(S)
      /\ Len(SubSeq(s, 1, m)) = IF 1 <= m THEN m - 1 + 1 ELSE 0
      /\ \A i \in 1..(m - 1 + 1) : SubSeq(s, 1, m)[i] = s[1 + i - 1]
  BY ONLY <1>3, SubSeqProperties
<1>5. Take(s, n) = SubSeq(s, 1, m)
  BY <1>1 DEF Take
<1>6. Len(SubSeq(s, 1, m)) = m /\ DOMAIN SubSeq(s, 1, m) = 1..m
  BY ONLY <1>4, m \in Nat
<1>7. ASSUME NEW i \in 1..m PROVE SubSeq(s, 1, m)[i] = s[i] /\ i \in 1..Len(s)
  <2>1. i \in 1..(m - 1 + 1) /\ 1 + i - 1 = i /\ i \in 1..Len(s)
    BY <1>2
  <2> QED BY <1>4, <2>1
<1> QED BY <1>1, <1>5, <1>6, <1>7

\* The first elements of a sequence that repeats nothing repeat nothing.
LEMMA TakeInjective ==
    ASSUME NEW S, NEW s \in Seq(S), IsInjective(s), NEW n \in Nat
    PROVE  IsInjective(Take(s, n)) /\ ToSet(Take(s, n)) \subseteq ToSet(s)
<1>1. PICK m \in Nat : m = Min({n, Len(s)})
  BY TakeTakes
<1>2. DOMAIN Take(s, n) = 1..m /\ \A i \in 1..m : Take(s, n)[i] = s[i] /\ i \in DOMAIN s
  BY <1>1, TakeTakes
<1>3. IsInjective(Take(s, n))
  BY <1>2 DEF IsInjective
<1> QED BY <1>2, <1>3 DEF ToSet

----------------------------------------------------------------------------
(* The filters of a request *)

\* A turn of the loop over the filters that collects those the stores know, or
\* the rest of them.
FiltersTurn(kind, acc, f) ==
    CASE kind = "backend" -> (IF IsEquality(f.ops) THEN Updated(acc, [field \in {FieldOf(f)} |-> f.ops["eq"]]) ELSE acc)
      [] OTHER -> (IF IsEquality(f.ops) THEN acc ELSE Updated(acc, [field \in {FieldOf(f)} |-> f.ops]))

Splitting == INSTANCE SequenceFolds WITH Op <- FiltersTurn

\* The filter at i is of the kind that is collected, and none up to k replaces it.
InForceAt(kind, filters, i, k) ==
    /\ IF kind = "backend" THEN IsEquality(filters[i].ops) ELSE ~IsEquality(filters[i].ops)
    /\ \A j \in (i + 1)..k : FieldOf(filters[j]) # FieldOf(filters[i])

\* What is collected for the field of a filter is the last that names it.
LEMMA CollectsLast ==
    ASSUME NEW kind \in {"backend", "residual"}, NEW filters, NEW n \in Nat, DOMAIN filters = 1..n,
           NEW i \in 1..n, InForceAt(kind, filters, i, n)
    PROVE  LET acc == Splitting!Folded(kind, <<>>, filters) IN
           /\ FieldOf(filters[i]) \in DOMAIN acc
           /\ acc[FieldOf(filters[i])]
                = IF kind = "backend" THEN filters[i].ops["eq"] ELSE filters[i].ops
<1> DEFINE field == FieldOf(filters[i])
           kept == IF kind = "backend" THEN filters[i].ops["eq"] ELSE filters[i].ops
<1>1. PICK g : Splitting!Trace(g, kind, <<>>, filters, n)
  BY Splitting!FoldTraces
<1>2. /\ \A k \in 1..n : g[k] = FiltersTurn(kind, g[k - 1], filters[k])
      /\ Splitting!Folded(kind, <<>>, filters) = g[n]
  BY <1>1 DEF Splitting!Trace
<1> DEFINE K == {k \in 0..n : k >= i => field \in DOMAIN g[k] /\ g[k][field] = kept}
<1>3. 0 \in K
  OBVIOUS
<1>4. ASSUME NEW k \in 1..n, k - 1 \in K PROVE k \in K
  <2>1. CASE k < i
    BY <2>1
  <2>2. CASE k = i
    <3>1. g[k] = Updated(g[k - 1], [name \in {field} |-> kept])
      BY <1>2, <2>2 DEF FiltersTurn, InForceAt
    <3> HIDE DEF field, kept
    <3>2. field \in DOMAIN g[k] /\ g[k][field] = kept
      BY <3>1 DEF Updated
    <3> QED BY <3>2
  <2>3. CASE k > i
    <3>1. k \in (i + 1)..n /\ FieldOf(filters[k]) # field
      BY <2>3 DEF InForceAt
    <3>2. field \in DOMAIN g[k - 1] /\ g[k - 1][field] = kept
      BY <1>4, <2>3
    <3>3. \/ g[k] = g[k - 1]
          \/ \E v : g[k] = Updated(g[k - 1], [name \in {FieldOf(filters[k])} |-> v])
      BY <1>2 DEF FiltersTurn
    <3> HIDE DEF field, kept
    <3>4. field \in DOMAIN g[k] /\ g[k][field] = kept
      BY <3>1, <3>2, <3>3 DEF Updated
    <3> QED BY <3>4
  <2> QED BY <2>1, <2>2, <2>3
<1> HIDE DEF K
<1>5. 0..n \subseteq K
  BY <1>3, <1>4, Splitting!UpTo
<1>6. n \in K
  BY <1>5
<1>7. field \in DOMAIN g[n] /\ g[n][field] = kept
  BY <1>6 DEF K
<1> QED BY <1>2, <1>7

\* What each of the two functions of the code collects.
LEMMA SplitsFold ==
    ASSUME NEW filters
    PROVE  /\ BackendFilters(filters) = Splitting!Folded("backend", <<>>, filters)
           /\ ResidualFilters(filters) = Splitting!Folded("residual", <<>>, filters)
<1>1. BackendFilters(filters) = Splitting!Folded("backend", <<>>, filters)
  BY DEF BackendFilters, FiltersTurn, Splitting!Folded, FoldLeft, MapThenFoldSet, Max,
         Splitting!FoldLeft, Splitting!MapThenFoldSet, Splitting!Max
<1>2. ResidualFilters(filters) = Splitting!Folded("residual", <<>>, filters)
  BY DEF ResidualFilters, FiltersTurn, Splitting!Folded, FoldLeft, MapThenFoldSet, Max,
         Splitting!FoldLeft, Splitting!MapThenFoldSet, Splitting!Max
<1> QED BY <1>1, <1>2

\* A chunk that satisfies the filters in force.
Satisfies(c, filters) ==
    \A f \in InForce(filters) : MatchesOperations(MetadataValue(c, FieldOf(f)), f.ops)

\* What the store and the retriever let through satisfies them.
LEMMA FiltersHold ==
    ASSUME NEW filters, filters \in Seq(ToSet(filters)), NEW c,
           MatchesBackend(c, BackendFilters(filters)),
           MatchesResidual(c, ResidualFilters(filters))
    PROVE  Satisfies(c, filters)
<1> SUFFICES ASSUME NEW f \in InForce(filters)
             PROVE  MatchesOperations(MetadataValue(c, FieldOf(f)), f.ops)
  BY DEF Satisfies
<1>1. PICK n \in Nat : n = Len(filters) /\ DOMAIN filters = 1..n
  OBVIOUS
<1>2. PICK i \in 1..n :
        /\ f = filters[i]
        /\ \A k \in 1..n : FieldOf(filters[k]) = FieldOf(filters[i]) => k <= i
  BY <1>1 DEF InForce
<1>3. \A j \in (i + 1)..n : FieldOf(filters[j]) # FieldOf(filters[i])
  BY <1>2
<1>4. CASE IsEquality(f.ops)
  <2>1. InForceAt("backend", filters, i, n)
    BY <1>2, <1>3, <1>4 DEF InForceAt
  <2>2. /\ FieldOf(f) \in DOMAIN BackendFilters(filters)
        /\ BackendFilters(filters)[FieldOf(f)] = f.ops["eq"]
    BY <1>1, <1>2, <2>1, CollectsLast, SplitsFold
  <2>3. MetadataValue(c, FieldOf(f)) = f.ops["eq"]
    BY <2>2 DEF MatchesBackend
  <2>4. ASSUME NEW v, v = f.ops["eq"] PROVE MatchesOperations(v, f.ops)
    BY <1>4, <2>4 DEF MatchesOperations, IsEquality
  <2> QED BY <2>3, <2>4
<1>5. CASE ~IsEquality(f.ops)
  <2>1. InForceAt("residual", filters, i, n)
    BY <1>2, <1>3, <1>5 DEF InForceAt, IsEquality
  <2>2. /\ FieldOf(f) \in DOMAIN ResidualFilters(filters)
        /\ ResidualFilters(filters)[FieldOf(f)] = f.ops
    BY <1>1, <1>2, <2>1, CollectsLast, SplitsFold
  <2> QED BY <2>2 DEF MatchesResidual
<1> QED BY <1>4, <1>5

----------------------------------------------------------------------------
(* What a branch finds *)

\* A chunk has its id and its metadata.
ChunkOK(c) == {"id", "meta"} \subseteq DOMAIN c

\* A store holds one chunk for an id.
Keyed(store) == \A c, d \in store : c.id = d.id => c = d

\* No id is hit twice, and what is hit satisfies the filters in force.
HitsFollow(hits, filters) ==
    /\ \A i, j \in DOMAIN hits : hits[i].chunk.id = hits[j].chunk.id => i = j
    /\ \A i \in DOMAIN hits : ChunkOK(hits[i].chunk) /\ Satisfies(hits[i].chunk, filters)

\* A store finds nothing twice, and what matches.
LEMMA SearchesMatch ==
    ASSUME NEW store, IsFiniteSet(store), NEW backend, NEW limit \in Nat,
           NEW found \in Searches(store, backend, limit)
    PROVE  IsInjective(found) /\ \A c \in ToSet(found) : MatchesBackend(c, backend)
<1> DEFINE matching == {c \in store : MatchesBackend(c, backend)}
<1>1. matching \subseteq store /\ Cardinality(matching) \in Nat
  BY FS_Subset, FS_CardinalityType
<1>2. \A c \in matching : MatchesBackend(c, backend)
  OBVIOUS
<1>3. Searches(store, backend, limit) = {Take(s, limit) : s \in SetToSeqs(matching)}
  BY DEF Searches
<1> HIDE DEF matching
<1>4. PICK s \in SetToSeqs(matching) : found = Take(s, limit)
  BY <1>3
<1>5. /\ s \in [1..Cardinality(matching) -> matching]
      /\ \A i, j \in 1..Cardinality(matching) : i # j => s[i] # s[j]
  BY <1>4 DEF SetToSeqs
<1>6. s \in Seq(matching) /\ IsInjective(s)
  BY <1>1, <1>5 DEF IsInjective
<1>7. ToSet(s) \subseteq matching
  BY <1>6, SeqOfOwn
<1>8. IsInjective(found) /\ ToSet(found) \subseteq ToSet(s)
  BY <1>4, <1>6, TakeInjective
<1> QED BY <1>2, <1>7, <1>8

\* So does one that searches the text.
LEMMA TextSearchesMatch ==
    ASSUME NEW store, IsFiniteSet(store), NEW backend, NEW limit \in Nat, NEW question,
           NEW found \in TextSearches(store, backend, limit, question)
    PROVE  IsInjective(found) /\ \A c \in ToSet(found) : MatchesBackend(c, backend)
<1> DEFINE worded == {c \in store : ToSet(c.text) \cap ToSet(question) # {}}
<1>1. worded \subseteq store /\ IsFiniteSet(worded)
  BY FS_Subset
<1> HIDE DEF worded
<1>2. found \in Searches(store, backend, limit) \/ found \in Searches(worded, backend, limit)
  BY DEF TextSearches, worded
<1> QED BY <1>1, <1>2, SearchesMatch

\* Ranking the first of such chunks makes such hits.
LEMMA RankedFollow ==
    ASSUME NEW S, NEW s \in Seq(S), IsInjective(s), NEW filters, Keyed(ToSet(s)),
           \A c \in ToSet(s) : ChunkOK(c) /\ Satisfies(c, filters)
    PROVE  HitsFollow(Ranked(Take(s, Prefetch)), filters)
<1> DEFINE t == Take(s, Prefetch)
<1>1. IsInjective(t) /\ ToSet(t) \subseteq ToSet(s)
  BY LimitIsNat, TakeInjective
<1> HIDE DEF t
<1> DEFINE hits == Ranked(t)
<1>2. DOMAIN hits = DOMAIN t /\ \A i \in DOMAIN t : hits[i].chunk = t[i] /\ t[i] \in ToSet(s)
  BY <1>1 DEF Ranked, ToSet
<1> HIDE DEF hits
<1>3. ASSUME NEW i \in DOMAIN hits, NEW j \in DOMAIN hits, hits[i].chunk.id = hits[j].chunk.id
      PROVE  i = j
  <2>1. t[i] = t[j]
    BY <1>2, <1>3 DEF Keyed
  <2> QED BY <1>1, <1>2, <2>1 DEF IsInjective
<1>4. HitsFollow(hits, filters)
  BY <1>2, <1>3 DEF HitsFollow
<1> QED BY <1>4 DEF hits, t

\* What the filters leave of what a store found.
LEMMA FilteredFollow ==
    ASSUME NEW store, Keyed(store), \A c \in store : ChunkOK(c),
           NEW found \in Seq(store), IsInjective(found),
           NEW filters, filters \in Seq(ToSet(filters)),
           \A c \in ToSet(found) : MatchesBackend(c, BackendFilters(filters))
    PROVE  LET s == Filtered(found, filters) IN
           /\ s \in Seq(store) /\ IsInjective(s) /\ ToSet(s) \subseteq store
           /\ \A c \in ToSet(s) : Satisfies(c, filters)
<1> DEFINE T == {c \in ToSet(found) : MatchesResidual(c, ResidualFilters(filters))}
           s == Among(found, T)
<1>1. s = Filtered(found, filters)
  BY DEF Filtered, Those
<1>2. s \in Seq(store) /\ IsInjective(s) /\ ToSet(s) = ToSet(found) \cap T
  BY AmongKeeps, AmongInjective
<1>3. ToSet(s) \subseteq store
  BY <1>2, SeqOfOwn
<1>4. \A c \in ToSet(s) : Satisfies(c, filters)
  BY <1>2, FiltersHold
<1> QED BY <1>1, <1>2, <1>3, <1>4

\* What the dense retriever returns.
LEMMA DenseHitsFollow ==
    ASSUME NEW store, Keyed(store), \A c \in store : ChunkOK(c),
           NEW found \in Seq(store), IsInjective(found),
           NEW filters, filters \in Seq(ToSet(filters)),
           \A c \in ToSet(found) : MatchesBackend(c, BackendFilters(filters))
    PROVE  HitsFollow(DenseHits(found, filters), filters)
<1> DEFINE s == Filtered(found, filters)
           sorted == Sorted(s, LAMBDA c, d : c.sim > d.sim)
<1>1. /\ s \in Seq(store) /\ IsInjective(s) /\ ToSet(s) \subseteq store
      /\ \A c \in ToSet(s) : Satisfies(c, filters)
  BY FilteredFollow
<1>2. DenseHits(found, filters) = Ranked(Take(sorted, Prefetch))
  BY DEF DenseHits
<1> HIDE DEF s
<1>3. sorted = Sorting!Folded("similarity", <<>>, s)
  BY SortsFold
<1>4. sorted \in Seq(store) /\ IsInjective(sorted) /\ ToSet(sorted) = ToSet(s)
  BY <1>1, <1>3, SortKeeps, SortInjective
<1> HIDE DEF sorted
<1>5. Keyed(ToSet(sorted)) /\ \A c \in ToSet(sorted) : ChunkOK(c) /\ Satisfies(c, filters)
  BY <1>1, <1>4 DEF Keyed
<1> QED BY <1>2, <1>4, <1>5, RankedFollow

\* What the sparse retriever returns.
LEMMA SparseHitsFollow ==
    ASSUME NEW store, Keyed(store), \A c \in store : ChunkOK(c),
           NEW found \in Seq(store), IsInjective(found),
           NEW filters, filters \in Seq(ToSet(filters)),
           \A c \in ToSet(found) : MatchesBackend(c, BackendFilters(filters))
    PROVE  HitsFollow(SparseHits(found, filters), filters)
<1> DEFINE s == Filtered(found, filters)
<1>1. /\ s \in Seq(store) /\ IsInjective(s) /\ ToSet(s) \subseteq store
      /\ \A c \in ToSet(s) : Satisfies(c, filters)
  BY FilteredFollow
<1>2. SparseHits(found, filters) = Ranked(Take(s, Prefetch))
  BY DEF SparseHits
<1> HIDE DEF s
<1>3. Keyed(ToSet(s)) /\ \A c \in ToSet(s) : ChunkOK(c) /\ Satisfies(c, filters)
  BY <1>1 DEF Keyed
<1> QED BY <1>1, <1>2, <1>3, RankedFollow

----------------------------------------------------------------------------
(* Sorting by score *)

\* Scores never rise along the sequence.
Falling(a) == \A i, j \in DOMAIN a : i < j => a[i].score >= a[j].score

\* The numbers of a set that has with each number all before it are the first.
LEMMA FirstNumbers ==
    ASSUME NEW n \in Nat, NEW P \in SUBSET (1..n),
           \A i \in P : \A j \in 1..n : j < i => j \in P
    PROVE  P = 1..Cardinality(P)
<1> DEFINE Q == {k \in 1..(n + 1) : k \notin P}
<1>1. n + 1 \in Q /\ Q \in SUBSET Nat
  OBVIOUS
<1> DEFINE m == Sorting!Min(Q)
<1>2. m \in Q /\ \A k \in Q : m <= k
  BY <1>1, Sorting!MinOf
<1> HIDE DEF m
<1>3. P = 1..(m - 1)
  <2>1. m \in 1..(n + 1) /\ m \notin P
    BY <1>2
  <2>2. ASSUME NEW i \in P PROVE i \in 1..(m - 1)
    <3>1. i \in 1..n /\ ~(m < i) /\ i # m
      BY <2>1
    <3> QED BY <2>1, <3>1
  <2>3. ASSUME NEW i \in 1..(m - 1) PROVE i \in P
    <3>1. i \in 1..(n + 1) /\ ~(m <= i)
      BY <2>1
    <3> QED BY <1>2, <3>1
  <2> QED BY <2>2, <2>3
<1>4. m - 1 \in Nat /\ 1 \in Int /\ m - 1 \in Int
  BY <1>2
<1>5. Cardinality(1..(m - 1)) = IF 1 > m - 1 THEN 0 ELSE m - 1 - 1 + 1
  BY ONLY <1>4, FS_Interval
<1> QED BY <1>3, <1>4, <1>5

\* The sort puts an element behind those that score at least as much.
LEMMA SortTurnFalls ==
    ASSUME NEW S, \A x \in S : x.score \in Int,
           NEW a \in Seq(S), Falling(a), NEW x \in S
    PROVE  SortTurn("fusion", a, x) \in Seq(S) /\ Falling(SortTurn("fusion", a, x))
<1> DEFINE behind == {i \in DOMAIN a : ~Precedes("fusion", x, a[i])}
           c == Cardinality(behind)
           b == InsertAt(a, c + 1, x)
<1>1. PICK n \in Nat : n = Len(a) /\ DOMAIN a = 1..n /\ \A i \in 1..n : a[i] \in S
  OBVIOUS
<1>2. \A i \in 1..n : a[i].score \in Int /\ x.score \in Int
  BY <1>1
<1>3. \A i \in 1..n : i \in behind <=> ~(x.score > a[i].score)
  BY <1>1 DEF Precedes
<1>4. behind \in SUBSET (1..n)
  BY <1>1
<1> HIDE DEF behind
<1>5. ASSUME NEW i \in behind, NEW j \in 1..n, j < i PROVE j \in behind
  <2>1. i \in 1..n /\ ~(x.score > a[i].score) /\ a[j].score >= a[i].score
    BY <1>1, <1>3, <1>4, <1>5 DEF Falling
  <2> QED BY <1>2, <1>3, <2>1
<1>6. behind = 1..c
  BY <1>4, <1>5, FirstNumbers
<1>7. c \in Nat /\ c <= n
  <2>1. 1 \in Int /\ n \in Int
    OBVIOUS
  <2>2. IsFiniteSet(1..n) /\ Cardinality(1..n) = IF 1 > n THEN 0 ELSE n - 1 + 1
    BY ONLY <2>1, FS_Interval
  <2>3. Cardinality(behind) \in Nat /\ Cardinality(behind) <= Cardinality(1..n)
    BY <1>4, <2>2, FS_Subset, FS_CardinalityType
  <2> QED BY <2>2, <2>3
<1> HIDE DEF c
<1>8. c + 1 \in 1..(Len(a) + 1)
  BY <1>1, <1>7
<1>9. b \in Seq(S) /\ Len(b) = n + 1
  BY <1>1, <1>8, InsertAtAdds
<1>10. b = [i \in 1..(n + 1) |-> IF i < c + 1 THEN a[i] ELSE IF i = c + 1 THEN x ELSE a[i - 1]]
  BY <1>1, <1>8, InsertAtPlaces
<1> HIDE DEF b
<1>11. \A i \in 1..n : (i <= c => a[i].score >= x.score) /\ (i > c => x.score >= a[i].score)
  <2> SUFFICES ASSUME NEW i \in 1..n
               PROVE  (i <= c => a[i].score >= x.score) /\ (i > c => x.score >= a[i].score)
    OBVIOUS
  <2>1. i <= c <=> ~(x.score > a[i].score)
    BY <1>3, <1>6, <1>7
  <2> QED BY <1>2, <1>7, <2>1
<1>12. ASSUME NEW i \in 1..(n + 1), NEW j \in 1..(n + 1), i < j
       PROVE  b[i].score >= b[j].score
  <2>0. \A k, l \in 1..n : k < l => a[k].score >= a[l].score
    BY <1>1 DEF Falling
  <2>1. CASE j < c + 1
    <3>1. b[i] = a[i] /\ b[j] = a[j] /\ i \in 1..n /\ j \in 1..n
      BY <1>7, <1>10, <1>12, <2>1
    <3> QED BY <1>12, <2>0, <3>1
  <2>2. CASE j = c + 1
    <3>1. b[i] = a[i] /\ b[j] = x /\ i \in 1..n /\ i <= c
      BY <1>7, <1>10, <1>12, <2>2
    <3> QED BY <1>11, <3>1
  <2>3. CASE j > c + 1
    <3>1. b[j] = a[j - 1] /\ j - 1 \in 1..n /\ j - 1 > c
      BY <1>7, <1>10, <2>3
    <3>2. CASE i < c + 1
      <4>1. b[i] = a[i] /\ i \in 1..n /\ i < j - 1
        BY <1>7, <1>10, <1>12, <2>3, <3>2
      <4> QED BY <2>0, <3>1, <4>1
    <3>3. CASE i = c + 1
      <4>1. b[i] = x
        BY <1>10, <3>3
      <4> QED BY <1>11, <3>1, <4>1
    <3>4. CASE i > c + 1
      <4>1. b[i] = a[i - 1] /\ i - 1 \in 1..n /\ i - 1 < j - 1
        BY <1>7, <1>10, <1>12, <3>4
      <4> QED BY <2>0, <3>1, <4>1
    <3> QED BY <1>7, <3>2, <3>3, <3>4
  <2> QED BY <1>7, <2>1, <2>2, <2>3
<1>13. Falling(b)
  BY <1>9, <1>12 DEF Falling
<1>14. SortTurn("fusion", a, x) = b
  BY DEF SortTurn, behind, c, b
<1> QED BY <1>9, <1>13, <1>14

\* Sorted by score, a sequence falls.
LEMMA SortFalls ==
    ASSUME NEW S, \A x \in S : x.score \in Int, NEW s \in Seq(S)
    PROVE  Falling(Sorting!Folded("fusion", <<>>, s))
<1> DEFINE I == {a \in Seq(S) : Falling(a)}
<1>1. <<>> \in I
  BY DEF Falling
<1>2. \A a \in I, x \in S : SortTurn("fusion", a, x) \in I
  BY SortTurnFalls
<1>3. \A a \in I : Falling(a)
  OBVIOUS
<1> HIDE DEF I
<1>4. Sorting!Closed(I, "fusion", S)
  BY <1>2 DEF Sorting!Closed
<1>5. Sorting!Folded("fusion", <<>>, s) \in I
  BY <1>1, <1>4, Sorting!FoldClosed
<1> QED BY <1>3, <1>5

----------------------------------------------------------------------------
(* What a hit earns *)

\* The hits of an id are the one that has it, or none.
LEMMA HitsOfOne ==
    ASSUME NEW hits, HitsOK(hits), NEW filters, HitsFollow(hits, filters), NEW id
    PROVE  \/ \E i \in 1..Len(hits) : hits[i].chunk.id = id /\ HitsOf(id, hits) = <<hits[i]>>
           \/ (\A i \in 1..Len(hits) : hits[i].chunk.id # id) /\ HitsOf(id, hits) = <<>>
<1> DEFINE T == {h \in ToSet(hits) : h.chunk.id = id}
           a == Among(hits, T)
<1>1. HitsOf(id, hits) = a
  BY DEF HitsOf, Those
<1>2. hits \in Seq(ToSet(hits)) /\ \A i \in DOMAIN hits : hits[i].rank = i
  BY DEF HitsOK
<1>3. PICK n \in Nat : n = Len(hits) /\ DOMAIN hits = 1..n
  BY <1>2
<1>4. IsInjective(hits)
  BY <1>2 DEF IsInjective
<1>5. a \in Seq(ToSet(hits)) /\ ToSet(a) = T /\ IsInjective(a)
  <2>1. ToSet(a) = ToSet(hits) \cap T
    BY <1>2, AmongKeeps
  <2>2. a \in Seq(ToSet(hits)) /\ IsInjective(a)
    BY <1>2, <1>4, AmongKeeps, AmongInjective
  <2> QED BY <2>1, <2>2
<1> HIDE DEF a
<1>6. Cardinality(T) = Len(a)
  BY <1>5, InjectiveCounts
<1>7. CASE \E i \in 1..n : hits[i].chunk.id = id
  <2>1. PICK i \in 1..n : hits[i].chunk.id = id
    BY <1>7
  <2>2. T = {hits[i]}
    BY <1>3, <2>1 DEF ToSet, HitsFollow
  <2>3. Len(a) = 1 /\ ToSet(a) = {hits[i]}
    BY <1>5, <1>6, <2>2, FS_Singleton
  <2>4. a[1] = hits[i]
    BY <1>5, <2>3 DEF ToSet
  <2>5. a = <<hits[i]>>
    BY <1>5, <2>3, <2>4
  <2> QED BY <1>1, <1>3, <2>1, <2>5
<1>8. CASE ~\E i \in 1..n : hits[i].chunk.id = id
  <2>1. T = {}
    BY <1>3, <1>8 DEF ToSet
  <2>2. Len(a) = 0
    BY <1>6, <2>1, FS_EmptySet
  <2>3. a = <<>>
    BY <1>5, <2>2
  <2> QED BY <1>1, <1>3, <1>8, <2>3
<1> QED BY <1>7, <1>8

\* A branch gives one hit its share.
EarningTurn(weight, acc, h) == acc + Share(weight, h.rank)

Earning == INSTANCE SequenceFolds WITH Op <- EarningTurn

\* An id has the rank of its hit, and earns its share; without one it earns nothing.
LEMMA EarnedIs ==
    ASSUME NEW hits, HitsOK(hits), NEW filters, HitsFollow(hits, filters),
           NEW weight \in Nat \ {0}, NEW id
    PROVE  \/ \E i \in 1..Len(hits) :
                hits[i].chunk.id = id /\ RankOf(id, hits) = i /\ Earned(id, hits, weight) = Share(weight, i)
           \/ /\ \A i \in 1..Len(hits) : hits[i].chunk.id # id
              /\ RankOf(id, hits) = None /\ Earned(id, hits, weight) = 0
<1> DEFINE a == HitsOf(id, hits)
<1>1. Earned(id, hits, weight) = Earning!Folded(weight, 0, a)
  BY DEF Earned, EarningTurn, Earning!Folded, FoldLeft, MapThenFoldSet, Max,
         Earning!FoldLeft, Earning!MapThenFoldSet, Earning!Max
<1>2. ASSUME NEW i \in 1..Len(hits), hits[i].chunk.id = id, a = <<hits[i]>>
      PROVE  RankOf(id, hits) = i /\ Earned(id, hits, weight) = Share(weight, i)
  <2>1. hits[i].rank = i /\ i \in 1..Prefetch
    <3>1. Len(hits) \in Nat /\ Len(hits) <= Prefetch /\ DOMAIN hits = 1..Len(hits)
      BY DEF HitsOK
    <3> QED BY <3>1, LimitIsNat DEF HitsOK
  <2>2. RankOf(id, hits) = i
    <3>1. a # <<>> /\ Last(a) = hits[i]
      BY <1>2 DEF Last
    <3> QED BY <2>1, <3>1 DEF RankOf
  <2> HIDE DEF a
  <2>3. DOMAIN a = 1..1 /\ a[1] = hits[i]
    BY <1>2
  <2>4. PICK g : Earning!Trace(g, weight, 0, a, 1)
    BY <2>3, Earning!FoldTraces
  <2>5. Earning!Folded(weight, 0, a) = 0 + Share(weight, i)
    <3>1. g[0] = 0 /\ g[1] = EarningTurn(weight, g[1 - 1], a[1])
          /\ Earning!Folded(weight, 0, a) = g[1]
      BY <2>4 DEF Earning!Trace
    <3> QED BY <2>1, <2>3, <3>1 DEF EarningTurn
  <2>6. Share(weight, i) \in Nat
    BY <2>1, ShareFalls
  <2> QED BY <1>1, <2>2, <2>5, <2>6
<1>3. ASSUME a = <<>>
      PROVE  RankOf(id, hits) = None /\ Earned(id, hits, weight) = 0
  <2>1. RankOf(id, hits) = None
    BY <1>3 DEF RankOf
  <2> HIDE DEF a
  <2>2. DOMAIN a = 1..0
    BY <1>3
  <2>3. PICK g : Earning!Trace(g, weight, 0, a, 0)
    BY <2>2, Earning!FoldTraces
  <2>4. Earning!Folded(weight, 0, a) = 0
    BY <2>3 DEF Earning!Trace
  <2> QED BY <1>1, <2>1, <2>4
<1> QED BY <1>2, <1>3, HitsOfOne

\* Ranks that are as good earn as much, and better ones more.
LEMMA BetterEarns ==
    ASSUME NEW hits, HitsOK(hits), NEW filters, HitsFollow(hits, filters),
           NEW weight \in Nat \ {0}, NEW x, NEW y, AsGood(RankOf(x, hits), RankOf(y, hits))
    PROVE  /\ Earned(x, hits, weight) \in Nat /\ Earned(y, hits, weight) \in Nat
           /\ Earned(x, hits, weight) >= Earned(y, hits, weight)
           /\ RankOf(x, hits) # RankOf(y, hits) =>
                Earned(x, hits, weight) > Earned(y, hits, weight)
<1>1. Len(hits) \in Nat /\ Len(hits) <= Prefetch
  BY DEF HitsOK
<1>2. \A i \in 1..Len(hits) : /\ i \in 1..Prefetch /\ i # None
                              /\ Share(weight, i) \in Nat \ {0}
  BY <1>1, LimitIsNat, ShareFalls DEF None
<1>3. \A i, j \in 1..Len(hits) : i < j => Share(weight, j) < Share(weight, i)
  BY <1>2, ShareFalls
<1>4. CASE \E i \in 1..Len(hits) : RankOf(x, hits) = i /\ Earned(x, hits, weight) = Share(weight, i)
  <2>1. PICK i \in 1..Len(hits) : RankOf(x, hits) = i /\ Earned(x, hits, weight) = Share(weight, i)
    BY <1>4
  <2>2. CASE RankOf(y, hits) = None /\ Earned(y, hits, weight) = 0
    BY <1>2, <2>1, <2>2
  <2>3. CASE \E j \in 1..Len(hits) : RankOf(y, hits) = j /\ Earned(y, hits, weight) = Share(weight, j)
    <3>1. PICK j \in 1..Len(hits) : RankOf(y, hits) = j /\ Earned(y, hits, weight) = Share(weight, j)
      BY <2>3
    <3>2. i <= j
      BY <1>2, <2>1, <3>1 DEF AsGood
    <3>3. i = j \/ i < j
      BY <3>2
    <3>4. Share(weight, i) \in Nat /\ Share(weight, j) \in Nat
      BY <1>2
    <3> QED BY <1>3, <2>1, <3>1, <3>3, <3>4
  <2> QED BY <2>2, <2>3, EarnedIs
<1>5. CASE RankOf(x, hits) = None /\ Earned(x, hits, weight) = 0
  <2>1. RankOf(y, hits) = None
    BY <1>5 DEF AsGood
  <2>2. Earned(y, hits, weight) = 0
    BY <1>2, <2>1, EarnedIs
  <2> QED BY <1>5, <2>1, <2>2
<1> QED BY <1>4, <1>5, EarnedIs

----------------------------------------------------------------------------
(* Fusion *)

\* The chunk of a hit of either branch.
ChunksOf(d, s) == {h.chunk : h \in ToSet(d) \cup ToSet(s)}

\* One copy for each id.
PayloadsOK(payloads, d, s) ==
    /\ payloads \in Seq(ChunksOf(d, s))
    /\ \A i, j \in DOMAIN payloads : payloads[i].id = payloads[j].id => i = j
    /\ {c.id : c \in ToSet(payloads)} = {c.id : c \in ChunksOf(d, s)}

\* What concatenation does to the elements.
LEMMA ConcatElements ==
    ASSUME NEW S, NEW d \in Seq(S), NEW s \in Seq(S)
    PROVE  d \o s \in Seq(S) /\ ToSet(d \o s) = ToSet(d) \cup ToSet(s)
<1>1. PICK m \in Nat, n \in Nat : m = Len(d) /\ DOMAIN d = 1..m /\ n = Len(s) /\ DOMAIN s = 1..n
  OBVIOUS
<1> DEFINE both == d \o s
<1>2. /\ both \in Seq(S) /\ Len(both) = m + n
      /\ \A i \in 1..(m + n) : both[i] = IF i <= m THEN d[i] ELSE s[i - m]
  BY <1>1, ConcatProperties
<1> HIDE DEF both
<1>3. DOMAIN both = 1..(m + n)
  BY <1>2
<1>4. ASSUME NEW x \in ToSet(both) PROVE x \in ToSet(d) \cup ToSet(s)
  <2>1. PICK i \in 1..(m + n) : x = both[i]
    BY <1>3 DEF ToSet
  <2>2. CASE i <= m
    <3>1. x = d[i] /\ i \in 1..m
      BY <1>2, <2>1, <2>2
    <3> QED BY <1>1, <3>1 DEF ToSet
  <2>3. CASE ~(i <= m)
    <3>1. x = s[i - m] /\ i - m \in 1..n
      BY <1>2, <2>1, <2>3
    <3> QED BY <1>1, <3>1 DEF ToSet
  <2> QED BY <2>2, <2>3
<1>5. ASSUME NEW x \in ToSet(d) PROVE x \in ToSet(both)
  <2>1. PICK i \in 1..m : x = d[i]
    BY <1>1 DEF ToSet
  <2>2. i \in 1..(m + n) /\ both[i] = x
    BY <1>2, <2>1
  <2> QED BY <1>3, <2>2 DEF ToSet
<1>6. ASSUME NEW x \in ToSet(s) PROVE x \in ToSet(both)
  <2>1. PICK i \in 1..n : x = s[i]
    BY <1>1 DEF ToSet
  <2>2. m + i \in 1..(m + n) /\ ~(m + i <= m) /\ (m + i) - m = i
    OBVIOUS
  <2>3. both[m + i] = x
    BY <1>2, <2>1, <2>2
  <2> QED BY <1>3, <2>2, <2>3 DEF ToSet
<1> QED BY <1>2, <1>4, <1>5, <1>6 DEF both

\* b holds what a holds and a copy for id, and still one copy for each.
Grown(b, a, id, C) ==
    /\ b \in Seq(C)
    /\ \A i, j \in DOMAIN b : b[i].id = b[j].id => i = j
    /\ {c.id : c \in ToSet(b)} = {c.id : c \in ToSet(a)} \cup {id}

\* A turn of the loop over the hits: an id that is new brings its chunk.
LEMMA PayloadTurnKeeps ==
    ASSUME NEW C, NEW a \in Seq(C), NEW h, h.chunk \in C,
           \A i, j \in DOMAIN a : a[i].id = a[j].id => i = j
    PROVE  Grown(PayloadTurn(0, a, h), a, h.chunk.id, C)
<1> DEFINE b == PayloadTurn(0, a, h)
<1>1. CASE \E c \in ToSet(a) : c.id = h.chunk.id
  <2>1. b = a
    BY <1>1 DEF PayloadTurn
  <2>2. {c.id : c \in ToSet(a)} = {c.id : c \in ToSet(a)} \cup {h.chunk.id}
    BY <1>1
  <2> HIDE DEF b
  <2> QED BY <2>1, <2>2 DEF b, Grown
<1>2. CASE ~\E c \in ToSet(a) : c.id = h.chunk.id
  <2>1. b = Append(a, h.chunk)
    BY <1>2 DEF PayloadTurn
  <2> DEFINE x == h.chunk
  <2>2. PICK n \in Nat : n = Len(a) /\ DOMAIN a = 1..n
    OBVIOUS
  <2>3. /\ Append(a, x) \in Seq(C) /\ Len(Append(a, x)) = n + 1
        /\ \A i \in 1..n : Append(a, x)[i] = a[i]
        /\ Append(a, x)[n + 1] = x
    BY <2>2, AppendProperties
  <2> HIDE DEF b, x
  <2>4. /\ b \in Seq(C) /\ DOMAIN b = 1..(n + 1)
        /\ (\A i \in 1..n : b[i] = a[i]) /\ b[n + 1] = x
    BY <2>1, <2>3 DEF x
  <2>5. x.id = h.chunk.id /\ \A i \in 1..n : a[i].id # x.id
    BY <1>2, <2>2 DEF ToSet, x
  <2>6. \A i \in 1..(n + 1) : i \in 1..n \/ i = n + 1
    OBVIOUS
  <2>7. \A i, j \in 1..(n + 1) : b[i].id = b[j].id => i = j
    BY <2>2, <2>4, <2>5, <2>6
  <2>8. ToSet(b) = ToSet(a) \cup {x}
    <3>1. 1..(n + 1) = (1..n) \cup {n + 1}
      OBVIOUS
    <3> QED BY <2>2, <2>4, <3>1 DEF ToSet
  <2>9. {c.id : c \in ToSet(b)} = {c.id : c \in ToSet(a)} \cup {h.chunk.id}
    BY <2>5, <2>8
  <2> QED BY <2>4, <2>7, <2>9 DEF b, Grown
<1> QED BY <1>1, <1>2

\* The loops over both branches collect one copy for each id that was hit.
LEMMA PayloadsCollect ==
    ASSUME NEW d, NEW s, HitsOK(d), HitsOK(s)
    PROVE  PayloadsOK(Payloads(d, s), d, s)
<1> DEFINE T == ToSet(d) \cup ToSet(s)
           C == ChunksOf(d, s)
           both == d \o s
<1>1. d \in Seq(T) /\ s \in Seq(T)
  <2>1. d \in Seq(ToSet(d)) /\ s \in Seq(ToSet(s))
    BY DEF HitsOK
  <2>2. ToSet(d) \subseteq T /\ ToSet(s) \subseteq T
    OBVIOUS
  <2> QED BY <2>1, <2>2, SeqMonotonic
<1>2. \A h \in T : h.chunk \in C
  BY DEF ChunksOf
<1>3. both \in Seq(T) /\ ToSet(both) = T
  <2> HIDE DEF T
  <2>1. d \o s \in Seq(T) /\ ToSet(d \o s) = ToSet(d) \cup ToSet(s)
    BY <1>1, ConcatElements
  <2> QED BY <2>1 DEF T
<1>0. {h.chunk.id : h \in T} = {c.id : c \in C}
  BY DEF ChunksOf
<1> HIDE DEF T, C, both
<1>4. PICK n \in Nat : n = Len(both) /\ DOMAIN both = 1..n /\ \A i \in 1..n : both[i] \in T
  BY <1>3
<1> DEFINE I == [k \in 0..n |->
                    {a \in Seq(C) :
                        /\ \A i, j \in DOMAIN a : a[i].id = a[j].id => i = j
                        /\ {c.id : c \in ToSet(a)} = {both[i].chunk.id : i \in 1..k}}]
<1>5. <<>> \in I[0]
  <2>1. 0 \in 0..n /\ <<>> \in Seq(C) /\ DOMAIN <<>> = {} /\ 1..0 = {}
    OBVIOUS
  <2>2. ToSet(<<>>) = {}
    BY DEF ToSet
  <2> QED BY <2>1, <2>2
<1>6. ASSUME NEW k \in 1..n, NEW a \in I[k - 1] PROVE PayloadTurn(0, a, both[k]) \in I[k]
  <2>1. k - 1 \in 0..n /\ k \in 0..n /\ 1..k = (1..(k - 1)) \cup {k}
    OBVIOUS
  <2>2. /\ a \in Seq(C)
        /\ \A i, j \in DOMAIN a : a[i].id = a[j].id => i = j
        /\ {c.id : c \in ToSet(a)} = {both[i].chunk.id : i \in 1..(k - 1)}
    BY <2>1
  <2>3. both[k].chunk \in C
    BY <1>2, <1>4
  <2> DEFINE b == PayloadTurn(0, a, both[k])
  <2> HIDE DEF I
  <2>4. Grown(b, a, both[k].chunk.id, C)
    BY <2>2, <2>3, PayloadTurnKeeps
  <2> HIDE DEF b
  <2> USE DEF I
  <2>5. {both[i].chunk.id : i \in 1..k}
            = {both[i].chunk.id : i \in 1..(k - 1)} \cup {both[k].chunk.id}
    BY <2>1
  <2>6. b \in I[k]
    BY <2>1, <2>2, <2>4, <2>5 DEF Grown
  <2> QED BY <2>6 DEF b
<1>7. ASSUME NEW a \in I[n]
      PROVE  /\ a \in Seq(C)
             /\ \A i, j \in DOMAIN a : a[i].id = a[j].id => i = j
             /\ {c.id : c \in ToSet(a)} = {c.id : c \in C}
  <2>1. {both[i].chunk.id : i \in 1..n} = {h.chunk.id : h \in T}
    BY <1>3, <1>4 DEF ToSet
  <2>2. n \in 0..n
    OBVIOUS
  <2> QED BY <1>0, <2>1, <2>2
<1> HIDE DEF I
<1>8. Collecting!Inductive(I, 0, <<>>, both, n)
  BY <1>4, <1>5, <1>6 DEF Collecting!Inductive
<1>9. Collecting!Folded(0, <<>>, both) \in I[n]
  BY <1>8, Collecting!FoldInduction
<1>10. Payloads(d, s) = Collecting!Folded(0, <<>>, both)
  BY DEF both, Payloads, PayloadTurn, Collecting!Folded, FoldLeft, MapThenFoldSet, Max,
         Collecting!FoldLeft, Collecting!MapThenFoldSet, Collecting!Max
<1> QED BY <1>7, <1>9, <1>10 DEF PayloadsOK, C

\* What an id earns in both branches.
Score(id, d, s) == Earned(id, d, DenseWeight) + Earned(id, s, SparseWeight)

\* The fused hits: one for each id, with a copy that was hit, by falling score.
FusedFollow(fused, d, s) ==
    /\ fused \in Seq(ToSet(fused))
    /\ \A i, j \in DOMAIN fused : fused[i].chunk.id = fused[j].chunk.id => i = j
    /\ {h.chunk.id : h \in ToSet(fused)} = {c.id : c \in ChunksOf(d, s)}
    /\ \A i \in DOMAIN fused : /\ fused[i].chunk \in ChunksOf(d, s)
                               /\ fused[i].score = Score(fused[i].chunk.id, d, s)
    /\ Falling(fused)

\* Each id has an integer as its score.
LEMMA ScoreIsInt ==
    ASSUME NEW d, NEW s, HitsOK(d), HitsOK(s), NEW filters,
           HitsFollow(d, filters), HitsFollow(s, filters),
           DenseWeight > 0, SparseWeight > 0, NEW id
    PROVE  Score(id, d, s) \in Int
<1>1. DenseWeight \in Nat \ {0} /\ SparseWeight \in Nat \ {0}
  BY RetrievalAssumption
<1>2. AsGood(RankOf(id, d), RankOf(id, d)) /\ AsGood(RankOf(id, s), RankOf(id, s))
  <2>1. \A n \in Nat : AsGood(n, n)
    BY DEF AsGood, None
  <2>2. AsGood(None, None)
    BY DEF AsGood
  <2>3. Len(d) \in Nat /\ Len(s) \in Nat
    BY DEF HitsOK
  <2>4. RankOf(id, d) = None \/ RankOf(id, d) \in Nat
    BY <1>1, <2>3, EarnedIs
  <2>5. RankOf(id, s) = None \/ RankOf(id, s) \in Nat
    BY <1>1, <2>3, EarnedIs
  <2> QED BY <2>1, <2>2, <2>4, <2>5
<1>3. Earned(id, d, DenseWeight) \in Nat /\ Earned(id, s, SparseWeight) \in Nat
  BY <1>1, <1>2, BetterEarns
<1> QED BY <1>3 DEF Score

\* What retrieval returns: a sequence of no more than limit chunks.
ChunksOK(found, limit) == found \in Seq(ToSet(found)) /\ Len(found) <= limit

\* Fused, cut and materialized, the hits are such chunks.
LEMMA FusedOK ==
    ASSUME NEW d, NEW s, HitsOK(d), HitsOK(s), NEW limit \in Nat
    PROVE  ChunksOK(Materialize(Take(Fuse(d, s), limit)), limit)
<1> DEFINE payloads == Payloads(d, s)
           scored == [i \in DOMAIN payloads |->
                        LET c == payloads[i] IN
                        [chunk |-> c,
                         score |-> Earned(c.id, d, DenseWeight) + Earned(c.id, s, SparseWeight),
                         dense |-> RankOf(c.id, d), sparse |-> RankOf(c.id, s)]]
           sorted == Sorted(scored, LAMBDA h, g : h.score > g.score)
           fused == [i \in DOMAIN sorted |-> Updated(sorted[i], [rank |-> i])]
<1>1. fused = Fuse(d, s)
  BY DEF Fuse
<1>2. PICK m \in Nat : DOMAIN payloads = 1..m
  BY PayloadsCollect DEF PayloadsOK
<1> HIDE DEF payloads
<1>3. DOMAIN scored = 1..m /\ scored = [i \in 1..m |-> scored[i]]
  BY <1>2
<1> HIDE DEF scored
<1>4. scored \in Seq(ToSet(scored))
  BY <1>3, FunctionIsSeq
<1>5. sorted \in Seq(ToSet(scored))
  BY <1>4, SortKeeps, SortsFold, ZenonT(40)
<1> HIDE DEF sorted
<1>6. PICK n \in Nat : DOMAIN sorted = 1..n
  BY <1>5
<1>7. DOMAIN fused = 1..n /\ fused = [i \in 1..n |-> fused[i]]
  BY <1>6
<1> HIDE DEF fused
<1>8. fused \in Seq(ToSet(fused))
  BY <1>7, FunctionIsSeq
<1>9. PICK hits \in Seq(ToSet(fused)) : hits = Take(fused, limit) /\ Len(hits) <= limit
  BY <1>8, TakeKeeps
<1> DEFINE found == Materialize(hits)
<1>10. DOMAIN hits = 1..Len(hits) /\ Len(hits) \in Nat
  OBVIOUS
<1>11. DOMAIN found = 1..Len(hits) /\ found = [i \in 1..Len(hits) |-> found[i]]
  BY <1>10 DEF Materialize
<1> HIDE DEF found
<1>12. found \in Seq(ToSet(found)) /\ Len(found) = Len(hits)
  BY <1>10, <1>11, FunctionIsSeq
<1> QED BY <1>1, <1>9, <1>12 DEF ChunksOK, found

\* Reciprocal-rank fusion returns such hits.
LEMMA FuseFollows ==
    ASSUME NEW d, NEW s, HitsOK(d), HitsOK(s), NEW filters,
           HitsFollow(d, filters), HitsFollow(s, filters), DenseWeight > 0, SparseWeight > 0
    PROVE  FusedFollow(Fuse(d, s), d, s)
<1> DEFINE payloads == Payloads(d, s)
           scored == [i \in DOMAIN payloads |->
                        LET c == payloads[i] IN
                        [chunk |-> c,
                         score |-> Earned(c.id, d, DenseWeight) + Earned(c.id, s, SparseWeight),
                         dense |-> RankOf(c.id, d), sparse |-> RankOf(c.id, s)]]
           sorted == Sorted(scored, LAMBDA h, g : h.score > g.score)
           fused == [i \in DOMAIN sorted |-> Updated(sorted[i], [rank |-> i])]
<1>1. fused = Fuse(d, s)
  BY DEF Fuse
<1>2. PayloadsOK(payloads, d, s)
  BY PayloadsCollect
<1> HIDE DEF payloads
<1>3. PICK n \in Nat : DOMAIN payloads = 1..n /\ \A i \in 1..n : payloads[i] \in ChunksOf(d, s)
  BY <1>2 DEF PayloadsOK
<1>4. \A i \in 1..n : /\ scored[i].chunk = payloads[i]
                      /\ scored[i].score = Score(payloads[i].id, d, s)
                      /\ {"chunk", "score"} \subseteq DOMAIN scored[i]
  BY <1>3 DEF Score
<1>5. DOMAIN scored = 1..n /\ scored = [i \in 1..n |-> scored[i]]
  BY <1>3
<1> HIDE DEF scored
<1>6. scored \in Seq(ToSet(scored))
  BY <1>5, FunctionIsSeq
<1>7. \A h \in ToSet(scored) : h.score \in Int
  BY <1>4, <1>5, ScoreIsInt DEF ToSet
<1>8. IsInjective(scored)
  BY <1>2, <1>3, <1>4, <1>5 DEF IsInjective, PayloadsOK
<1>9. sorted = Sorting!Folded("fusion", <<>>, scored)
  BY SortsFold
<1>10. /\ sorted \in Seq(ToSet(scored)) /\ ToSet(sorted) = ToSet(scored)
       /\ IsInjective(sorted) /\ Falling(sorted)
  BY <1>6, <1>7, <1>8, <1>9, SortKeeps, SortInjective, SortFalls
<1> HIDE DEF sorted
<1>11. PICK m \in Nat : DOMAIN sorted = 1..m /\ \A i \in 1..m : sorted[i] \in ToSet(scored)
  BY <1>10
<1>12. \A h \in ToSet(scored) : /\ h.chunk \in ChunksOf(d, s)
                                /\ h.score = Score(h.chunk.id, d, s)
                                /\ {"chunk", "score"} \subseteq DOMAIN h
  BY <1>3, <1>4, <1>5 DEF ToSet
<1>13. \A h, g \in ToSet(scored) : h.chunk.id = g.chunk.id => h = g
  <2> SUFFICES ASSUME NEW h \in ToSet(scored), NEW g \in ToSet(scored), h.chunk.id = g.chunk.id
               PROVE  h = g
    OBVIOUS
  <2>1. PICK i \in 1..n, j \in 1..n : h = scored[i] /\ g = scored[j]
    BY <1>5 DEF ToSet
  <2>2. i = j
    BY <1>2, <1>3, <1>4, <2>1 DEF PayloadsOK
  <2> QED BY <2>1, <2>2
<1>14. \A i \in 1..m : fused[i].chunk = sorted[i].chunk /\ fused[i].score = sorted[i].score
  <2> SUFFICES ASSUME NEW i \in 1..m
               PROVE  fused[i].chunk = sorted[i].chunk /\ fused[i].score = sorted[i].score
    OBVIOUS
  <2>1. {"chunk", "score"} \subseteq DOMAIN sorted[i]
    BY <1>11, <1>12
  <2>2. fused[i] = Updated(sorted[i], [rank |-> i])
    BY <1>11
  <2> QED BY <2>1, <2>2 DEF Updated
<1>15. DOMAIN fused = 1..m /\ fused = [i \in 1..m |-> fused[i]]
  BY <1>11
<1> HIDE DEF fused
<1>16. fused \in Seq(ToSet(fused))
  BY <1>15, FunctionIsSeq
<1>17. \A i, j \in DOMAIN fused : fused[i].chunk.id = fused[j].chunk.id => i = j
  BY <1>10, <1>11, <1>13, <1>14, <1>15 DEF IsInjective
<1>18. {h.chunk.id : h \in ToSet(fused)} = {c.id : c \in ChunksOf(d, s)}
  <2>1. {h.chunk.id : h \in ToSet(fused)} = {sorted[i].chunk.id : i \in 1..m}
    BY <1>14, <1>15 DEF ToSet
  <2>2. {sorted[i].chunk.id : i \in 1..m} = {h.chunk.id : h \in ToSet(scored)}
    <3>1. {sorted[i].chunk.id : i \in 1..m} = {h.chunk.id : h \in ToSet(sorted)}
      BY <1>11 DEF ToSet
    <3> QED BY <1>10, <3>1
  <2>3. {h.chunk.id : h \in ToSet(scored)} = {payloads[i].id : i \in 1..n}
    BY <1>4, <1>5 DEF ToSet
  <2>4. {payloads[i].id : i \in 1..n} = {c.id : c \in ToSet(payloads)}
    BY <1>3 DEF ToSet
  <2> QED BY <1>2, <2>1, <2>2, <2>3, <2>4 DEF PayloadsOK
<1>19. \A i \in DOMAIN fused : /\ fused[i].chunk \in ChunksOf(d, s)
                               /\ fused[i].score = Score(fused[i].chunk.id, d, s)
  BY <1>11, <1>12, <1>14, <1>15
<1>20. Falling(fused)
  BY <1>10, <1>11, <1>14, <1>15 DEF Falling
<1> QED BY <1>1, <1>16, <1>17, <1>18, <1>19, <1>20 DEF FusedFollow

\* found holds the chunks of the first hits of fused, no more than limit.
FirstOfFused(found, fused, limit) ==
    /\ DOMAIN found = 1..Min({limit, Len(fused)})
    /\ \A i \in DOMAIN found : /\ i \in DOMAIN fused
                               /\ found[i].id = fused[i].chunk.id
                               /\ found[i].meta = fused[i].chunk.meta

\* Retrieved chunks keep the ids and the metadata of the first fused hits.
LEMMA RetrievedAre ==
    ASSUME NEW fused, fused \in Seq(ToSet(fused)), \A i \in DOMAIN fused : ChunkOK(fused[i].chunk),
           NEW limit \in Nat
    PROVE  FirstOfFused(Materialize(Take(fused, limit)), fused, limit)
<1> DEFINE hits == Take(fused, limit)
           found == Materialize(hits)
<1>1. /\ DOMAIN hits = 1..Min({limit, Len(fused)})
      /\ \A i \in DOMAIN hits : hits[i] = fused[i] /\ i \in DOMAIN fused
  <2>1. PICK m \in Nat : m = Min({limit, Len(fused)})
    BY TakeTakes
  <2>2. DOMAIN hits = 1..m /\ \A i \in 1..m : hits[i] = fused[i] /\ i \in 1..Len(fused)
    BY <2>1, TakeTakes
  <2>3. DOMAIN fused = 1..Len(fused)
    OBVIOUS
  <2> QED BY <2>1, <2>2, <2>3
<1> HIDE DEF hits
<1>2. DOMAIN found = DOMAIN hits
  BY DEF Materialize
<1>3. ASSUME NEW i \in DOMAIN hits
      PROVE  found[i].id = fused[i].chunk.id /\ found[i].meta = fused[i].chunk.meta
  <2>1. found[i] = Updated(fused[i].chunk, [score |-> hits[i].score, rank |-> hits[i].rank,
                                            dense |-> hits[i].dense, sparse |-> hits[i].sparse])
    BY <1>1 DEF Materialize
  <2>2. {"id", "meta"} \subseteq DOMAIN fused[i].chunk
    BY <1>1 DEF ChunkOK
  <2> HIDE DEF found
  <2> QED BY <2>1, <2>2 DEF Updated
<1>4. FirstOfFused(found, fused, limit)
  BY <1>1, <1>2, <1>3 DEF FirstOfFused
<1> QED BY <1>4 DEF hits

\* What fusion promises of the chunks it was made to return.
FollowsBranches(found, d, s, limit, filters) ==
    LET ids == [i \in DOMAIN found |-> found[i].id]
        hitIds == {h.chunk.id : h \in ToSet(d) \cup ToSet(s)}
        Above(x, y) ==
            /\ AsGood(RankOf(x, d), RankOf(y, d)) /\ AsGood(RankOf(x, s), RankOf(y, s))
            /\ RankOf(x, d) # RankOf(y, d) \/ RankOf(x, s) # RankOf(y, s)
    IN /\ IsInjective(ids)
       /\ Len(ids) = Min({limit, Cardinality(hitIds)})
       /\ \A i, j \in DOMAIN ids : i < j => ~Above(ids[j], ids[i])
       /\ \A id \in hitIds \ ToSet(ids), i \in DOMAIN ids : ~Above(id, ids[i])
       /\ \A c \in ToSet(found) : Satisfies(c, filters)

\* An id that both branches rank as well as another, and one of them better,
\* has the greater score.
LEMMA AboveScoresMore ==
    ASSUME NEW d, NEW s, HitsOK(d), HitsOK(s), NEW filters,
           HitsFollow(d, filters), HitsFollow(s, filters), DenseWeight > 0, SparseWeight > 0,
           NEW x, NEW y,
           AsGood(RankOf(x, d), RankOf(y, d)), AsGood(RankOf(x, s), RankOf(y, s)),
           RankOf(x, d) # RankOf(y, d) \/ RankOf(x, s) # RankOf(y, s)
    PROVE  ~(Score(y, d, s) >= Score(x, d, s))
<1>1. DenseWeight \in Nat \ {0} /\ SparseWeight \in Nat \ {0}
  BY RetrievalAssumption
<1>2. /\ Earned(x, d, DenseWeight) \in Nat /\ Earned(y, d, DenseWeight) \in Nat
      /\ Earned(x, d, DenseWeight) >= Earned(y, d, DenseWeight)
      /\ RankOf(x, d) # RankOf(y, d) => Earned(x, d, DenseWeight) > Earned(y, d, DenseWeight)
  BY <1>1, BetterEarns
<1>3. /\ Earned(x, s, SparseWeight) \in Nat /\ Earned(y, s, SparseWeight) \in Nat
      /\ Earned(x, s, SparseWeight) >= Earned(y, s, SparseWeight)
      /\ RankOf(x, s) # RankOf(y, s) => Earned(x, s, SparseWeight) > Earned(y, s, SparseWeight)
  BY <1>1, BetterEarns
<1> QED BY <1>2, <1>3 DEF Score

\* The chunks that are returned for the hits of two branches.
THEOREM FusionFollows ==
    ASSUME NEW d, NEW s, HitsOK(d), HitsOK(s), NEW filters,
           HitsFollow(d, filters), HitsFollow(s, filters), DenseWeight > 0, SparseWeight > 0,
           NEW limit \in Nat
    PROVE  FollowsBranches(Materialize(Take(Fuse(d, s), limit)), d, s, limit, filters)
<1> DEFINE fused == Fuse(d, s)
           found == Materialize(Take(fused, limit))
           ids == [i \in DOMAIN found |-> found[i].id]
           hitIds == {h.chunk.id : h \in ToSet(d) \cup ToSet(s)}
<1>1. FusedFollow(fused, d, s)
  BY FuseFollows
<1> HIDE DEF fused
<1>2. PICK n \in Nat : n = Len(fused) /\ DOMAIN fused = 1..n /\ fused \in Seq(ToSet(fused))
  BY <1>1 DEF FusedFollow
<1>3. \A c \in ChunksOf(d, s) : ChunkOK(c) /\ Satisfies(c, filters)
  BY DEF ChunksOf, ToSet, HitsFollow
<1>4. \A i \in 1..n : ChunkOK(fused[i].chunk) /\ Satisfies(fused[i].chunk, filters)
  BY <1>1, <1>2, <1>3 DEF FusedFollow
<1>5. PICK m \in Nat : m = Min({limit, n}) /\ m <= n
  BY MinOfTwo
<1>6. /\ DOMAIN found = 1..m
      /\ \A i \in 1..m : found[i].id = fused[i].chunk.id /\ found[i].meta = fused[i].chunk.meta
  <2>1. FirstOfFused(found, fused, limit)
    BY <1>2, <1>4, RetrievedAre
  <2> QED BY <1>2, <1>5, <2>1 DEF FirstOfFused
<1>7. DOMAIN ids = 1..m /\ Len(ids) = m /\ \A i \in 1..m : ids[i] = fused[i].chunk.id /\ i \in 1..n
  <2> HIDE DEF found
  <2>1. DOMAIN ids = 1..m /\ ids = [i \in 1..m |-> ids[i]]
    BY <1>6
  <2>2. \A i \in 1..m : ids[i] = fused[i].chunk.id
    BY <1>6
  <2> HIDE DEF ids
  <2>3. Len(ids) = m
    BY <2>1, FunctionIsSeq
  <2>4. \A i \in 1..m : i \in 1..n
    BY <1>5
  <2> QED BY <2>1, <2>2, <2>3, <2>4
<1>8. hitIds = {c.id : c \in ChunksOf(d, s)}
  BY DEF ChunksOf
<1>9. Cardinality(hitIds) = n
  <2> DEFINE all == [i \in 1..n |-> fused[i].chunk.id]
  <2>1. DOMAIN all = 1..n /\ all = [i \in 1..n |-> all[i]]
    OBVIOUS
  <2>2. IsInjective(all)
    BY <1>1, <1>2 DEF IsInjective, FusedFollow
  <2>3. ToSet(all) = {h.chunk.id : h \in ToSet(fused)}
    BY <1>2 DEF ToSet
  <2> HIDE DEF all
  <2>4. all \in Seq(ToSet(all)) /\ Len(all) = n
    BY <2>1, FunctionIsSeq
  <2>5. Cardinality(ToSet(all)) = n
    BY <2>2, <2>4, InjectiveCounts
  <2>6. ToSet(all) = hitIds
    BY <1>1, <1>8, <2>3 DEF FusedFollow
  <2> QED BY <2>5, <2>6
<1>10. \A i, j \in 1..n : i < j =>
            Score(fused[i].chunk.id, d, s) >= Score(fused[j].chunk.id, d, s)
  BY <1>1, <1>2 DEF FusedFollow, Falling
<1> HIDE DEF found, ids, hitIds
<1>11. IsInjective(ids)
  BY <1>1, <1>2, <1>7 DEF IsInjective, FusedFollow
<1>12. ASSUME NEW i \in DOMAIN ids, NEW j \in DOMAIN ids, i < j
       PROVE  Score(ids[i], d, s) >= Score(ids[j], d, s)
  BY <1>7, <1>10, <1>12
<1>13. ASSUME NEW id \in hitIds \ ToSet(ids), NEW i \in DOMAIN ids
       PROVE  Score(ids[i], d, s) >= Score(id, d, s)
  <2>1. PICK k \in 1..n : id = fused[k].chunk.id
    <3>1. id \in {h.chunk.id : h \in ToSet(fused)}
      BY <1>1, <1>8 DEF FusedFollow
    <3> QED BY <1>2, <3>1 DEF ToSet
  <2>2. ~(k \in 1..m)
    BY <1>7, <2>1 DEF ToSet
  <2>3. i < k /\ i \in 1..n
    BY <1>5, <1>7, <2>2
  <2> QED BY <1>7, <1>10, <2>1, <2>3
<1>14. ASSUME NEW x, NEW y, Score(y, d, s) >= Score(x, d, s)
       PROVE  ~(/\ AsGood(RankOf(x, d), RankOf(y, d)) /\ AsGood(RankOf(x, s), RankOf(y, s))
                /\ RankOf(x, d) # RankOf(y, d) \/ RankOf(x, s) # RankOf(y, s))
  BY <1>14, AboveScoresMore
<1>15. \A c \in ToSet(found) : Satisfies(c, filters)
  <2> SUFFICES ASSUME NEW i \in 1..m PROVE Satisfies(found[i], filters)
    BY <1>6 DEF ToSet
  <2>1. Satisfies(fused[i].chunk, filters) /\ found[i].meta = fused[i].chunk.meta
    BY <1>4, <1>6, <1>7
  <2>2. \A field : MetadataValue(found[i], field) = MetadataValue(fused[i].chunk, field)
    BY <2>1 DEF MetadataValue
  <2> QED BY <2>1, <2>2 DEF Satisfies
<1>16. Len(ids) = Min({limit, Cardinality(hitIds)})
  BY <1>5, <1>7, <1>9
<1>17. /\ \A i, j \in DOMAIN ids : i < j =>
            ~(/\ AsGood(RankOf(ids[j], d), RankOf(ids[i], d)) /\ AsGood(RankOf(ids[j], s), RankOf(ids[i], s))
              /\ RankOf(ids[j], d) # RankOf(ids[i], d) \/ RankOf(ids[j], s) # RankOf(ids[i], s))
       /\ \A id \in hitIds \ ToSet(ids), i \in DOMAIN ids :
            ~(/\ AsGood(RankOf(id, d), RankOf(ids[i], d)) /\ AsGood(RankOf(id, s), RankOf(ids[i], s))
              /\ RankOf(id, d) # RankOf(ids[i], d) \/ RankOf(id, s) # RankOf(ids[i], s))
  BY <1>12, <1>13, <1>14
<1> QED BY <1>11, <1>15, <1>16, <1>17 DEF FollowsBranches, found, ids, hitIds, fused

\* Reranked, they still are.
LEMMA RerankedOK ==
    ASSUME NEW S, NEW found \in Seq(S), NEW question, NEW limit \in Nat
    PROVE  ChunksOK(Rerank(found, question, limit), limit)
<1> DEFINE scored == [i \in DOMAIN found |->
                        [found[i] EXCEPT !.score = OverlapScore(found[i], question)]]
           best == Take(Sorted(scored, PromotedBefore), limit)
<1>1. Len(found) \in Nat /\ DOMAIN scored = 1..Len(found)
      /\ scored = [i \in 1..Len(found) |-> scored[i]]
  OBVIOUS
<1>2. Rerank(found, question, limit) = IF question = <<>> THEN <<>> ELSE best
  BY DEF Rerank
<1> HIDE DEF scored
<1>3. scored \in Seq(ToSet(scored))
  BY <1>1, FunctionIsSeq
<1>4. Sorted(scored, PromotedBefore) \in Seq(ToSet(scored))
  BY <1>3, SortKeeps, SortsFold, ZenonT(40)
<1>5. best \in Seq(ToSet(scored)) /\ Len(best) <= limit
  BY <1>4, TakeKeeps
<1> HIDE DEF best
<1>6. best \in Seq(ToSet(best)) /\ <<>> \in Seq(ToSet(<<>>)) /\ Len(<<>>) <= limit
  BY <1>5, SeqOfOwn
<1> QED BY <1>2, <1>5, <1>6 DEF ChunksOK

----------------------------------------------------------------------------
(* The context window *)

\* The numbered sources, one for each chunk.
LEMMA SourcesAreNumbered ==
    ASSUME NEW S, NEW found \in Seq(S)
    PROVE  /\ Sources(found) \in Seq(ToSet(Sources(found)))
           /\ DOMAIN Sources(found) = DOMAIN found
           /\ \A i \in DOMAIN found :
                /\ Sources(found)[i].chunk = found[i]
                /\ Sources(found)[i].citation.id = StartId + i - 1
                /\ Sources(found)[i].citation.doc = found[i].meta.doc_id
                /\ Sources(found)[i].citation.page = found[i].meta.page_start
<1> DEFINE numbered == Sources(found)
<1>1. DOMAIN found = 1..Len(found) /\ Len(found) \in Nat
  OBVIOUS
<1>2. DOMAIN numbered = 1..Len(found) /\ numbered = [i \in 1..Len(found) |-> numbered[i]]
  BY <1>1 DEF Sources
<1>3. \A i \in DOMAIN found : numbered[i].chunk = found[i] /\ numbered[i].citation = Citations(found)[i]
  BY DEF Sources
<1>4. \A i \in DOMAIN found :
        /\ Citations(found)[i].id = StartId + i - 1
        /\ Citations(found)[i].doc = found[i].meta.doc_id
        /\ Citations(found)[i].page = found[i].meta.page_start
  BY DEF Citations
<1> HIDE DEF numbered
<1>5. numbered \in Seq(ToSet(numbered))
  BY <1>1, <1>2, FunctionIsSeq
<1> QED BY <1>1, <1>2, <1>3, <1>4, <1>5 DEF numbered

\* Deduplication returns sources it was given.
LEMMA DeduplicateKeeps ==
    ASSUME NEW S, NEW sources \in Seq(S)
    PROVE  DeduplicateSources(sources) \in Seq(S)
<1>1. Deduplicating!Selects(0, S)
  BY DEF Deduplicating!Selects, DeduplicateTurn
<1>2. \A s \in Seq(S) : Deduplicating!Folded(0, <<>>, s) \in Seq(S)
  BY <1>1, Deduplicating!FoldSelects
<1>3. DeduplicateSources(sources) = Deduplicating!Folded(0, <<>>, sources)
  BY DEF DeduplicateSources, DeduplicateTurn, Deduplicating!Folded, FoldLeft, MapThenFoldSet,
         Max, Deduplicating!FoldLeft, Deduplicating!MapThenFoldSet, Deduplicating!Max
<1> QED BY <1>2, <1>3

\* RemoveAt, place by place.
LEMMA RemoveAtPlaces ==
    ASSUME NEW S, NEW a \in Seq(S), NEW k \in 1..Len(a)
    PROVE  /\ RemoveAt(a, k) \in Seq(S) /\ Len(RemoveAt(a, k)) = Len(a) - 1
           /\ \A i \in 1..(Len(a) - 1) : RemoveAt(a, k)[i] = IF i < k THEN a[i] ELSE a[i + 1]
<1> DEFINE front == SubSeq(a, 1, k - 1)
           back == SubSeq(a, k + 1, Len(a))
<1>1. Len(a) \in Nat /\ k \in Nat /\ k >= 1 /\ k <= Len(a)
  OBVIOUS
<1>2. front \in Seq(S) /\ Len(front) = k - 1 /\ \A i \in 1..(k - 1) : front[i] = a[i]
  BY <1>1, SubSeqProperties
<1>3. back \in Seq(S) /\ Len(back) = Len(a) - k /\ \A i \in 1..(Len(a) - k) : back[i] = a[k + i]
  <2> HIDE DEF back
  <2>1. k + 1 \in Int /\ Len(a) \in Int /\ \A i \in (k + 1)..Len(a) : a[i] \in S
    BY <1>1
  <2>2. /\ back \in Seq(S) /\ Len(back) = IF k + 1 <= Len(a) THEN Len(a) - (k + 1) + 1 ELSE 0
        /\ \A i \in 1..(Len(a) - (k + 1) + 1) : back[i] = a[(k + 1) + i - 1]
    BY ONLY <2>1, SubSeqProperties DEF back
  <2>3. ASSUME NEW i \in 1..(Len(a) - k) PROVE back[i] = a[k + i]
    <3>1. i \in 1..(Len(a) - (k + 1) + 1) /\ (k + 1) + i - 1 = k + i
      BY <1>1
    <3> QED BY <2>2, <3>1
  <2> QED BY <1>1, <2>2, <2>3
<1> HIDE DEF front, back
<1> DEFINE all == front \o back
<1>4. /\ all \in Seq(S) /\ Len(all) = Len(a) - 1
      /\ \A i \in 1..(Len(a) - 1) : all[i] = IF i <= k - 1 THEN front[i] ELSE back[i - (k - 1)]
  <2> HIDE DEF all
  <2>1. /\ all \in Seq(S) /\ Len(all) = Len(front) + Len(back)
        /\ \A i \in 1..(Len(front) + Len(back)) :
                all[i] = IF i <= Len(front) THEN front[i] ELSE back[i - Len(front)]
    BY <1>2, <1>3, ConcatProperties DEF all
  <2>2. Len(front) + Len(back) = Len(a) - 1
    BY <1>1, <1>2, <1>3
  <2> QED BY <1>2, <2>1, <2>2
<1>5. all = RemoveAt(a, k)
  BY DEF all, front, back, RemoveAt
<1> HIDE DEF all
<1>6. ASSUME NEW i \in 1..(Len(a) - 1)
      PROVE  all[i] = IF i < k THEN a[i] ELSE a[i + 1]
  <2>1. i \in Nat /\ (i < k \/ i >= k)
    BY <1>1
  <2>2. CASE i < k
    <3>1. i \in 1..(k - 1) /\ i <= k - 1
      BY <1>1, <2>1, <2>2
    <3> QED BY <1>2, <1>4, <2>2, <3>1
  <2>3. CASE i >= k
    <3>1. ~(i <= k - 1) /\ ~(i < k) /\ i - (k - 1) \in 1..(Len(a) - k) /\ k + (i - (k - 1)) = i + 1
      BY <1>1, <2>1, <2>3
    <3> QED BY <1>3, <1>4, <3>1
  <2> QED BY <2>1, <2>2, <2>3
<1> QED BY <1>4, <1>5, <1>6

\* RemoveFirst takes out one place that holds the element.
LEMMA RemoveFirstPlace ==
    ASSUME NEW S, NEW a \in Seq(S), NEW e \in ToSet(a)
    PROVE  \E k \in 1..Len(a) : a[k] = e /\ RemoveFirst(a, e) = RemoveAt(a, k)
<1> DEFINE places == {i \in 1..Len(a) : a[i] = e}
<1>1. places # {} /\ places \in SUBSET Nat /\ \E i \in 1..Len(a) : a[i] = e
  BY DEF ToSet
<1>2. RemoveFirst(a, e) = RemoveAt(a, Min(places))
  BY <1>1 DEF RemoveFirst, SelectInSeq
<1> HIDE DEF places
<1>3. Sorting!Min(places) \in places
  BY <1>1, Sorting!MinOf
<1>4. Min(places) = Sorting!Min(places)
  BY DEF Min, Sorting!Min
<1> QED BY <1>2, <1>3, <1>4 DEF places

\* A source that is not the only one for a word of the question can go without
\* that the words covered become fewer.
LEMMA RemovalCovers ==
    ASSUME NEW S, NEW kept \in Seq(S), NEW question, NEW e \in ToSet(kept),
           ~SoleSupport(e, question, kept)
    PROVE  ToSet(question) \cap WordsOf(kept) \subseteq WordsOf(RemoveFirst(kept, e))
<1>1. PICK k \in 1..Len(kept) : kept[k] = e /\ RemoveFirst(kept, e) = RemoveAt(kept, k)
  BY RemoveFirstPlace
<1> DEFINE left == RemoveAt(kept, k)
<1>2. /\ left \in Seq(S) /\ Len(left) = Len(kept) - 1
      /\ \A i \in 1..(Len(kept) - 1) : left[i] = IF i < k THEN kept[i] ELSE kept[i + 1]
  BY RemoveAtPlaces
<1> HIDE DEF left
<1>3. DOMAIN kept = 1..Len(kept) /\ Len(kept) \in Nat /\ DOMAIN left = 1..(Len(kept) - 1)
  BY <1>2
<1>4. ASSUME NEW j \in 1..Len(kept), j # k PROVE kept[j] \in ToSet(left)
  <2>1. CASE j < k
    <3>1. j \in 1..(Len(kept) - 1)
      BY <1>3, <2>1
    <3> QED BY <1>2, <1>3, <2>1, <3>1 DEF ToSet
  <2>2. CASE j > k
    <3>1. j - 1 \in 1..(Len(kept) - 1) /\ ~(j - 1 < k) /\ (j - 1) + 1 = j
      BY <1>3, <2>2
    <3> QED BY <1>2, <1>3, <3>1 DEF ToSet
  <2> QED BY <1>3, <1>4, <2>1, <2>2
<1>5. ASSUME NEW w \in ToSet(question), w \in WordsOf(kept) PROVE w \in WordsOf(left)
  <2>1. PICK j \in 1..Len(kept) : w \in ToSet(kept[j].chunk.text)
    BY <1>3, <1>5 DEF WordsOf, ToSet
  <2>2. \E j2 \in 1..Len(kept) : j2 # k /\ w \in ToSet(kept[j2].chunk.text)
    <3>1. CASE j # k
      BY <2>1, <3>1
    <3>2. CASE j = k
      <4> DEFINE places == {i \in DOMAIN kept : w \in ToSet(kept[i].chunk.text)}
      <4>1. w \in ToSet(question) \cap ToSet(e.chunk.text)
        BY <1>1, <2>1, <3>2
      <4>2. SupportCount(w, kept) # 1
        BY <4>1 DEF SoleSupport
      <4>3. places # {k}
        BY <4>2, FS_Singleton DEF SupportCount
      <4>4. k \in places
        BY <1>3, <2>1, <3>2
      <4> QED BY <1>3, <4>3, <4>4
    <3> QED BY <3>1, <3>2
  <2>3. PICK s \in ToSet(left) : w \in ToSet(s.chunk.text)
    BY <1>4, <2>2
  <2> QED BY <2>3 DEF WordsOf
<1> QED BY <1>1, <1>5 DEF left

\* The sources that may go are those which are not the only ones for a word.
LEMMA RemovableAre ==
    ASSUME NEW S, NEW kept \in Seq(S), NEW question
    PROVE  /\ Removable(question, kept) \in Seq(S)
           /\ ToSet(Removable(question, kept)) = {s \in ToSet(kept) : ~SoleSupport(s, question, kept)}
<1> DEFINE T == {s \in ToSet(kept) : ~SoleSupport(s, question, kept)}
           those == Among(kept, T)
<1>1. those \in Seq(S) /\ ToSet(those) = ToSet(kept) \cap T
  BY AmongKeeps
<1>2. Removable(question, kept) = Sorted(those, WeakerThan)
  BY DEF Removable, Those, those, T
<1>3. Removable(question, kept) \in Seq(S) /\ ToSet(Removable(question, kept)) = ToSet(those)
  <2>1. Removable(question, kept) = Sorting!Folded("removal", <<>>, those)
    BY <1>2, SortsFold
  <2> QED BY <1>1, <2>1, SortKeeps
<1>4. ToSet(kept) \subseteq S
  BY SeqOfOwn
<1> QED BY <1>1, <1>3, <1>4 DEF T

\* The loop is over: the budget is kept, or each source left is needed.
Finished(question, kept) ==
    ~(TokenTotal(kept) > MaxTokens) \/ Removable(question, kept) = <<>>

\* One turn: the loop is over and nothing changes, or one source goes, and the
\* words of the question stay covered.
LEMMA TurnKeepsCoverage ==
    ASSUME NEW S, NEW kept \in Seq(S), NEW question
    PROVE  \/ Finished(question, kept) /\ RemoveWeakest(question, kept) = kept
           \/ /\ RemoveWeakest(question, kept) \in Seq(S)
              /\ Len(RemoveWeakest(question, kept)) = Len(kept) - 1
              /\ ToSet(question) \cap WordsOf(kept)
                    \subseteq WordsOf(RemoveWeakest(question, kept))
<1>1. CASE Finished(question, kept)
  BY <1>1 DEF Finished, RemoveWeakest
<1>2. CASE ~Finished(question, kept)
  <2> DEFINE removable == Removable(question, kept)
             e == Head(removable)
  <2>1. RemoveWeakest(question, kept) = RemoveFirst(kept, e) /\ removable # <<>>
    BY <1>2 DEF Finished, RemoveWeakest
  <2>2. removable \in Seq(S)
        /\ ToSet(removable) = {s \in ToSet(kept) : ~SoleSupport(s, question, kept)}
    BY RemovableAre
  <2> HIDE DEF removable
  <2>3. e \in ToSet(removable)
    <3>1. e = removable[1] /\ 1 \in DOMAIN removable
      BY <2>1, <2>2
    <3> QED BY <3>1 DEF ToSet
  <2> HIDE DEF e
  <2>4. e \in ToSet(kept) /\ ~SoleSupport(e, question, kept)
    BY <2>2, <2>3
  <2>5. PICK k \in 1..Len(kept) : RemoveFirst(kept, e) = RemoveAt(kept, k)
    BY <2>4, RemoveFirstPlace
  <2>6. RemoveFirst(kept, e) \in Seq(S) /\ Len(RemoveFirst(kept, e)) = Len(kept) - 1
    BY <2>5, RemoveAtPlaces
  <2>7. ToSet(question) \cap WordsOf(kept) \subseteq WordsOf(RemoveFirst(kept, e))
    BY <2>4, RemovalCovers
  <2> QED BY <2>1, <2>6, <2>7
<1> QED BY <1>1, <1>2

\* Compression returns sources it was given, loses no word of the question that
\* they cover, and ends within a turn for each.
LEMMA CompressKeeps ==
    ASSUME NEW S, NEW ordered \in Seq(S), NEW question
    PROVE  /\ Compress(question, ordered) \in Seq(ToSet(ordered))
           /\ ToSet(question) \cap WordsOf(ordered) \subseteq WordsOf(Compress(question, ordered))
           /\ Finished(question, Compress(question, ordered))
<1> DEFINE T == ToSet(ordered)
           covered == ToSet(question) \cap WordsOf(ordered)
<1>1. PICK n \in Nat : n = Len(ordered) /\ DOMAIN ordered = 1..n
  OBVIOUS
<1>2. ordered \in Seq(T)
  BY SeqOfOwn
<1>3. covered \subseteq ToSet(question) /\ covered \subseteq WordsOf(ordered)
  OBVIOUS
<1> HIDE DEF T, covered
<1> DEFINE I == [k \in 0..n |->
                    {a \in Seq(T) : /\ covered \subseteq WordsOf(a)
                                    /\ Finished(question, a) \/ Len(a) = n - k}]
<1>4. ordered \in I[0]
  <2>1. 0 \in 0..n /\ Len(ordered) = n - 0
    BY <1>1
  <2> QED BY <1>2, <1>3, <2>1
<1>5. ASSUME NEW k \in 1..n, NEW a \in I[k - 1]
      PROVE  CompressTurn(question, a, ordered[k]) \in I[k]
  <2>1. k - 1 \in 0..n /\ k \in 0..n
    OBVIOUS
  <2>2. a \in Seq(T) /\ covered \subseteq WordsOf(a)
        /\ (Finished(question, a) \/ Len(a) = n - (k - 1))
    BY <2>1
  <2> DEFINE b == RemoveWeakest(question, a)
  <2>3. \/ Finished(question, a) /\ b = a
        \/ /\ b \in Seq(T) /\ Len(b) = Len(a) - 1
           /\ ToSet(question) \cap WordsOf(a) \subseteq WordsOf(b)
    BY <2>2, TurnKeepsCoverage
  <2>4. Finished(question, a) => b = a
    BY DEF Finished, RemoveWeakest
  <2> HIDE DEF b
  <2>5. b \in Seq(T) /\ covered \subseteq WordsOf(b)
    BY <1>3, <2>2, <2>3
  <2>6. Finished(question, b) \/ Len(b) = n - k
    <3>1. CASE Finished(question, a)
      BY <2>4, <3>1
    <3>2. CASE ~Finished(question, a)
      <4>1. Len(b) = Len(a) - 1 /\ Len(a) = n - (k - 1)
        BY <2>2, <2>3, <3>2
      <4> QED BY <4>1
    <3> QED BY <3>1, <3>2
  <2> QED BY <2>1, <2>5, <2>6 DEF CompressTurn, b
<1>6. ASSUME NEW a \in I[n]
      PROVE  a \in Seq(T) /\ covered \subseteq WordsOf(a) /\ Finished(question, a)
  <2>1. a \in Seq(T) /\ covered \subseteq WordsOf(a) /\ (Finished(question, a) \/ Len(a) = n - n)
    OBVIOUS
  <2>2. ASSUME Len(a) = n - n PROVE Finished(question, a)
    <3>1. a = <<>> /\ ToSet(a) = {}
      BY <2>1, <2>2 DEF ToSet
    <3>2. Removable(question, a) \in Seq(T) /\ ToSet(Removable(question, a)) = {}
      BY <2>1, <3>1, RemovableAre
    <3>3. Removable(question, a) = <<>>
      <4> DEFINE r == Removable(question, a)
      <4>1. r \in Seq(T) /\ ToSet(r) = {}
        BY <3>2
      <4> HIDE DEF r
      <4>2. ~(1 \in DOMAIN r)
        BY <4>1 DEF ToSet
      <4>3. r = <<>>
        BY <4>1, <4>2
      <4> QED BY <4>3 DEF r
    <3> QED BY <3>3 DEF Finished
  <2> QED BY <2>1, <2>2
<1> HIDE DEF I
<1>7. Compressing!Inductive(I, question, ordered, ordered, n)
  BY <1>1, <1>4, <1>5 DEF Compressing!Inductive
<1>8. Compressing!Folded(question, ordered, ordered) \in I[n]
  BY <1>7, Compressing!FoldInduction
<1>9. Compress(question, ordered) = Compressing!Folded(question, ordered, ordered)
  BY DEF Compress, CompressTurn, Compressing!Folded, FoldLeft, MapThenFoldSet, Max,
         Compressing!FoldLeft, Compressing!MapThenFoldSet, Compressing!Max
<1> QED BY <1>6, <1>8, <1>9 DEF T, covered

\* A source that is the only one for some word.
SoleForAWord(s, words, sources) ==
    \E w \in words : {t \in ToSet(sources) : w \in ToSet(t.chunk.text)} = {s}

\* The window: sources of the chunks, every word of the question that the
\* deduplicated sources cover, and over the budget only sources that are needed.
WindowOK(built, question, found) ==
    /\ ToSet(built.sources) \subseteq ToSet(Sources(found))
    /\ ToSet(question) \cap WordsOf(DeduplicateSources(Sources(found))) \subseteq WordsOf(built.sources)
    /\ built.tokens > MaxTokens =>
            \A s \in ToSet(built.sources) : SoleForAWord(s, ToSet(question), built.sources)

\* The context builder builds such a window from any chunks.
THEOREM BuildWindowOK ==
    ASSUME NEW S, NEW found \in Seq(S), NEW question
    PROVE  WindowOK(BuildWindow(question, found), question, found)
<1> DEFINE all == Sources(found)
           before == DeduplicateSources(all)
           ordered == OrderSources(before)
           kept == Compress(question, ordered)
<1>1. all \in Seq(ToSet(all))
  BY SourcesAreNumbered
<1> HIDE DEF all
<1>2. before \in Seq(ToSet(all))
  BY <1>1, DeduplicateKeeps
<1> HIDE DEF before
<1>3. ordered \in Seq(ToSet(all)) /\ ToSet(ordered) = ToSet(before)
  <2>1. ordered = Sorting!Folded("window", <<>>, before)
    BY SortsFold
  <2> QED BY <1>2, <2>1, SortKeeps
<1> HIDE DEF ordered
<1>4. /\ kept \in Seq(ToSet(ordered))
      /\ ToSet(question) \cap WordsOf(ordered) \subseteq WordsOf(kept)
      /\ Finished(question, kept)
  BY <1>3, CompressKeeps
<1> HIDE DEF kept
<1>5. ToSet(before) \subseteq ToSet(all) /\ ToSet(kept) \subseteq ToSet(ordered)
  BY <1>2, <1>4, SeqOfOwn
<1>6. WordsOf(ordered) = WordsOf(before)
  BY <1>3 DEF WordsOf
<1>7. ASSUME TokenTotal(kept) > MaxTokens, NEW s \in ToSet(kept)
      PROVE  SoleForAWord(s, ToSet(question), kept)
  <2>1. ToSet(Removable(question, kept)) = {}
    BY <1>4, <1>7 DEF Finished, ToSet
  <2>2. SoleSupport(s, question, kept)
    BY <1>4, <2>1, RemovableAre
  <2>3. PICK w \in ToSet(question) : w \in ToSet(s.chunk.text) /\ SupportCount(w, kept) = 1
    BY <2>2 DEF SoleSupport
  <2> DEFINE places == {i \in DOMAIN kept : w \in ToSet(kept[i].chunk.text)}
  <2>4. DOMAIN kept = 1..Len(kept) /\ Len(kept) \in Nat
    BY <1>4
  <2>5. IsFiniteSet(places)
    <3>1. PICK n \in Nat : n = Len(kept)
      BY <2>4
    <3>2. 1 \in Int /\ n \in Int
      OBVIOUS
    <3>3. IsFiniteSet(1..n)
      BY ONLY <3>2, FS_Interval
    <3>4. places \subseteq 1..n
      BY <2>4, <3>1
    <3> HIDE DEF places
    <3> QED BY <3>3, <3>4, FS_Subset
  <2>6. PICK i : places = {i}
    <3>1. Cardinality(places) = 1
      BY <2>3 DEF SupportCount
    <3> HIDE DEF places
    <3> QED BY <2>5, <3>1, FS_Singleton
  <2>7. \A t \in ToSet(kept) : w \in ToSet(t.chunk.text) => t = kept[i]
    BY <2>6 DEF ToSet
  <2>8. {t \in ToSet(kept) : w \in ToSet(t.chunk.text)} = {s}
    BY <2>3, <2>7
  <2> QED BY <2>3, <2>8 DEF SoleForAWord
<1>8. BuildWindow(question, found) = FormatWindow(question, kept)
  BY DEF BuildWindow, kept, ordered, before, all
<1>9. FormatWindow(question, kept).sources = kept /\ FormatWindow(question, kept).tokens = TokenTotal(kept)
  BY DEF FormatWindow
<1>10. /\ ToSet(kept) \subseteq ToSet(all)
       /\ ToSet(question) \cap WordsOf(before) \subseteq WordsOf(kept)
  BY <1>3, <1>4, <1>5, <1>6
<1> HIDE DEF SoleForAWord
<1> QED BY <1>7, <1>8, <1>9, <1>10 DEF WindowOK, before, all

----------------------------------------------------------------------------
(* The call *)

\* The stores hold finitely many chunks, one for an id.
StoresInv ==
    /\ IsFiniteSet(dense) /\ IsFiniteSet(sparse)
    /\ Keyed(dense) /\ Keyed(sparse)
    /\ \A c \in dense \cup sparse \cup ToSet(update) : ChunkOK(c)
    /\ update \in Seq(ToSet(update)) /\ written \in 0..4

\* A branch runs, failed without a hit or has its hits.
BranchInv(branch, filters) ==
    /\ branch.state \in {"runs", "done"} \cup Errors
    /\ branch.state = "runs" => branch = Running
    /\ HitsOK(branch.hits) /\ HitsFollow(branch.hits, filters)

\* What each label of the call says of chunks, window and response: the chunks
\* retrieved are the first that were fused, the window is the one built from the
\* chunks that are there, and a full response was made of the two.
CallInv ==
    /\ generator \in BOOLEAN /\ request \in Requests /\ pc \in Labels
    /\ BranchInv(denseBranch, request.filters) /\ BranchInv(sparseBranch, request.filters)
    /\ ChunksOK(chunks, request.topK)
    /\ pc = "retrieved" =>
        chunks = Materialize(Take(Fuse(denseBranch.hits, sparseBranch.hits), request.topK))
    /\ window = NoWindow \/ window = BuildWindow(request.question, chunks)
    /\ pc \in {"called", "searching", "retrieved", "reranked"} => window = NoWindow
    /\ pc = "built" => window = BuildWindow(request.question, chunks)
    /\ pc # "returned" => response = Outcome("none")
    /\ response.status \in {"none", "unavailable", "answered"} \cup Errors
    /\ response.status = "answered" =>
        /\ response.retrieved = [i \in DOMAIN chunks |-> chunks[i].id]
        /\ response.validation = Validate(response.answer, window)

QueryInv == StoresInv /\ CallInv

\* No hits, and no chunks, are fine.
LEMMA EmptyOK ==
    /\ HitsOK(<<>>) /\ \A filters : HitsFollow(<<>>, filters)
    /\ \A limit \in Nat : ChunksOK(<<>>, limit)
<1>1. <<>> \in Seq(ToSet(<<>>)) /\ Len(<<>>) = 0 /\ DOMAIN <<>> = {}
  OBVIOUS
<1> QED BY <1>1, LimitIsNat DEF HitsOK, HitsFollow, ChunksOK

\* A request asks for a number of chunks.
LEMMA TopKIsNat == CallInv => request.topK \in Nat
  BY QueryAssumption DEF CallInv

\* At the call.
LEMMA QueryInvInit == Init => QueryInv
<1> SUFFICES ASSUME Init PROVE QueryInv
  OBVIOUS
<1>1. StoresInv
  <2>1. dense \in Corpora /\ sparse = dense /\ update \in Updates /\ written = 0
    BY DEF Init
  <2>2. IsFiniteSet(dense) /\ Keyed(dense) /\ update \in Seq(ToSet(update))
    BY <2>1, QueryAssumption DEF Keyed
  <2>3. \A c \in dense : ChunkOK(c)
    BY <2>1, QueryAssumption DEF ChunkOK
  <2>4. \A c \in ToSet(update) : ChunkOK(c)
    <3>1. ToSet(update) \in {ToSet(new) : new \in Updates}
      BY <2>1
    <3> QED BY <3>1, QueryAssumption DEF ChunkOK
  <2> QED BY <2>1, <2>2, <2>3, <2>4 DEF StoresInv
<1>2. request.topK \in Nat
  BY QueryAssumption DEF Init
<1>3. BranchInv(denseBranch, request.filters) /\ BranchInv(sparseBranch, request.filters)
  BY EmptyOK DEF Init, BranchInv, Running
<1>4. ChunksOK(chunks, request.topK)
  BY <1>2, EmptyOK DEF Init
<1>5. response.status = "none"
  BY DEF Init, Outcome
<1> QED BY <1>1, <1>3, <1>4, <1>5 DEF Init, QueryInv, CallInv, Labels

\* A sequence has finitely many elements.
LEMMA ToSetIsFinite ==
    ASSUME NEW S, NEW s \in Seq(S)
    PROVE  IsFiniteSet(ToSet(s))
<1>1. PICK n \in Nat : n = Len(s) /\ DOMAIN s = 1..n
  OBVIOUS
<1>2. 1 \in Int /\ n \in Int
  OBVIOUS
<1>3. IsFiniteSet(1..n)
  BY ONLY <1>2, FS_Interval
<1>4. s \in Surjection(1..n, ToSet(s))
  BY <1>1 DEF ToSet, Surjection
<1> QED BY <1>3, <1>4, FS_Surjection

\* What is stored of chunks that are indexed: the last of each id.
LEMMA LastOfEachKeyed ==
    ASSUME NEW new, new \in Seq(ToSet(new))
    PROVE  /\ LastOfEach(new) \subseteq ToSet(new)
           /\ IsFiniteSet(LastOfEach(new)) /\ Keyed(LastOfEach(new))
<1>1. PICK n \in Nat : n = Len(new) /\ DOMAIN new = 1..n
  OBVIOUS
<1>2. LastOfEach(new) \subseteq ToSet(new)
  BY DEF LastOfEach, ToSet
<1>3. ASSUME NEW c \in LastOfEach(new), NEW d \in LastOfEach(new), c.id = d.id PROVE c = d
  <2>1. PICK i \in 1..n : c = new[i] /\ \A k \in 1..n : new[k].id = new[i].id => k <= i
    BY <1>1 DEF LastOfEach
  <2>2. PICK j \in 1..n : d = new[j] /\ \A k \in 1..n : new[k].id = new[j].id => k <= j
    BY <1>1 DEF LastOfEach
  <2>3. i <= j /\ j <= i
    BY <1>3, <2>1, <2>2
  <2> QED BY <2>1, <2>2, <2>3
<1>4. IsFiniteSet(LastOfEach(new))
  BY <1>2, ToSetIsFinite, FS_Subset
<1> QED BY <1>2, <1>3, <1>4 DEF Keyed

\* A store that is written to keeps one chunk for an id.
LEMMA UpsertKeys ==
    ASSUME NEW store, IsFiniteSet(store), Keyed(store), NEW new, new \in Seq(ToSet(new)),
           \A c \in store \cup ToSet(new) : ChunkOK(c)
    PROVE  LET after == Upsert(store, new) IN
           IsFiniteSet(after) /\ Keyed(after) /\ \A c \in after : ChunkOK(c)
<1> DEFINE rest == {c \in store : c.id \notin IdsIn(new)}
<1>1. IsFiniteSet(rest)
  BY FS_Subset
<1>2. /\ LastOfEach(new) \subseteq ToSet(new)
      /\ IsFiniteSet(LastOfEach(new)) /\ Keyed(LastOfEach(new))
  BY LastOfEachKeyed
<1>3. Upsert(store, new) = rest \cup LastOfEach(new)
  BY DEF Upsert
<1>4. \A c \in rest : c \in store /\ \A d \in LastOfEach(new) : c.id # d.id
  BY <1>2 DEF IdsIn
<1> HIDE DEF rest
<1>5. IsFiniteSet(rest \cup LastOfEach(new))
  BY <1>1, <1>2, FS_Union
<1>6. Keyed(rest \cup LastOfEach(new))
  BY <1>2, <1>4 DEF Keyed
<1> QED BY <1>2, <1>3, <1>4, <1>5, <1>6

\* The writer leaves finitely many chunks in the stores, one for an id.
LEMMA StoresInvStep == StoresInv /\ [Next]_vars => StoresInv'
<1> SUFFICES ASSUME StoresInv, [Next]_vars PROVE StoresInv'
  OBVIOUS
<1> DEFINE Good(store) == IsFiniteSet(store) /\ Keyed(store) /\ \A c \in store : ChunkOK(c)
<1>1. CASE Write
  <2>1. Good(dense) /\ Good(sparse)
    BY DEF StoresInv
  <2>2. Good(Upsert(dense, update)) /\ Good(Upsert(sparse, update))
    BY UpsertKeys DEF StoresInv
  <2>3. Good({c \in dense : OfDocument(c) => c.id \in IdsIn(update)})
    BY <2>1, FS_Subset DEF Keyed
  <2>4. Good({c \in sparse : ~OfDocument(c)})
    BY <2>1, FS_Subset DEF Keyed
  <2>5. Good(dense')
    <3> HIDE DEF Good
    <3> QED BY <1>1, <2>1, <2>2, <2>3 DEF Write
  <2>6. Good(sparse')
    <3> HIDE DEF Good
    <3> QED BY <1>1, <2>1, <2>2, <2>4 DEF Write
  <2>7. update' = update /\ written' \in 0..4
    BY <1>1 DEF StoresInv, Write
  <2> QED BY <2>5, <2>6, <2>7 DEF StoresInv, Keyed
<1>2. CASE ~Write
  <2>1. UNCHANGED stores
    BY <1>2 DEF Next, EnsureReady, SearchDense, SearchSparse, FuseBranches, RerankChunks,
                BuildContext, Generate, Rest, vars, stores
  <2> QED BY <2>1 DEF StoresInv, stores, Keyed
<1> QED BY <1>1, <1>2

\* A branch ends without a hit, or with the hits of what its store holds.
LEMMA SearchDenseStep == StoresInv /\ CallInv /\ SearchDense => BranchInv(denseBranch', request.filters)
<1> SUFFICES ASSUME StoresInv, CallInv, SearchDense PROVE BranchInv(denseBranch', request.filters)
  OBVIOUS
<1>1. CASE denseBranch' \in WithoutSearch("dense")
  <2>1. denseBranch'.state \in {"done"} \cup Errors /\ denseBranch'.hits = <<>>
    BY <1>1 DEF WithoutSearch, Found, Failed, Errors
  <2> QED BY <2>1, EmptyOK DEF BranchInv, Errors
<1>2. CASE \E found \in Searches(dense, BackendFilters(request.filters), Limit) :
                denseBranch' = Found(DenseHits(found, request.filters))
  <2>1. PICK found \in Searches(dense, BackendFilters(request.filters), Limit) :
                denseBranch' = Found(DenseHits(found, request.filters))
    BY <1>2
  <2>2. found \in Seq(dense)
    BY LimitIsNat, SearchesFind DEF StoresInv
  <2>3. HitsOK(DenseHits(found, request.filters))
    BY <2>2, DenseHitsOK
  <2>4. /\ IsInjective(found)
        /\ \A c \in ToSet(found) : MatchesBackend(c, BackendFilters(request.filters))
    BY <2>1, LimitIsNat, SearchesMatch DEF StoresInv
  <2>5. request.filters \in Seq(ToSet(request.filters))
    BY QueryAssumption DEF CallInv
  <2>6. HitsFollow(DenseHits(found, request.filters), request.filters)
    BY <2>2, <2>4, <2>5, DenseHitsFollow DEF StoresInv
  <2> QED BY <2>1, <2>3, <2>6 DEF BranchInv, Found
<1> QED BY <1>1, <1>2 DEF SearchDense

\* The same of the sparse one.
LEMMA SearchSparseStep == StoresInv /\ CallInv /\ SearchSparse => BranchInv(sparseBranch', request.filters)
<1> SUFFICES ASSUME StoresInv, CallInv, SearchSparse PROVE BranchInv(sparseBranch', request.filters)
  OBVIOUS
<1>1. CASE sparseBranch' \in WithoutSearch("sparse")
  <2>1. sparseBranch'.state \in {"done"} \cup Errors /\ sparseBranch'.hits = <<>>
    BY <1>1 DEF WithoutSearch, Found, Failed, Errors
  <2> QED BY <2>1, EmptyOK DEF BranchInv, Errors
<1>2. CASE \E found \in TextSearches(sparse, BackendFilters(request.filters), Limit,
                                      request.question) :
                sparseBranch' = Found(SparseHits(found, request.filters))
  <2>1. PICK found \in TextSearches(sparse, BackendFilters(request.filters), Limit,
                                    request.question) :
                sparseBranch' = Found(SparseHits(found, request.filters))
    BY <1>2
  <2>2. found \in Seq(sparse)
    BY LimitIsNat, TextSearchesFind DEF StoresInv
  <2>3. HitsOK(SparseHits(found, request.filters))
    BY <2>2, SparseHitsOK
  <2>4. /\ IsInjective(found)
        /\ \A c \in ToSet(found) : MatchesBackend(c, BackendFilters(request.filters))
    BY <2>1, LimitIsNat, TextSearchesMatch DEF StoresInv
  <2>5. request.filters \in Seq(ToSet(request.filters))
    BY QueryAssumption DEF CallInv
  <2>6. HitsFollow(SparseHits(found, request.filters), request.filters)
    BY <2>2, <2>4, <2>5, SparseHitsFollow DEF StoresInv
  <2> QED BY <2>1, <2>3, <2>6 DEF BranchInv, Found
<1> QED BY <1>1, <1>2 DEF SearchSparse

\* Every step of the call keeps what its labels say.
LEMMA CallInvStep == StoresInv /\ CallInv /\ [Next]_vars => CallInv'
<1> SUFFICES ASSUME StoresInv, CallInv, [Next]_vars PROVE CallInv'
  OBVIOUS
<1> USE DEF Labels, Errors, Outcome
<1>1. request.topK \in Nat
  BY TopKIsNat
<1>2. chunks \in Seq(ToSet(chunks))
  BY DEF CallInv, ChunksOK
<1>3. CASE EnsureReady
  BY <1>3 DEF EnsureReady, CallInv, Return, call, stores
<1>4. CASE SearchDense
  <2>1. BranchInv(denseBranch', request.filters)
    BY <1>4, SearchDenseStep
  <2> QED BY <1>4, <2>1 DEF SearchDense, Searching, CallInv, call, stores
<1>5. CASE SearchSparse
  <2>1. BranchInv(sparseBranch', request.filters)
    BY <1>5, SearchSparseStep
  <2> QED BY <1>5, <2>1 DEF SearchSparse, Searching, CallInv, call, stores
<1>6. CASE FuseBranches
  <2>1. /\ pc = "searching" /\ UNCHANGED <<generator, request, denseBranch, sparseBranch, window>>
        /\ window = NoWindow
    BY <1>6 DEF FuseBranches, CallInv, call, stores
  <2>2. CASE denseBranch.state # "done" \/ sparseBranch.state # "done"
    <3>1. denseBranch.state \in {"done"} \cup Errors /\ sparseBranch.state \in {"done"} \cup Errors
      BY <1>6 DEF FuseBranches, CallInv, BranchInv
    <3>2. pc' = "returned" /\ chunks' = chunks
      BY <1>6, <2>2 DEF FuseBranches, Return
    <3>3. \/ denseBranch.state # "done" /\ response' = Outcome(denseBranch.state)
          \/ sparseBranch.state # "done" /\ response' = Outcome(sparseBranch.state)
      BY <1>6, <2>2 DEF FuseBranches, Return
    <3>4. response'.status \in Errors
      BY <3>1, <3>3
    <3> QED BY <2>1, <3>2, <3>4 DEF CallInv
  <2>3. CASE ~(denseBranch.state # "done" \/ sparseBranch.state # "done")
    <3>1. /\ chunks' = Materialize(Take(Fuse(denseBranch.hits, sparseBranch.hits), request.topK))
          /\ pc' = "retrieved" /\ response' = response
      BY <1>6, <2>3 DEF FuseBranches
    <3>2. ChunksOK(chunks', request.topK)
      BY <1>1, <3>1, FusedOK DEF CallInv, BranchInv
    <3> QED BY <2>1, <3>1, <3>2 DEF CallInv
  <2> QED BY <2>2, <2>3
<1>7. CASE RerankChunks
  <2>1. /\ pc = "retrieved" /\ pc' = "reranked"
        /\ chunks' = Rerank(chunks, request.question, request.topK)
        /\ UNCHANGED <<generator, request, denseBranch, sparseBranch, window, response>>
    BY <1>7 DEF RerankChunks, call, stores
  <2>2. ChunksOK(chunks', request.topK)
    BY <1>1, <1>2, <2>1, RerankedOK
  <2> QED BY <2>1, <2>2 DEF CallInv
<1>8. CASE BuildContext
  <2>1. /\ pc \in {"retrieved", "reranked"}
        /\ UNCHANGED <<generator, request, denseBranch, sparseBranch, chunks>>
    BY <1>8 DEF BuildContext, call, stores
  <2>2. \/ /\ pc' = "returned" /\ response' = Outcome("value_error") /\ window' = window
        \/ /\ pc' = "built" /\ response' = response
           /\ window' = BuildWindow(request.question, chunks)
    BY <1>8 DEF BuildContext, Return
  <2> QED BY <2>1, <2>2 DEF CallInv
<1>9. CASE Generate
  <2>1. /\ pc = "built" /\ pc' = "returned"
        /\ UNCHANGED <<generator, request, denseBranch, sparseBranch, chunks, window>>
    BY <1>9 DEF Generate, Return, call, stores
  <2>2. \/ response' = Outcome("failure") \/ response' = Outcome("value_error")
        \/ \E answer \in Answers : response' = Respond(answer)
    BY <1>9 DEF Generate, Return
  <2>3. CASE response' = Outcome("failure") \/ response' = Outcome("value_error")
    BY <2>1, <2>3 DEF CallInv
  <2>4. CASE \E answer \in Answers : response' = Respond(answer)
    <3>1. PICK answer \in Answers : response' = Respond(answer)
      BY <2>4
    <3>2. /\ response'.status = "answered" /\ response'.answer = answer
          /\ response'.retrieved = [i \in DOMAIN chunks |-> chunks[i].id]
          /\ response'.validation = Validate(answer, window)
      BY <3>1 DEF Respond
    <3> QED BY <2>1, <3>2 DEF CallInv
  <2> QED BY <2>2, <2>3, <2>4
<1>10. CASE Write \/ Rest \/ UNCHANGED vars
  <2>1. UNCHANGED <<call, pc, denseBranch, sparseBranch, chunks, window, response>>
    BY <1>10 DEF Write, Rest, vars
  <2> QED BY <2>1 DEF CallInv, call
<1> QED BY <1>3, <1>4, <1>5, <1>6, <1>7, <1>8, <1>9, <1>10 DEF Next

\* In every reachable state.
THEOREM QueryInvariant == Spec => []QueryInv
<1>1. QueryInv /\ [Next]_vars => QueryInv'
  BY StoresInvStep, CallInvStep DEF QueryInv
<1> QED BY <1>1, QueryInvInit, PTL DEF Spec

----------------------------------------------------------------------------
(* What follows of it *)

\* Every variable of the call has its type, for any corpora and requests: no
\* branch hands over more than prefetch_k hits, retrieval returns no more than
\* top_k chunks, and the window holds none but their sources.
THEOREM QueryTypes == Spec => []TypeOK
<1>1. QueryInv => TypeOK
  <2> SUFFICES ASSUME QueryInv PROVE TypeOK
    OBVIOUS
  <2>1. BranchOK(denseBranch) /\ BranchOK(sparseBranch)
    BY DEF QueryInv, CallInv, BranchInv, HitsOK, BranchOK
  <2>2. chunks \in Seq(ToSet(chunks)) /\ Len(chunks) <= request.topK
    BY DEF QueryInv, CallInv, ChunksOK
  <2>3. ToSet(window.sources) \subseteq ToSet(Sources(chunks))
    <3>1. CASE window = NoWindow
      BY <3>1 DEF NoWindow, FormatWindow, ToSet
    <3>2. CASE window = BuildWindow(request.question, chunks)
      BY <2>2, <3>2, BuildWindowOK DEF WindowOK
    <3> QED BY <3>1, <3>2 DEF QueryInv, CallInv
  <2> QED BY <2>1, <2>2, <2>3 DEF QueryInv, StoresInv, CallInv, TypeOK
<1> QED BY <1>1, QueryInvariant, PTL

\* An answer that passes validation can be traced, number by number, from the
\* response to the chunks that were retrieved, whatever retrieval returned, the
\* context builder dropped and the model wrote.
THEOREM AnswersTraceable == Spec => []ValidAnswersTraceable
<1>1. QueryInv => ValidAnswersTraceable
  <2> SUFFICES ASSUME QueryInv, response.status = "answered", response.validation.valid,
                      NEW n \in ToSet(References(response.answer))
               PROVE  \E s \in ToSet(window.sources) :
                        /\ s.citation.id = n
                        /\ s.chunk.id = response.retrieved[n - StartId + 1]
                        /\ s.citation.doc = s.chunk.meta.doc_id
                        /\ s.citation.page = s.chunk.meta.page_start
                        /\ \A t \in ToSet(window.sources) \ {s} : t.citation.id # n
    BY DEF ValidAnswersTraceable
  <2>1. /\ response.retrieved = [i \in DOMAIN chunks |-> chunks[i].id]
        /\ response.validation = Validate(response.answer, window)
        /\ chunks \in Seq(ToSet(chunks))
    BY DEF QueryInv, CallInv, ChunksOK
  <2>2. InvalidIds(response.answer, window) = {}
    <3>1. Validate(response.answer, window).valid
            = (InvalidIds(response.answer, window) = {} /\ ~response.answer.private)
      BY DEF Validate
    <3>2. Validate(response.answer, window).valid
      BY <2>1, Zenon
    <3> QED BY <3>1, <3>2, Zenon
  <2>3. PICK s \in ToSet(window.sources) : s.citation.id = n
    BY <2>2 DEF InvalidIds, CitationIds
  <2>4. ToSet(window.sources) \subseteq ToSet(Sources(chunks))
    <3>1. CASE window = NoWindow
      BY <3>1 DEF NoWindow, FormatWindow, ToSet
    <3>2. CASE window = BuildWindow(request.question, chunks)
      BY <2>1, <3>2, BuildWindowOK DEF WindowOK
    <3> QED BY <3>1, <3>2 DEF QueryInv, CallInv
  <2>5. ASSUME NEW t \in ToSet(window.sources)
        PROVE  \E i \in 1..Len(chunks) :
                /\ t = Sources(chunks)[i] /\ t.chunk = chunks[i]
                /\ t.citation.id = StartId + i - 1
                /\ t.citation.doc = chunks[i].meta.doc_id
                /\ t.citation.page = chunks[i].meta.page_start
    <3>1. DOMAIN chunks = 1..Len(chunks) /\ DOMAIN Sources(chunks) = 1..Len(chunks)
      BY <2>1, SourcesAreNumbered
    <3>2. PICK i \in 1..Len(chunks) : t = Sources(chunks)[i]
      BY <2>4, <3>1 DEF ToSet
    <3>3. /\ Sources(chunks)[i].chunk = chunks[i]
          /\ Sources(chunks)[i].citation.id = StartId + i - 1
          /\ Sources(chunks)[i].citation.doc = chunks[i].meta.doc_id
          /\ Sources(chunks)[i].citation.page = chunks[i].meta.page_start
      BY <2>1, <3>1, SourcesAreNumbered
    <3> QED BY <3>2, <3>3
  <2>6. PICK i \in 1..Len(chunks) :
            /\ s = Sources(chunks)[i] /\ s.chunk = chunks[i]
            /\ s.citation.id = StartId + i - 1
            /\ s.citation.doc = chunks[i].meta.doc_id
            /\ s.citation.page = chunks[i].meta.page_start
    BY <2>5
  <2>7. StartId \in Nat /\ Len(chunks) \in Nat /\ DOMAIN chunks = 1..Len(chunks)
    BY <2>1, ContextAssumption
  <2>8. n - StartId + 1 = i
    BY <2>3, <2>6, <2>7
  <2>9. s.chunk.id = response.retrieved[n - StartId + 1]
    BY <2>1, <2>6, <2>7, <2>8
  <2>10. ASSUME NEW t \in ToSet(window.sources), t.citation.id = n PROVE t = s
    <3>1. PICK j \in 1..Len(chunks) : t = Sources(chunks)[j] /\ t.citation.id = StartId + j - 1
      BY <2>5
    <3>2. j = i
      BY <2>3, <2>6, <2>7, <2>10, <3>1
    <3> QED BY <2>6, <3>1, <3>2
  <2> QED BY <2>3, <2>6, <2>9, <2>10
<1> QED BY <1>1, QueryInvariant, PTL

\* Fusion follows its branches, for any corpora, filters, weights, limits and
\* rankings, and whatever the writer does between the readings of the two stores:
\* no id occurs twice, no chunk comes before or instead of one that both branches
\* rank at least as well and one better, and each satisfies the filters in force.
THEOREM FusionCorrect == Spec => []FusionFollowsBranches
<1>1. QueryInv => FusionFollowsBranches
  <2> SUFFICES ASSUME QueryInv, pc = "retrieved", DenseWeight > 0, SparseWeight > 0
               PROVE  FollowsBranches(chunks, denseBranch.hits, sparseBranch.hits,
                                      request.topK, request.filters)
    BY DEF FusionFollowsBranches, FollowsBranches, Dominates, BranchIds, Satisfies
  <2>1. request.topK \in Nat
    BY TopKIsNat DEF QueryInv
  <2>2. chunks = Materialize(Take(Fuse(denseBranch.hits, sparseBranch.hits), request.topK))
    BY DEF QueryInv, CallInv
  <2>3. /\ HitsOK(denseBranch.hits) /\ HitsFollow(denseBranch.hits, request.filters)
        /\ HitsOK(sparseBranch.hits) /\ HitsFollow(sparseBranch.hits, request.filters)
    BY DEF QueryInv, CallInv, BranchInv
  <2> QED BY <2>1, <2>2, <2>3, FusionFollows
<1> QED BY <1>1, QueryInvariant, PTL

\* Trimming never loses a word of the question, and leaves a window over its
\* budget only when each source is the only one for some word, whatever the
\* chunks, their scores and their sizes.
THEOREM CoverageKept == Spec => []TrimmingKeepsCoverage
<1>1. QueryInv => TrimmingKeepsCoverage
  <2> SUFFICES ASSUME QueryInv, pc = "built"
               PROVE  WindowOK(window, request.question, chunks)
    BY DEF TrimmingKeepsCoverage, WindowOK, SoleForAWord
  <2>1. chunks \in Seq(ToSet(chunks)) /\ window = BuildWindow(request.question, chunks)
    BY DEF QueryInv, CallInv, ChunksOK
  <2> QED BY <2>1, BuildWindowOK
<1> QED BY <1>1, QueryInvariant, PTL

=============================================================================
