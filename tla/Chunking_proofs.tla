--------------------------- MODULE Chunking_proofs ---------------------------
(***************************************************************************)
(* What the chunkers compute, for any blocks the parsers may return and    *)
(* any budget: the prepared blocks, the fields of the chunks, the windows  *)
(* over the tokens of a document, and the pieces an oversized block is cut *)
(* into.                                                                   *)
(***************************************************************************)
EXTENDS RagPipeline_proofs

----------------------------------------------------------------------------
(* Prepared blocks *)

\* Every block has a text, and no two have the same.
Prepared(list) ==
    /\ list \in Seq(Block)
    /\ \A i \in 1..Len(list) : list[i].text # <<>>
    /\ \A i, j \in 1..Len(list) : list[i].text = list[j].text => i = j

\* A block that is kept has another text than those before it.
LEMMA KeptIsNew ==
    ASSUME NEW b, NEW kept \in Seq(Block), NEW recurring, Decision(b, recurring, kept).method = "kept"
    PROVE  \A i \in 1..Len(kept) : kept[i].text # b.text
<1> DEFINE n == Len(kept)
           I == {i \in 1..n : kept[i].text = b.text}
           exact == SelectInSeq(kept, LAMBDA k : Signature(k) = Signature(b))
<1>1. n \in Nat /\ DOMAIN kept = 1..n
  BY SeqIsFunction
<1>2. exact = IF I # {} THEN Min(I) ELSE 0
  BY <1>1 DEF SelectInSeq, Signature
<1>3. I # {} => Min(I) \in I
  <2>1. I \in SUBSET Nat
    BY <1>1
  <2> HIDE DEF I
  <2> QED BY <2>1, Filtering!MinOf DEF Min, Filtering!Min
<1>4. exact = 0
  <2>1. exact # 0 => Decision(b, recurring, kept).method # "kept"
    BY DEF Decision, Drop
  <2> QED BY <2>1
<1> HIDE DEF exact, n
<1>5. I = {}
  <2>1. \A i \in I : i # 0
    BY <1>1
  <2> HIDE DEF I
  <2> QED BY <1>2, <1>3, <1>4, <2>1
<1> QED BY <1>5 DEF n

\* So deduplication leaves blocks of different texts.
LEMMA DeduplicateDistinct ==
    ASSUME NEW list \in Seq(Block)
    PROVE  LET kept == Deduplicate(list) IN
           /\ kept \in Seq(Block)
           /\ \A i, j \in 1..Len(kept) : kept[i].text = kept[j].text => i = j
<1> DEFINE kept == Deduplicate(list)
           recurring == RepeatedPatterns(list)
<1>1. kept \in Seq(Block) /\ KeptAgain(kept, recurring)
  BY DeduplicateReports DEF Deduplicated, Deduplicate
<1> HIDE DEF kept, recurring
<1>2. PICK n \in Nat : n = Len(kept) /\ DOMAIN kept = 1..n /\ \A i \in 1..n : kept[i] \in Block
  BY <1>1, SeqIsFunction
<1>3. ASSUME NEW i \in 1..n, NEW j \in 1..n, i < j PROVE kept[i].text # kept[j].text
  <2> DEFINE before == SubSeq(kept, 1, j - 1)
  <2>1. before \in Seq(Block) /\ Len(before) = j - 1 /\ i \in 1..(j - 1) /\ before[i] = kept[i]
    BY <1>1, <1>2, <1>3
  <2>2. Decision(kept[j], recurring, before).method = "kept"
    BY <1>1, <1>2 DEF KeptAgain
  <2> HIDE DEF before
  <2>3. before[i].text # kept[j].text
    BY <2>1, <2>2, KeptIsNew
  <2> QED BY <2>1, <2>3
<1>4. \A i, j \in 1..n : kept[i].text = kept[j].text => i = j
  <2>1. \A i, j \in 1..n : i = j \/ i < j \/ j < i
    OBVIOUS
  <2> QED BY <1>3, <2>1
<1> QED BY <1>1, <1>2, <1>4 DEF kept

\* What the quality filter has kept of the first n blocks.
Sifted(acc, list, n) ==
    /\ DOMAIN acc = {"dropped", "kept"}
    /\ Prepared(acc.kept)
    /\ \A i \in 1..Len(acc.kept) : \E j \in 1..n : acc.kept[i] = list[j]

\* A turn of the filter.
LEMMA SiftTurn ==
    ASSUME NEW list \in Seq(Block), NEW n \in Nat, n + 1 \in 1..Len(list), NEW acc, NEW p,
           \A i, j \in 1..Len(list) : list[i].text = list[j].text => i = j,
           Sifted(acc, list, n)
    PROVE  Sifted(QualityTurn(p, acc, list[n + 1]), list, n + 1)
<1> DEFINE b == list[n + 1]
           next == QualityTurn(p, acc, b)
           grown == Append(acc.kept, b)
<1>1. b \in Block /\ Len(list) \in Nat
  BY SeqIsFunction
<1>0. /\ acc.kept \in Seq(Block)
      /\ \A i \in 1..Len(acc.kept) : acc.kept[i].text # <<>>
      /\ \A i, j \in 1..Len(acc.kept) : acc.kept[i].text = acc.kept[j].text => i = j
      /\ \A i \in 1..Len(acc.kept) : \E j \in 1..n : acc.kept[i] = list[j]
  BY DEF Sifted, Prepared
<1>2. PICK m \in Nat : /\ m = Len(acc.kept) /\ acc.kept \in Seq(Block)
                       /\ \A i \in 1..m : acc.kept[i].text # <<>>
                       /\ \A i, j \in 1..m : acc.kept[i].text = acc.kept[j].text => i = j
                       /\ \A i \in 1..m : \E j \in 1..n : acc.kept[i] = list[j]
  BY <1>0, SeqIsFunction
<1>3. /\ grown \in Seq(Block) /\ Len(grown) = m + 1 /\ grown[m + 1] = b
      /\ \A i \in 1..m : grown[i] = acc.kept[i]
  BY <1>1, <1>2, AppendProperties
<1>4. CASE Signature(b) \in acc.dropped \/ FailsQuality(b)
  <2>1. next = [acc EXCEPT !.dropped = acc.dropped \cup {Signature(b)}]
    BY <1>4 DEF QualityTurn
  <2>2. DOMAIN next = {"dropped", "kept"} /\ next.kept = acc.kept
    BY <2>1 DEF Sifted
  <2>3. \A i \in 1..m : \E j \in 1..(n + 1) : acc.kept[i] = list[j]
    BY <1>2
  <2> HIDE DEF next
  <2>4. Sifted(next, list, n + 1)
    BY <1>2, <2>2, <2>3 DEF Sifted, Prepared
  <2> QED BY <2>4 DEF next
<1>5. CASE ~(Signature(b) \in acc.dropped \/ FailsQuality(b))
  <2>1. next = [acc EXCEPT !.kept = grown] /\ b.text # <<>>
    BY <1>5 DEF QualityTurn, FailsQuality
  <2>2. DOMAIN next = {"dropped", "kept"} /\ next.kept = grown
    BY <2>1 DEF Sifted
  <2>3. \A i \in 1..m : acc.kept[i].text # b.text
    <3> SUFFICES ASSUME NEW i \in 1..m PROVE acc.kept[i].text # b.text
      OBVIOUS
    <3>1. PICK j \in 1..n : acc.kept[i] = list[j]
      BY <1>2
    <3>2. j \in 1..Len(list) /\ j # n + 1
      BY <1>1
    <3>3. list[j].text # list[n + 1].text
      BY <3>2
    <3> QED BY <3>1, <3>3
  <2> HIDE DEF grown, b
  <2>4. \A i \in 1..(m + 1) : i \in 1..m \/ i = m + 1
    BY <1>2
  <2>5. Prepared(grown)
    <3>1. \A i \in 1..(m + 1) : grown[i].text # <<>>
      BY <1>2, <1>3, <2>1, <2>4
    <3>2. ASSUME NEW i \in 1..(m + 1), NEW j \in 1..(m + 1), grown[i].text = grown[j].text
          PROVE  i = j
      <4>1. (i \in 1..m \/ i = m + 1) /\ (j \in 1..m \/ j = m + 1)
        BY <2>4
      <4>2. CASE i \in 1..m /\ j \in 1..m
        BY <1>2, <1>3, <3>2, <4>2
      <4>3. CASE i \in 1..m /\ j = m + 1
        BY <1>3, <2>3, <3>2, <4>3
      <4>4. CASE i = m + 1 /\ j \in 1..m
        BY <1>3, <2>3, <3>2, <4>4
      <4> QED BY <4>1, <4>2, <4>3, <4>4
    <3> QED BY <1>3, <3>1, <3>2 DEF Prepared
  <2>6. \A i \in 1..(m + 1) : \E j \in 1..(n + 1) : grown[i] = list[j]
    <3>1. \A j \in 1..n : j \in 1..(n + 1)
      OBVIOUS
    <3>2. n + 1 \in 1..(n + 1) /\ b = list[n + 1]
      BY DEF b
    <3> QED BY <1>2, <1>3, <2>4, <3>1, <3>2
  <2> HIDE DEF next
  <2>7. Sifted(next, list, n + 1)
    BY <1>3, <2>2, <2>5, <2>6 DEF Sifted
  <2> QED BY <2>7 DEF next, b
<1> QED BY <1>4, <1>5

\* The chunker cuts blocks of different texts, none of them empty.
LEMMA PrepareGives == \A list \in Seq(Block) : Prepared(Prepare(list))
<1> SUFFICES ASSUME NEW blocks0 \in Seq(Block) PROVE Prepared(Prepare(blocks0))
  OBVIOUS
<1> DEFINE list == Deduplicate(blocks0)
           start == [dropped |-> {}, kept |-> <<>>]
<1>1. list \in Seq(Block) /\ \A i, j \in 1..Len(list) : list[i].text = list[j].text => i = j
  BY DeduplicateDistinct
<1>2. Prepare(blocks0) = Sifting!Folded(0, start, list).kept
  BY DEF Prepare, Validate, QualityTurn, Sifting!Folded, FoldLeft, MapThenFoldSet, Max,
         Sifting!FoldLeft, Sifting!MapThenFoldSet, Sifting!Max
<1>3. Sifted(start, list, 0)
  <2>1. DOMAIN start = {"dropped", "kept"} /\ start.kept = <<>>
    OBVIOUS
  <2>2. <<>> \in Seq(Block) /\ Len(<<>>) = 0 /\ 1..0 = {}
    OBVIOUS
  <2> HIDE DEF start, list
  <2> QED BY <2>1, <2>2 DEF Sifted, Prepared
<1> HIDE DEF list, start
<1>4. PICK n \in Nat : n = Len(list) /\ DOMAIN list = 1..n
  BY <1>1, SeqIsFunction
<1>5. PICK g : Sifting!Trace(g, 0, start, list, n)
  BY <1>4, Sifting!FoldTraces
<1>6. /\ g[0] = start /\ Sifting!Folded(0, start, list) = g[n]
      /\ \A k \in 1..n : g[k] = QualityTurn(0, g[k - 1], list[k])
  BY <1>5 DEF Sifting!Trace
<1> DEFINE K == {k \in Nat : Sifted(g[k], list, k)}
<1>7. 0 \in K
  BY <1>3, <1>6
<1>8. ASSUME NEW k \in 1..n, k - 1 \in K PROVE k \in K
  <2>1. k - 1 \in Nat /\ (k - 1) + 1 = k /\ k \in 1..Len(list) /\ Sifted(g[k - 1], list, k - 1)
    BY <1>4, <1>8
  <2>2. Sifted(QualityTurn(0, g[k - 1], list[(k - 1) + 1]), list, (k - 1) + 1)
    BY <1>1, <2>1, SiftTurn
  <2>3. k \in Nat /\ g[k] = QualityTurn(0, g[k - 1], list[k])
    BY <1>6
  <2> QED BY <2>1, <2>2, <2>3
<1> HIDE DEF K
<1>9. n \in K
  <2>1. 0..n \subseteq K
    BY <1>7, <1>8, Sifting!UpTo
  <2> QED BY <2>1
<1> QED BY <1>2, <1>6, <1>9 DEF K, Sifted


----------------------------------------------------------------------------
(* Sequences in one another *)

\* f has the first sequences in one, up to n of them.
Flattened(f, seqs, n) ==
    /\ f[1] = seqs[1] /\ f[n] = FlattenSeq(seqs)
    /\ \A k \in 2..n : f[k] = f[k - 1] \o seqs[k]

\* What FlattenSeq makes of n sequences, one by one.
LEMMA FlattenStep ==
    ASSUME NEW S, NEW seqs \in Seq(Seq(S)), NEW n \in Nat, n = Len(seqs), n # 0
    PROVE  \E f : Flattened(f, seqs, n)
<1>1. PICK f : Filtering!FlattenTrace(f, seqs, n)
  BY Filtering!FlattenTraces
<1>2. /\ f[1] = seqs[1] /\ f[n] = FlattenSeq(seqs)
      /\ \A k \in 2..n : f[k] = f[k - 1] \o seqs[k]
  BY <1>1 DEF Filtering!FlattenTrace, FlattenSeq, Filtering!FlattenSeq
<1> QED BY <1>2 DEF Flattened

\* Nothing, and one sequence.
LEMMA FlattenOne ==
    /\ FlattenSeq(<<>>) = <<>>
    /\ \A S : \A x \in Seq(S) : FlattenSeq(<<x>>) = x
<1>1. FlattenSeq(<<>>) = <<>>
  BY DEF FlattenSeq
<1>2. ASSUME NEW S, NEW x \in Seq(S) PROVE FlattenSeq(<<x>>) = x
  <2> DEFINE s == <<x>>
  <2>1. s \in Seq(Seq(S)) /\ 1 = Len(s) /\ s[1] = x /\ 1 # 0 /\ 1 \in Nat
    OBVIOUS
  <2> HIDE DEF s
  <2>2. \E f : Flattened(f, s, 1)
    BY ONLY <2>1, FlattenStep
  <2>3. PICK f : Flattened(f, s, 1)
    BY <2>2
  <2> QED BY <2>1, <2>3 DEF Flattened, s
<1> QED BY <1>1, <1>2

\* One sequence more.
LEMMA FlattenAppend ==
    \A S : \A seqs \in Seq(Seq(S)), x \in Seq(S) :
        FlattenSeq(Append(seqs, x)) = FlattenSeq(seqs) \o x
<1> SUFFICES ASSUME NEW S, NEW seqs \in Seq(Seq(S)), NEW x \in Seq(S)
             PROVE  FlattenSeq(Append(seqs, x)) = FlattenSeq(seqs) \o x
  OBVIOUS
<1> DEFINE more == Append(seqs, x)
<1>1. PICK n \in Nat : n = Len(seqs) /\ \A i \in 1..n : seqs[i] \in Seq(S)
  BY SeqIsFunction
<1>2. /\ more \in Seq(Seq(S)) /\ Len(more) = n + 1 /\ more[n + 1] = x
      /\ \A i \in 1..n : more[i] = seqs[i]
  BY <1>1, AppendProperties
<1>3. CASE n = 0
  <2>1. seqs = <<>>
    <3>1. Len(seqs) = 0
      BY <1>1, <1>3
    <3> QED BY <3>1, EmptySeq, Zenon
  <2>4. more = <<x>>
    BY <2>1
  <2>2. FlattenSeq(more) = x /\ FlattenSeq(seqs) = <<>>
    BY <2>1, <2>4, FlattenOne
  <2>3. <<>> \o x = x
    OBVIOUS
  <2> QED BY <2>2, <2>3
<1>4. CASE n # 0
  <2> HIDE DEF more
  <2>0. PICK f : Flattened(f, seqs, n)
    BY <1>1, <1>4, FlattenStep
  <2>1. /\ f[1] = seqs[1] /\ f[n] = FlattenSeq(seqs)
        /\ \A k \in 2..n : f[k] = f[k - 1] \o seqs[k]
    BY <2>0 DEF Flattened
  <2>2. n + 1 \in Nat /\ n + 1 # 0
    BY <1>1
  <2>10. PICK g : Flattened(g, more, n + 1)
    BY <1>2, <2>2, FlattenStep
  <2>3. /\ g[1] = more[1] /\ g[n + 1] = FlattenSeq(more)
        /\ \A k \in 2..(n + 1) : g[k] = g[k - 1] \o more[k]
    BY <2>10 DEF Flattened
  <2> DEFINE K == {k \in Nat : k = 0 \/ f[k] = g[k]}
  <2>4. 0 \in K
    OBVIOUS
  <2>5. ASSUME NEW k \in 1..n, k - 1 \in K PROVE k \in K
    <3>1. CASE k = 1
      BY <1>2, <2>1, <2>3, <3>1
    <3>2. CASE k # 1
      <4>1. k \in 2..n /\ k \in 2..(n + 1) /\ k - 1 # 0 /\ k \in Nat
        BY <3>2
      <4>2. f[k - 1] = g[k - 1] /\ more[k] = seqs[k]
        BY <1>2, <2>5, <4>1
      <4>3. f[k] = f[k - 1] \o seqs[k] /\ g[k] = g[k - 1] \o more[k]
        BY <2>1, <2>3, <4>1
      <4>4. f[k] = g[k]
        BY <4>2, <4>3
      <4> QED BY <4>1, <4>4
    <3> QED BY <3>1, <3>2
  <2> HIDE DEF K
  <2>6. n \in K
    <3>1. 0..n \subseteq K
      BY <2>4, <2>5, Filtering!UpTo
    <3> QED BY <3>1
  <2>7. f[n] = g[n]
    BY <1>4, <2>6 DEF K
  <2>8. n + 1 \in 2..(n + 1) /\ (n + 1) - 1 = n
    BY <1>4
  <2>9. g[n + 1] = g[n] \o more[n + 1]
    BY <2>3, <2>8
  <2> QED BY <1>2, <2>1, <2>3, <2>7, <2>9 DEF more
<1> QED BY <1>3, <1>4

\* A list that is not empty is another one with an element behind it.
LEMMA LastOf ==
    ASSUME NEW S, NEW s \in Seq(S), NEW n \in Nat, Len(s) = n + 1
    PROVE  /\ s = Append(SubSeq(s, 1, n), s[n + 1]) /\ SubSeq(s, 1, n) \in Seq(S)
           /\ Len(SubSeq(s, 1, n)) = n /\ s[n + 1] \in S
<1>1. SubSeq(s, 1, n) \in Seq(S) /\ Len(SubSeq(s, 1, n)) = n /\ s[n + 1] \in S
      /\ \A i \in 1..n : SubSeq(s, 1, n)[i] = s[i]
  OBVIOUS
<1> DEFINE t == Append(SubSeq(s, 1, n), s[n + 1])
<1>2. t \in Seq(S) /\ Len(t) = n + 1 /\ t[n + 1] = s[n + 1] /\ \A i \in 1..n : t[i] = s[i]
  BY <1>1, AppendProperties
<1> HIDE DEF t
<1>3. \A i \in 1..(n + 1) : t[i] = s[i]
  <2>1. \A i \in 1..(n + 1) : i \in 1..n \/ i = n + 1
    OBVIOUS
  <2> QED BY <1>2, <2>1
<1>4. t = s
  BY <1>2, <1>3, SeqEqual
<1> QED BY <1>1, <1>4 DEF t

\* Induction over lists, for sets: what has the empty list, and with a list the
\* list with one element more, has them all.
LEMMA ListInduction ==
    \A S, K : <<>> \in K /\ (\A s \in Seq(S), x \in S : s \in K => Append(s, x) \in K)
                => Seq(S) \subseteq K
<1> SUFFICES ASSUME NEW S, NEW K, <<>> \in K,
                    \A s \in Seq(S), x \in S : s \in K => Append(s, x) \in K
             PROVE  Seq(S) \subseteq K
  OBVIOUS
<1> DEFINE N == {n \in Nat : \A s \in Seq(S) : Len(s) = n => s \in K}
<1>1. 0 \in N
  <2>1. \A s \in Seq(S) : Len(s) = 0 => s = <<>>
    OBVIOUS
  <2> QED BY <2>1
<1>2. ASSUME NEW n \in N PROVE n + 1 \in N
  <2> SUFFICES ASSUME NEW s \in Seq(S), Len(s) = n + 1 PROVE s \in K
    OBVIOUS
  <2>1. n \in Nat
    OBVIOUS
  <2> DEFINE r == SubSeq(s, 1, n)
             x == s[n + 1]
  <2>2. s = Append(r, x) /\ r \in Seq(S) /\ Len(r) = n /\ x \in S
    BY <2>1, LastOf
  <2> HIDE DEF r, x
  <2>3. r \in K
    BY <2>2
  <2> QED BY <2>2, <2>3
<1> HIDE DEF N
<1>3. N = Nat
  <2>1. N \in SUBSET Nat
    BY DEF N
  <2> QED BY <1>1, <1>2, <2>1, Filtering!NatSetInduction
<1>4. \A s \in Seq(S) : Len(s) \in N
  BY <1>3
<1> QED BY <1>4 DEF N

\* What a list with one element more contains.
LEMMA ContainsAppended ==
    \A S : \A s \in Seq(S), x \in S :
        \A y : /\ Contains(Append(s, x), y) <=> Contains(s, y) \/ y = x
               /\ Contains(s, y) <=> y \in ToSet(s)
<1> SUFFICES ASSUME NEW S, NEW s \in Seq(S), NEW x \in S, NEW y
             PROVE  /\ Contains(Append(s, x), y) <=> Contains(s, y) \/ y = x
                    /\ Contains(s, y) <=> y \in ToSet(s)
  OBVIOUS
<1> DEFINE t == Append(s, x)
<1>1. PICK n \in Nat : n = Len(s) /\ DOMAIN s = 1..n
  BY SeqIsFunction
<1>2. Len(t) = n + 1 /\ t[n + 1] = x /\ \A i \in 1..n : t[i] = s[i]
  BY <1>1, AppendProperties
<1> HIDE DEF t
<1>3. \A i : i \in 1..(n + 1) <=> i \in 1..n \/ i = n + 1
  OBVIOUS
<1>4. Contains(t, y) <=> Contains(s, y) \/ y = x
  BY <1>1, <1>2, <1>3 DEF Contains
<1>5. Contains(s, y) <=> y \in ToSet(s)
  BY <1>1 DEF Contains, ToSet
<1> QED BY <1>4, <1>5 DEF t

\* Lists of sequences, one behind the other.
LEMMA FlattenConcat ==
    \A S : \A s, t \in Seq(Seq(S)) : FlattenSeq(s \o t) = FlattenSeq(s) \o FlattenSeq(t)
<1> SUFFICES ASSUME NEW S, NEW s \in Seq(Seq(S))
             PROVE  \A t \in Seq(Seq(S)) : FlattenSeq(s \o t) = FlattenSeq(s) \o FlattenSeq(t)
  OBVIOUS
<1>0. \A r \in Seq(Seq(S)) : FlattenSeq(r) \in Seq(S)
  BY Filtering!FlattenIsSeq DEF FlattenSeq, Filtering!FlattenSeq
<1> DEFINE K == {n \in Nat : \A t \in Seq(Seq(S)) : Len(t) = n =>
                    FlattenSeq(s \o t) = FlattenSeq(s) \o FlattenSeq(t)}
<1>1. 0 \in K
  <2> SUFFICES ASSUME NEW t \in Seq(Seq(S)), Len(t) = 0
               PROVE  FlattenSeq(s \o t) = FlattenSeq(s) \o FlattenSeq(t)
    OBVIOUS
  <2>1. t = <<>>
    OBVIOUS
  <2>2. s \o <<>> = s /\ FlattenSeq(s) \o <<>> = FlattenSeq(s)
    <3>1. \A R : \A r \in Seq(R) : r \o <<>> = r
      OBVIOUS
    <3> QED BY <1>0, <3>1
  <2> QED BY <2>1, <2>2, FlattenOne
<1>2. ASSUME NEW n \in K PROVE n + 1 \in K
  <2> SUFFICES ASSUME NEW t \in Seq(Seq(S)), Len(t) = n + 1
               PROVE  FlattenSeq(s \o t) = FlattenSeq(s) \o FlattenSeq(t)
    OBVIOUS
  <2> DEFINE r == SubSeq(t, 1, n)
             x == t[n + 1]
  <2>1. n \in Nat
    OBVIOUS
  <2>2. t = Append(r, x) /\ r \in Seq(Seq(S)) /\ Len(r) = n /\ x \in Seq(S)
    BY <2>1, LastOf
  <2>3. FlattenSeq(s \o r) = FlattenSeq(s) \o FlattenSeq(r)
    BY <2>2
  <2> HIDE DEF r, x, K
  <2>4. s \o t = Append(s \o r, x) /\ s \o r \in Seq(Seq(S))
    BY <2>2
  <2>5. FlattenSeq(s \o t) = FlattenSeq(s \o r) \o x /\ FlattenSeq(t) = FlattenSeq(r) \o x
    BY <2>2, <2>4, FlattenAppend
  <2>6. \A a, b, c \in Seq(S) : (a \o b) \o c = a \o (b \o c)
    OBVIOUS
  <2>7. FlattenSeq(s) \in Seq(S) /\ FlattenSeq(r) \in Seq(S)
    BY <1>0, <2>2
  <2> QED BY <2>2, <2>3, <2>5, <2>6, <2>7, SMTT(30)
<1> HIDE DEF K
<1>3. K = Nat
  <2>1. K \in SUBSET Nat
    BY DEF K
  <2> QED BY <1>1, <1>2, <2>1, Filtering!NatSetInduction
<1>4. \A t \in Seq(Seq(S)) : Len(t) \in K
  BY <1>3
<1> QED BY <1>4 DEF K

\* Single elements, each in a sequence of its own.
LEMMA FlattenSingles ==
    ASSUME NEW n \in Nat, NEW x, NEW g, g = [i \in 1..n |-> <<x[i]>>]
    PROVE  FlattenSeq(g) = [i \in 1..n |-> x[i]]
<1> DEFINE S == {x[i] : i \in 1..n}
           y == [i \in 1..n |-> x[i]]
<1>1. g \in Seq(Seq(S)) /\ Len(g) = n
  <2>1. \A i \in 1..n : g[i] \in Seq(S)
    OBVIOUS
  <2>2. Listing(g, n, Seq(S))
    BY <2>1 DEF Listing
  <2> QED BY <2>2, ListingIsSeq
<1>2. y \in Seq(S) /\ Len(y) = n
  <2>1. Listing(y, n, S)
    BY DEF Listing
  <2> HIDE DEF y, S
  <2> QED BY <2>1, ListingIsSeq
<1>3. CASE n = 0
  <2>1. g = <<>> /\ y = <<>>
    BY <1>1, <1>2, <1>3
  <2> QED BY <2>1, FlattenOne
<1>4. CASE n # 0
  <2>0. PICK f : Flattened(f, g, n)
    BY <1>1, <1>4, FlattenStep
  <2>1. /\ f[1] = g[1] /\ f[n] = FlattenSeq(g)
        /\ \A k \in 2..n : f[k] = f[k - 1] \o g[k]
    BY <2>0 DEF Flattened
  <2> HIDE DEF S
  <2> DEFINE K == {k \in Nat : k = 0 \/ f[k] = SubSeq(y, 1, k)}
  <2>2. 0 \in K
    OBVIOUS
  <2>3. ASSUME NEW k \in 1..n, k - 1 \in K PROVE k \in K
    <3>1. y[k] = x[k] /\ y[k] \in S /\ g[k] = <<x[k]>>
      BY <1>2
    <3> HIDE DEF y
    <3>2. CASE k = 1
      <4>1. SubSeq(y, 1, 1) = <<y[1]>>
        <5>1. y \in Seq(S) /\ 1 \in 1..Len(y) /\ y[1] \in S
          BY <1>2, <3>1, <3>2
        <5>2. SubSeq(y, 1, 1) \in Seq(S) /\ Len(SubSeq(y, 1, 1)) = 1 /\ SubSeq(y, 1, 1)[1] = y[1]
          BY ONLY <5>1
        <5>3. <<y[1]>> \in Seq(S) /\ Len(<<y[1]>>) = 1 /\ <<y[1]>>[1] = y[1]
          BY ONLY <5>1
        <5> DEFINE u == SubSeq(y, 1, 1)
                   v == <<y[1]>>
        <5>4. u \in Seq(S) /\ v \in Seq(S) /\ Len(u) = Len(v) /\ \A i \in 1..Len(u) : u[i] = v[i]
          <6>1. \A i \in 1..1 : i = 1
            OBVIOUS
          <6> HIDE DEF u, v
          <6> QED BY <5>2, <5>3, <6>1 DEF u, v
        <5> HIDE DEF u, v
        <5>5. u = v
          BY <5>4, SeqEqual
        <5> QED BY <5>5 DEF u, v
      <4> QED BY <2>1, <3>1, <3>2, <4>1
    <3>3. CASE k # 1
      <4>1. k \in 2..n /\ k - 1 # 0 /\ k - 1 \in Nat
        BY <3>3
      <4>2. f[k] = SubSeq(y, 1, k - 1) \o <<y[k]>>
        BY <2>1, <2>3, <3>1, <4>1
      <4>3. SubSeq(y, 1, k) = SubSeq(y, 1, k - 1) \o <<y[k]>>
        BY <1>2, <4>1
      <4> QED BY <4>2, <4>3
    <3> QED BY <3>2, <3>3
  <2> HIDE DEF K, y
  <2>4. n \in K
    <3>1. 0..n \subseteq K
      BY <2>2, <2>3, Filtering!UpTo
    <3> QED BY <3>1
  <2>5. f[n] = SubSeq(y, 1, n)
    BY <1>4, <2>4 DEF K
  <2>6. SubSeq(y, 1, n) = y
    BY <1>2
  <2> QED BY <2>1, <2>5, <2>6 DEF y
<1> QED BY <1>3, <1>4


----------------------------------------------------------------------------
(* Chunks made of raw chunks *)

\* What the chunkers cut a document into.
Raws(kind, list) == IF kind = "fixed" THEN FixedChunks(list) ELSE SemanticChunks(list)

\* A list of raw chunks, none of them empty.
Whole(raws) ==
    IsList(raws) /\ \A i \in 1..Len(raws) : raws[i].text # <<>> /\ raws[i].blocks # <<>>

\* The i-th of the chunks is made of the i-th raw chunk.
MadeAs(cs, raws, i) ==
    /\ cs[i].text = raws[i].text /\ cs[i].blocks = raws[i].blocks
    /\ cs[i].tokens = Len(raws[i].body)
    /\ cs[i].previous = (IF i = 1 THEN <<>> ELSE <<cs[i - 1].id>>)
    /\ cs[i].pages = <<Min({b.page : b \in ToSet(raws[i].blocks)}),
                       Max({b.page : b \in ToSet(raws[i].blocks)})>>

MadeOf(cs, raws) ==
    IsList(cs) /\ Len(cs) = Len(raws) /\ \A i \in 1..Len(raws) : MadeAs(cs, raws, i)

\* The fields a chunk has from its raw chunk.
Copies(c, raw) ==
    /\ c.text = raw.text /\ c.blocks = raw.blocks /\ c.tokens = Len(raw.body)
    /\ c.pages = <<Min({b.page : b \in ToSet(raw.blocks)}), Max({b.page : b \in ToSet(raw.blocks)})>>
    /\ {"text", "blocks", "tokens", "pages", "id"} \subseteq DOMAIN c

\* They are copied.
LEMMA BuiltFields == \A raw, i, total : Copies(BuildChunk(raw, i, total), raw)
BY DEF BuildChunk, PagesOf, Copies

\* What links and scores are written over.
LEMMA UpdatedFields ==
    ASSUME NEW c, NEW more, DOMAIN more = {"previous", "next", "overlap", "quality"},
           {"text", "blocks", "tokens", "pages", "id"} \subseteq DOMAIN c
    PROVE  LET u == Updated(c, more) IN
           /\ u.text = c.text /\ u.blocks = c.blocks /\ u.tokens = c.tokens /\ u.pages = c.pages
           /\ u.id = c.id /\ u.previous = more.previous
BY DEF Updated

\* Of raw chunks that are not empty, each becomes a chunk.
LEMMA ChunksMade ==
    ASSUME NEW kind, NEW list \in Seq(Block), Whole(Raws(kind, list))
    PROVE  MadeOf(ChunkWith(kind, list), Raws(kind, list))
<1> DEFINE raws == Raws(kind, list)
           n == Len(raws)
           One(i) == BuildChunk(raws[i], i, n)
           built == [i \in DOMAIN raws |-> IF raws[i].text = <<>> \/ raws[i].blocks = <<>>
                                           THEN <<>> ELSE <<One(i)>>]
           bs == BuildChunks(raws)
           cs == ChunkWith(kind, list)
<1>1. IsList(raws) /\ n \in Nat /\ DOMAIN raws = 1..n
      /\ \A i \in 1..n : raws[i].text # <<>> /\ raws[i].blocks # <<>>
  BY ListPlaces DEF Whole
<1>2. bs = FlattenSeq(built)
  BY DEF BuildChunks
<1>3. cs = PostProcess(bs)
  BY DEF ChunkWith, Raws
<1>4. IsList(cs)
  BY ChunksAreList
<1> HIDE DEF raws, n, bs, cs
<1>5. bs = [i \in 1..n |-> One(i)]
  <2> DEFINE x == [i \in 1..n |-> One(i)]
  <2>1. built = [i \in 1..n |-> <<x[i]>>]
    BY <1>1
  <2> HIDE DEF built, x, One
  <2>2. FlattenSeq(built) = [i \in 1..n |-> x[i]]
    BY <1>1, <2>1, FlattenSingles
  <2>3. x = [i \in 1..n |-> x[i]]
    BY DEF x
  <2> QED BY <1>2, <2>2, <2>3 DEF x
<1> HIDE DEF built
<1>6. ASSUME NEW i \in 1..n
      PROVE  Copies(bs[i], raws[i])
  BY <1>5, BuiltFields
<1> DEFINE Link(j) == IF j \in DOMAIN bs THEN <<bs[j].id>> ELSE <<>>
           More(i) == [previous |-> Link(i - 1), next |-> Link(i + 1),
                       overlap |-> <<i - 1 \in DOMAIN bs /\ SharesEdge(bs[i - 1].text, bs[i].text),
                                     i + 1 \in DOMAIN bs /\ SharesEdge(bs[i].text, bs[i + 1].text)>>,
                       quality |-> QualityScore(bs[i])]
<1>7. cs = [i \in DOMAIN bs |-> Updated(bs[i], More(i))]
  BY <1>3 DEF PostProcess
<1>8. \A i : DOMAIN More(i) = {"previous", "next", "overlap", "quality"}
             /\ More(i).previous = Link(i - 1)
  OBVIOUS
<1> HIDE DEF More, One
<1>9. DOMAIN bs = 1..n /\ DOMAIN cs = 1..n
  BY <1>5, <1>7
<1>10. ASSUME NEW i \in 1..n
       PROVE  /\ cs[i].text = bs[i].text /\ cs[i].blocks = bs[i].blocks
              /\ cs[i].tokens = bs[i].tokens /\ cs[i].pages = bs[i].pages
              /\ cs[i].id = bs[i].id /\ cs[i].previous = Link(i - 1)
  <2>1. cs[i] = Updated(bs[i], More(i))
    BY <1>7, <1>9
  <2>2. DOMAIN More(i) = {"previous", "next", "overlap", "quality"} /\ More(i).previous = Link(i - 1)
    BY <1>8
  <2> HIDE DEF Link
  <2>3. /\ Updated(bs[i], More(i)).text = bs[i].text /\ Updated(bs[i], More(i)).blocks = bs[i].blocks
        /\ Updated(bs[i], More(i)).tokens = bs[i].tokens
        /\ Updated(bs[i], More(i)).pages = bs[i].pages
        /\ Updated(bs[i], More(i)).id = bs[i].id
        /\ Updated(bs[i], More(i)).previous = More(i).previous
    BY <1>6, <2>2, UpdatedFields, ZenonT(40) DEF Copies
  <2> QED BY <2>1, <2>2, <2>3
<1>11. \A i \in 1..n : MadeAs(cs, raws, i)
  <2> SUFFICES ASSUME NEW i \in 1..n PROVE MadeAs(cs, raws, i)
    OBVIOUS
  <2>1. cs[i].previous = (IF i = 1 THEN <<>> ELSE <<cs[i - 1].id>>)
    <3>1. CASE i = 1
      <4>1. i - 1 \notin DOMAIN bs
        BY <1>9, <3>1
      <4> QED BY <1>10, <3>1, <4>1
    <3>2. CASE i # 1
      <4>1. i - 1 \in 1..n
        BY <1>1, <3>2
      <4>2. Link(i - 1) = <<bs[i - 1].id>> /\ cs[i - 1].id = bs[i - 1].id
        BY <1>9, <1>10, <4>1
      <4> QED BY <1>10, <3>2, <4>2
    <3> QED BY <3>1, <3>2
  <2> HIDE DEF Link
  <2>2. /\ cs[i].text = raws[i].text /\ cs[i].blocks = raws[i].blocks
        /\ cs[i].tokens = Len(raws[i].body)
        /\ cs[i].pages = <<Min({b.page : b \in ToSet(raws[i].blocks)}),
                           Max({b.page : b \in ToSet(raws[i].blocks)})>>
    BY <1>6, <1>10 DEF Copies
  <2> QED BY <2>1, <2>2 DEF MadeAs
<1>12. Len(cs) = n
  BY <1>1, <1>4, <1>9, ListPlaces
<1>13. MadeOf(cs, raws)
  BY <1>4, <1>11, <1>12 DEF MadeOf, n
<1> QED BY <1>13 DEF cs, raws


----------------------------------------------------------------------------
(* The token stream of a document *)

\* The texts of a list of blocks, and of the list with one block more.
LEMMA TextsAppend ==
    ASSUME NEW list \in Seq(Block)
    PROVE  /\ TextsOf(list) \in Seq(Text) /\ Len(TextsOf(list)) = Len(list)
           /\ \A b \in Block : TextsOf(Append(list, b)) = Append(TextsOf(list), b.text)
<1> DEFINE t == TextsOf(list)
<1>1. PICK n \in Nat : n = Len(list) /\ DOMAIN list = 1..n /\ \A i \in 1..n : list[i] \in Block
  BY SeqIsFunction
<1>2. t = [i \in 1..n |-> list[i].text]
  BY <1>1 DEF TextsOf
<1>3. \A i \in 1..n : t[i] \in Text
  BY <1>1, <1>2, FieldsOfBlock
<1> HIDE DEF t
<1>4. t \in Seq(Text) /\ Len(t) = n
  <2>1. Listing(t, n, Text)
    BY <1>2, <1>3 DEF Listing
  <2> QED BY <2>1, ListingIsSeq
<1>5. ASSUME NEW b \in Block PROVE TextsOf(Append(list, b)) = Append(t, b.text)
  <2> DEFINE more == Append(list, b)
  <2>1. /\ more \in Seq(Block) /\ Len(more) = n + 1 /\ DOMAIN more = 1..(n + 1)
        /\ more[n + 1] = b /\ \A i \in 1..n : more[i] = list[i]
    BY <1>1, AppendProperties
  <2>2. b.text \in Text
    BY FieldsOfBlock
  <2> HIDE DEF more
  <2>3. TextsOf(more) = [i \in 1..(n + 1) |-> more[i].text]
    BY <2>1 DEF TextsOf
  <2> DEFINE u == TextsOf(more)
             v == Append(t, b.text)
  <2>4. v \in Seq(Text) /\ Len(v) = n + 1 /\ v[n + 1] = b.text /\ \A i \in 1..n : v[i] = t[i]
    BY <1>4, <2>2, AppendProperties
  <2>5. \A i \in 1..(n + 1) : i \in 1..n \/ i = n + 1
    OBVIOUS
  <2> HIDE DEF u, v
  <2>6. \A i \in 1..(n + 1) : u[i] = v[i] /\ v[i] \in Text
    <3> SUFFICES ASSUME NEW i \in 1..(n + 1) PROVE u[i] = v[i] /\ v[i] \in Text
      OBVIOUS
    <3>1. u[i] = more[i].text
      BY <2>3 DEF u
    <3>2. CASE i \in 1..n
      BY <1>2, <1>3, <2>1, <2>4, <3>1, <3>2 DEF t
    <3>3. CASE i = n + 1
      BY <2>1, <2>2, <2>4, <3>1, <3>3
    <3> QED BY <2>5, <3>2, <3>3
  <2>7. u \in Seq(Text) /\ Len(u) = n + 1
    <3>1. u = [i \in 1..(n + 1) |-> u[i]] /\ n + 1 \in Nat
      BY <1>1, <2>3 DEF u
    <3>2. Listing(u, n + 1, Text)
      BY <2>6, <3>1 DEF Listing
    <3> QED BY <3>1, <3>2, ListingIsSeq
  <2>8. u = v
    BY <2>4, <2>6, <2>7, SeqEqual
  <2> QED BY <2>8 DEF u, v, more
<1> QED BY <1>1, <1>4, <1>5 DEF t

\* The tokens of a block, each with the block.
Mark(b) == [j \in DOMAIN b.text |-> [token |-> b.text[j], block |-> b]]

Marked == [token : Token, block : Block]

\* They are as many as its text has.
LEMMA MarkIs ==
    \A b \in Block : /\ Mark(b) \in Seq(Marked) /\ Len(Mark(b)) = Len(b.text)
                     /\ \A j \in 1..Len(b.text) : Mark(b)[j].token = b.text[j] /\ Mark(b)[j].block = b
<1> SUFFICES ASSUME NEW b \in Block
             PROVE  /\ Mark(b) \in Seq(Marked) /\ Len(Mark(b)) = Len(b.text)
                    /\ \A j \in 1..Len(b.text) : Mark(b)[j].token = b.text[j] /\ Mark(b)[j].block = b
  OBVIOUS
<1>1. b.text \in Seq(Token)
  BY FieldsOfBlock DEF Text
<1>2. PICK n \in Nat : n = Len(b.text) /\ DOMAIN b.text = 1..n /\ \A j \in 1..n : b.text[j] \in Token
  BY <1>1, SeqIsFunction
<1>3. Mark(b) = [j \in 1..n |-> [token |-> b.text[j], block |-> b]]
  BY <1>2 DEF Mark
<1>4. \A j \in 1..n : Mark(b)[j] \in Marked /\ Mark(b)[j].token = b.text[j] /\ Mark(b)[j].block = b
  BY <1>2, <1>3 DEF Marked
<1>5. Mark(b) \in Seq(Marked) /\ Len(Mark(b)) = n
  <2>1. Listing(Mark(b), n, Marked)
    BY <1>3, <1>4 DEF Listing
  <2> QED BY <2>1, ListingIsSeq
<1> QED BY <1>2, <1>4, <1>5

\* The stream of a list with one block more.
LEMMA StreamAppend ==
    ASSUME NEW list \in Seq(Block)
    PROVE  /\ TokenStream(list) \in Seq(Marked)
           /\ \A b \in Block : TokenStream(Append(list, b)) = TokenStream(list) \o Mark(b)
<1> DEFINE Marks(l) == [i \in DOMAIN l |-> Mark(l[i])]
<1>1. \A l \in Seq(Block) : TokenStream(l) = FlattenSeq(Marks(l))
  BY DEF TokenStream, Mark
<1>2. ASSUME NEW l \in Seq(Block) PROVE Marks(l) \in Seq(Seq(Marked)) /\ Len(Marks(l)) = Len(l)
  <2>1. PICK n \in Nat : n = Len(l) /\ DOMAIN l = 1..n /\ \A i \in 1..n : l[i] \in Block
    BY SeqIsFunction
  <2> DEFINE m == Marks(l)
  <2>2. m = [i \in 1..n |-> m[i]] /\ \A i \in 1..n : m[i] = Mark(l[i])
    BY <2>1
  <2> HIDE DEF m
  <2>3. \A i \in 1..n : m[i] \in Seq(Marked)
    BY <2>1, <2>2, MarkIs
  <2>4. Listing(m, n, Seq(Marked))
    BY <2>2, <2>3 DEF Listing
  <2>5. m \in Seq(Seq(Marked)) /\ Len(m) = n
    BY <2>4, ListingIsSeq
  <2> QED BY <2>1, <2>5 DEF m
<1>3. \A l \in Seq(Block) : FlattenSeq(Marks(l)) \in Seq(Marked)
  <2> HIDE DEF Marks
  <2> QED BY <1>2, Filtering!FlattenIsSeq DEF FlattenSeq, Filtering!FlattenSeq
<1>4. ASSUME NEW b \in Block PROVE TokenStream(Append(list, b)) = TokenStream(list) \o Mark(b)
  <2> DEFINE more == Append(list, b)
             u == Marks(more)
             m == Marks(list)
             v == Append(m, Mark(b))
  <2>1. PICK n \in Nat : n = Len(list) /\ DOMAIN list = 1..n
    BY SeqIsFunction
  <2>2. /\ more \in Seq(Block) /\ Len(more) = n + 1 /\ DOMAIN more = 1..(n + 1)
        /\ more[n + 1] = b /\ \A i \in 1..n : more[i] = list[i]
    BY <2>1, AppendProperties
  <2>3. /\ m \in Seq(Seq(Marked)) /\ Len(m) = n /\ u \in Seq(Seq(Marked)) /\ Len(u) = n + 1
        /\ Mark(b) \in Seq(Marked)
    BY <1>2, <2>1, <2>2, MarkIs
  <2>4. (\A i \in 1..n : m[i] = Mark(list[i])) /\ \A i \in 1..(n + 1) : u[i] = Mark(more[i])
    BY <2>1, <2>2
  <2> HIDE DEF m, u, more
  <2>5. /\ v \in Seq(Seq(Marked)) /\ Len(v) = n + 1 /\ v[n + 1] = Mark(b)
        /\ \A i \in 1..n : v[i] = m[i]
    BY <2>3, AppendProperties
  <2>6. \A i \in 1..(n + 1) : u[i] = v[i]
    <3>1. \A i \in 1..(n + 1) : i \in 1..n \/ i = n + 1
      OBVIOUS
    <3> HIDE DEF v
    <3> QED BY <2>2, <2>4, <2>5, <3>1
  <2>7. u = v
    <3> HIDE DEF v
    <3> QED BY <2>3, <2>5, <2>6, SeqEqual
  <2>8. FlattenSeq(v) = FlattenSeq(m) \o Mark(b)
    BY <2>3, FlattenAppend
  <2>9. TokenStream(more) = FlattenSeq(u) /\ TokenStream(list) = FlattenSeq(m)
    BY <1>1, <2>2 DEF u, m
  <2> QED BY <2>7, <2>8, <2>9 DEF more
<1> QED BY <1>1, <1>3, <1>4

\* The stream of the first k blocks of a list: its tokens are those of their
\* texts, and each lies in the span of its block.
Streamed(list, k, stream, tokens) ==
    /\ stream \in Seq(Marked) /\ tokens \in Seq(Token)
    /\ Len(stream) = Len(tokens) /\ Len(tokens) = Offset(list, k + 1)
    /\ \A p \in 1..Len(tokens) :
        /\ stream[p].token = tokens[p]
        /\ \E m \in 1..k : p \in Span(list, m) /\ stream[p].block = list[m]
    /\ \A m \in 1..k : \A p \in Span(list, m) : p \in 1..Len(tokens) /\ stream[p].block = list[m]

\* The k-th block more.
LEMMA StreamGrows ==
    ASSUME NEW list \in Seq(Block), NEW k \in 1..Len(list), NEW s, NEW t,
           Streamed(list, k - 1, s, t), Offset(list, k + 1) = Offset(list, k) + Len(list[k].text)
    PROVE  Streamed(list, k, s \o Mark(list[k]), t \o list[k].text)
<1> DEFINE b == list[k]
           o == Len(t)
           l == Len(b.text)
           u == s \o Mark(b)
           v == t \o b.text
<1>1. b \in Block /\ Len(list) \in Nat
  BY SeqIsFunction
<1>2. /\ Mark(b) \in Seq(Marked) /\ Len(Mark(b)) = l /\ b.text \in Seq(Token) /\ l \in Nat
      /\ \A j \in 1..l : Mark(b)[j].token = b.text[j] /\ Mark(b)[j].block = b
  BY <1>1, MarkIs, FieldsOfBlock DEF Text
<1>3. /\ s \in Seq(Marked) /\ t \in Seq(Token) /\ o \in Nat /\ Len(s) = o /\ o = Offset(list, k)
      /\ \A p \in 1..o :
            /\ s[p].token = t[p]
            /\ \E m \in 1..(k - 1) : p \in Span(list, m) /\ s[p].block = list[m]
      /\ \A m \in 1..(k - 1) : \A p \in Span(list, m) : p \in 1..o /\ s[p].block = list[m]
  <2>1. (k - 1) + 1 = k
    OBVIOUS
  <2> QED BY <2>1 DEF Streamed
<1>4. Span(list, k) = (o + 1)..(o + l)
  BY <1>3 DEF Span
<1> HIDE DEF b, o, l
<1>5. /\ u \in Seq(Marked) /\ Len(u) = o + l
      /\ \A p \in 1..o : u[p] = s[p]
      /\ \A p \in (o + 1)..(o + l) : u[p] = Mark(b)[p - o]
  <2>1. u \in Seq(Marked) /\ Len(u) = o + l
    BY <1>2, <1>3, ConcatProperties
  <2>2. \A p \in 1..(o + l) : u[p] = IF p <= o THEN s[p] ELSE Mark(b)[p - o]
    BY <1>2, <1>3, ConcatProperties, SMTT(30)
  <2> HIDE DEF u
  <2>3. (\A p \in 1..o : p \in 1..(o + l) /\ p <= o)
        /\ \A p \in (o + 1)..(o + l) : p \in 1..(o + l) /\ ~(p <= o)
    BY <1>2, <1>3
  <2> QED BY <2>1, <2>2, <2>3
<1>6. /\ v \in Seq(Token) /\ Len(v) = o + l
      /\ \A p \in 1..o : v[p] = t[p]
      /\ \A p \in (o + 1)..(o + l) : v[p] = b.text[p - o]
  <2>1. v \in Seq(Token) /\ Len(v) = o + l
    BY <1>2, <1>3, ConcatProperties DEF o, l
  <2>2. \A p \in 1..(o + l) : v[p] = IF p <= o THEN t[p] ELSE b.text[p - o]
    BY <1>2, <1>3, ConcatProperties DEF o, l
  <2> HIDE DEF v
  <2>3. (\A p \in 1..o : p \in 1..(o + l) /\ p <= o)
        /\ \A p \in (o + 1)..(o + l) : p \in 1..(o + l) /\ ~(p <= o)
    BY <1>2, <1>3
  <2> QED BY <2>1, <2>2, <2>3
<1> HIDE DEF u, v
<1>7. \A p \in (o + 1)..(o + l) : p - o \in 1..l
  BY <1>2, <1>3
<1>8. \A p \in 1..(o + l) : p \in 1..o \/ p \in (o + 1)..(o + l)
  BY <1>2, <1>3
<1>9. \A p \in 1..(o + l) :
        /\ u[p].token = v[p]
        /\ \E m \in 1..k : p \in Span(list, m) /\ u[p].block = list[m]
  <2> SUFFICES ASSUME NEW p \in 1..(o + l)
               PROVE  /\ u[p].token = v[p]
                      /\ \E m \in 1..k : p \in Span(list, m) /\ u[p].block = list[m]
    OBVIOUS
  <2>1. CASE p \in 1..o
    <3>1. PICK m \in 1..(k - 1) : p \in Span(list, m) /\ s[p].block = list[m]
      BY <1>3, <2>1
    <3>2. m \in 1..k
      BY <1>1
    <3> QED BY <1>3, <1>5, <1>6, <2>1, <3>1, <3>2
  <2>2. CASE p \in (o + 1)..(o + l)
    <3>1. u[p].token = v[p] /\ u[p].block = list[k]
      BY <1>2, <1>5, <1>6, <1>7, <2>2 DEF b
    <3>2. k \in 1..k
      BY <1>1
    <3> QED BY <1>4, <2>2, <3>1, <3>2
  <2> QED BY <1>8, <2>1, <2>2
<1>10. \A m \in 1..k : \A p \in Span(list, m) : p \in 1..(o + l) /\ u[p].block = list[m]
  <2> SUFFICES ASSUME NEW m \in 1..k, NEW p \in Span(list, m)
               PROVE  p \in 1..(o + l) /\ u[p].block = list[m]
    OBVIOUS
  <2>1. CASE m \in 1..(k - 1)
    <3>1. p \in 1..o /\ s[p].block = list[m]
      BY <1>3, <2>1
    <3>2. p \in 1..(o + l)
      BY <1>2, <1>3, <3>1
    <3> QED BY <1>5, <3>1, <3>2
  <2>2. CASE m = k
    <3>1. p \in (o + 1)..(o + l)
      BY <1>4, <2>2
    <3>2. p \in 1..(o + l)
      BY <1>2, <1>3, <3>1
    <3> QED BY <1>2, <1>5, <1>7, <2>2, <3>1, <3>2 DEF b
  <2>3. m \in 1..(k - 1) \/ m = k
    BY <1>1
  <2> QED BY <2>1, <2>2, <2>3
<1>11. Len(v) = Offset(list, k + 1)
  BY <1>3, <1>6 DEF b, l
<1> QED BY <1>5, <1>6, <1>9, <1>10, <1>11 DEF Streamed, u, v, b

\* The offset of the next block.
LEMMA OffsetNext ==
    ASSUME NEW list \in Seq(Block), NEW k \in 1..Len(list)
    PROVE  /\ SubSeq(list, 1, k) = Append(SubSeq(list, 1, k - 1), list[k])
           /\ SubSeq(list, 1, k - 1) \in Seq(Block) /\ list[k] \in Block
           /\ Offset(list, k + 1) = Offset(list, k) + Len(list[k].text)
           /\ FlattenSeq(TextsOf(SubSeq(list, 1, k))) =
                FlattenSeq(TextsOf(SubSeq(list, 1, k - 1))) \o list[k].text
<1> DEFINE p == SubSeq(list, 1, k - 1)
           q == SubSeq(list, 1, k)
           b == list[k]
<1>1. p \in Seq(Block) /\ q \in Seq(Block) /\ Len(p) = k - 1 /\ Len(q) = k /\ b \in Block
      /\ k - 1 \in Nat
  OBVIOUS
<1>2. q = Append(p, b)
  <2>1. Len(q) = (k - 1) + 1 /\ SubSeq(q, 1, k - 1) = p /\ q[(k - 1) + 1] = b
    OBVIOUS
  <2> HIDE DEF p, q, b
  <2> QED BY <1>1, <2>1, LastOf
<1> HIDE DEF p, q, b
<1>3. TextsOf(q) = Append(TextsOf(p), b.text) /\ TextsOf(p) \in Seq(Text) /\ b.text \in Text
  BY <1>1, <1>2, TextsAppend, FieldsOfBlock
<1>4. FlattenSeq(TextsOf(q)) = FlattenSeq(TextsOf(p)) \o b.text
  BY <1>3, FlattenAppend DEF Text
<1>5. FlattenSeq(TextsOf(p)) \in Seq(Token) /\ b.text \in Seq(Token)
  BY <1>3, Filtering!FlattenIsSeq DEF FlattenSeq, Filtering!FlattenSeq, Text
<1>6. Len(FlattenSeq(TextsOf(q))) = Len(FlattenSeq(TextsOf(p))) + Len(b.text)
  BY <1>4, <1>5, ConcatProperties
<1>7. (k + 1) - 1 = k
  OBVIOUS
<1>8. Offset(list, k + 1) = Len(FlattenSeq(TextsOf(q))) /\ Offset(list, k) = Len(FlattenSeq(TextsOf(p)))
  BY <1>7 DEF Offset, p, q
<1> QED BY <1>1, <1>2, <1>4, <1>6, <1>8 DEF p, q, b

\* The stream of a document.
LEMMA StreamIs ==
    ASSUME NEW list \in Seq(Block)
    PROVE  Streamed(list, Len(list), TokenStream(list), FlattenSeq(TextsOf(list)))
<1> DEFINE n == Len(list)
           S(k) == TokenStream(SubSeq(list, 1, k))
           T(k) == FlattenSeq(TextsOf(SubSeq(list, 1, k)))
           K == {k \in Nat : Streamed(list, k, S(k), T(k))}
<1>1. n \in Nat
  OBVIOUS
<1>2. 0 \in K
  <2>1. SubSeq(list, 1, 0) = <<>>
    OBVIOUS
  <2>2. TextsOf(<<>>) = <<>> /\ TokenStream(<<>>) = <<>>
    <3>1. TextsOf(<<>>) = <<>>
      BY DEF TextsOf
    <3>2. TokenStream(<<>>) = FlattenSeq(<<>>)
      BY DEF TokenStream
    <3> QED BY <3>1, <3>2, FlattenOne
  <2>3. S(0) = <<>> /\ T(0) = <<>>
    BY <2>1, <2>2, FlattenOne
  <2>4. Offset(list, 0 + 1) = 0
    <3>1. 0 + 1 = 1 /\ 1 - 1 = 0
      OBVIOUS
    <3>2. Offset(list, 1) = Len(FlattenSeq(TextsOf(SubSeq(list, 1, 1 - 1))))
      BY DEF Offset
    <3>3. FlattenSeq(TextsOf(SubSeq(list, 1, 0))) = <<>>
      BY <2>1, <2>2, FlattenOne
    <3> HIDE DEF S, T
    <3>4. Len(<<>>) = 0
      OBVIOUS
    <3> QED BY <3>1, <3>2, <3>3, <3>4
  <2>5. <<>> \in Seq(Marked) /\ <<>> \in Seq(Token) /\ Len(<<>>) = 0 /\ 1..0 = {}
    OBVIOUS
  <2> HIDE DEF S, T
  <2>6. Streamed(list, 0, S(0), T(0))
    BY <2>3, <2>4, <2>5 DEF Streamed
  <2> QED BY <2>6
<1>3. ASSUME NEW k \in 1..n, k - 1 \in K PROVE k \in K
  <2>0. k \in Nat /\ (Streamed(list, k, S(k), T(k)) => k \in K)
    OBVIOUS
  <2>1. Streamed(list, k - 1, S(k - 1), T(k - 1))
    BY <1>3
  <2>2. /\ SubSeq(list, 1, k) = Append(SubSeq(list, 1, k - 1), list[k])
        /\ SubSeq(list, 1, k - 1) \in Seq(Block) /\ list[k] \in Block
        /\ Offset(list, k + 1) = Offset(list, k) + Len(list[k].text)
        /\ T(k) = T(k - 1) \o list[k].text
    BY OffsetNext
  <2>3. S(k) = S(k - 1) \o Mark(list[k])
    BY <2>2, StreamAppend
  <2> HIDE DEF S, T, K
  <2>4. Streamed(list, k, S(k - 1) \o Mark(list[k]), T(k - 1) \o list[k].text)
    BY <2>1, <2>2, StreamGrows
  <2> QED BY ONLY <2>0, <2>2, <2>3, <2>4
<1>4. n \in K
  <2> HIDE DEF K
  <2>1. 0..n \subseteq K
    BY <1>1, <1>2, <1>3, Filtering!UpTo
  <2> QED BY <1>1, <2>1
<1>5. SubSeq(list, 1, n) = list
  OBVIOUS
<1> QED BY <1>4, <1>5


----------------------------------------------------------------------------
(* The windows of the fixed chunker *)

\* One element of the list that is made to name each once.
DistinctTurn(p, acc, e) == IF Contains(acc, e) THEN acc ELSE Append(acc, e)

Listed == INSTANCE SequenceFolds WITH Op <- DistinctTurn

\* What each element of a list adds to it.
LEMMA DistinctAppends ==
    /\ Distinct(<<>>) = <<>>
    /\ \A S : \A s \in Seq(S), x \in S : Distinct(Append(s, x)) = DistinctTurn(0, Distinct(s), x)
<1>1. \A s : Distinct(s) = Listed!Folded(0, <<>>, s)
  BY DEF Distinct, DistinctTurn, Listed!Folded, FoldLeft, MapThenFoldSet, Max,
         Listed!FoldLeft, Listed!MapThenFoldSet, Listed!Max
<1>2. Listed!Folded(0, <<>>, <<>>) = <<>>
  BY Listed!FoldAppends
<1>3. ASSUME NEW S, NEW s \in Seq(S), NEW x \in S
      PROVE  Listed!Folded(0, <<>>, Append(s, x)) = DistinctTurn(0, Listed!Folded(0, <<>>, s), x)
  BY Listed!FoldAppends
<1> QED BY <1>1, <1>2, <1>3

\* The list names what was listed.
LEMMA DistinctNames ==
    \A S : \A s \in Seq(S) : Distinct(s) \in Seq(S) /\ ToSet(Distinct(s)) = ToSet(s)
<1> SUFFICES ASSUME NEW S
             PROVE  \A s \in Seq(S) : Distinct(s) \in Seq(S) /\ ToSet(Distinct(s)) = ToSet(s)
  OBVIOUS
<1> DEFINE K == {s \in Seq(S) : Distinct(s) \in Seq(S) /\ ToSet(Distinct(s)) = ToSet(s)}
<1>1. <<>> \in K
  <2>1. <<>> \in Seq(S) /\ Distinct(<<>>) = <<>>
    BY DistinctAppends
  <2> QED BY <2>1
<1>2. ASSUME NEW s \in Seq(S), NEW x \in S, s \in K PROVE Append(s, x) \in K
  <2> DEFINE d == Distinct(s)
             t == Append(s, x)
             e == Append(d, x)
  <2>1. d \in Seq(S) /\ ToSet(d) = ToSet(s) /\ t \in Seq(S) /\ e \in Seq(S)
    BY <1>2, AppendProperties
  <2>2. Distinct(t) = IF Contains(d, x) THEN d ELSE e
    BY DistinctAppends DEF DistinctTurn
  <2> HIDE DEF d, t, e
  <2>3. /\ ToSet(t) = ToSet(s) \cup {x} /\ ToSet(e) = ToSet(d) \cup {x}
        /\ Contains(d, x) <=> x \in ToSet(d)
    <3>1. \A y : /\ y \in ToSet(t) <=> y \in ToSet(s) \/ y = x
                 /\ y \in ToSet(e) <=> y \in ToSet(d) \/ y = x
      <4>1. \A r \in Seq(S) : \A y : Contains(r, y) <=> y \in ToSet(r)
        BY ContainsAppended
      <4>2. \A y : Contains(t, y) <=> Contains(s, y) \/ y = x
        BY ContainsAppended DEF t
      <4>3. \A y : Contains(e, y) <=> Contains(d, y) \/ y = x
        BY <2>1, ContainsAppended DEF e
      <4> QED BY <2>1, <4>1, <4>2, <4>3
    <3>2. Contains(d, x) <=> x \in ToSet(d)
      BY <2>1, ContainsAppended
    <3> QED BY <3>1, <3>2
  <2>4. Distinct(t) \in Seq(S) /\ ToSet(Distinct(t)) = ToSet(t)
    BY <2>1, <2>2, <2>3
  <2> QED BY <2>1, <2>4 DEF t
<1> HIDE DEF K
<1>3. Seq(S) \subseteq K
  BY <1>1, <1>2, ListInduction
<1> QED BY <1>3 DEF K

\* The i-th window, and the blocks it names.
WindowAt(cs, list, i) ==
    LET stream == FlattenSeq(TextsOf(list))
        start  == (i - 1) * Stride(ChunkMax)
        stop   == start + Len(cs[i].text)
    IN /\ cs[i].text = SubSeq(stream, start + 1, stop)
       /\ Len(cs[i].text) <= ChunkMax
       /\ i = Len(cs) => stop = Len(stream)
       /\ ToSet(cs[i].blocks) =
            {list[k] : k \in {m \in DOMAIN list : Span(list, m) \cap (start + 1)..stop # {}}}

\* The blocks of the tokens from start + 1 to stop.
LEMMA SourcesAre ==
    ASSUME NEW list \in Seq(Block), NEW start \in Nat, NEW size \in Nat \ {0},
           start + size <= Len(TokenStream(list))
    PROVE  /\ ToSet(SourceBlocks(TokenStream(list), start, size)) =
                {list[k] : k \in {m \in DOMAIN list :
                                    Span(list, m) \cap (start + 1)..(start + size) # {}}}
           /\ SourceBlocks(TokenStream(list), start, size) \in Seq(Block)
           /\ SourceBlocks(TokenStream(list), start, size) # <<>>
<1> DEFINE stream == TokenStream(list)
           text == FlattenSeq(TextsOf(list))
           window == SubSeq(stream, start + 1, start + size)
           named == [i \in DOMAIN window |-> window[i].block]
           n == Len(list)
<1>1. Streamed(list, n, stream, text)
  BY StreamIs
<1> HIDE DEF stream, text
<1>2. /\ stream \in Seq(Marked) /\ Len(stream) = Len(text) /\ n \in Nat /\ DOMAIN list = 1..n
      /\ Len(text) \in Nat
      /\ \A p \in 1..Len(text) : \E m \in 1..n : p \in Span(list, m) /\ stream[p].block = list[m]
      /\ \A m \in 1..n : \A p \in Span(list, m) : stream[p].block = list[m]
  <2>1. text \in Seq(Token)
    BY <1>1 DEF Streamed
  <2> QED BY <1>1, <2>1, SeqIsFunction DEF Streamed
<1>3. start + size <= Len(text) /\ start + size \in Nat
  BY <1>2 DEF stream
<1>4. SourceBlocks(stream, start, size) = Distinct(named)
  <2>1. Min({start + size, Len(text)}) = start + size
    BY <1>2, <1>3, MinOfTwo
  <2> QED BY <1>2, <2>1 DEF SourceBlocks
<1>5. /\ window \in Seq(Marked) /\ Len(window) = size /\ DOMAIN window = 1..size
      /\ \A i \in 1..size : window[i] = stream[start + i] /\ start + i \in 1..Len(text)
  <2>1. start + 1 \in 1..(Len(stream) + 1) /\ start + size \in start..Len(stream)
    BY <1>2, <1>3
  <2> QED BY <1>2, <1>3, <2>1
<1> HIDE DEF window
<1>6. /\ named \in Seq(Block)
      /\ \A i \in 1..size : named[i] = stream[start + i].block
      /\ DOMAIN named = 1..size
  <2>1. \A i \in 1..size : window[i].block \in Block
    <3>1. \A r \in Marked : r.block \in Block
      BY DEF Marked
    <3>2. \A i \in 1..size : window[i] \in Marked
      BY <1>5, SeqIsFunction
    <3> QED BY <3>1, <3>2
  <2>2. Listing(named, size, Block)
    BY <1>5, <2>1 DEF Listing
  <2>3. named \in Seq(Block)
    BY <2>2, ListingIsSeq
  <2> QED BY <1>5, <2>3
<1> HIDE DEF named
<1>7. Distinct(named) \in Seq(Block) /\ ToSet(Distinct(named)) = ToSet(named)
  BY <1>6, DistinctNames
<1> DEFINE R == {m \in DOMAIN list : Span(list, m) \cap (start + 1)..(start + size) # {}}
           B == {list[k] : k \in R}
<1>8. ASSUME NEW x \in ToSet(named) PROVE x \in B
  <2>1. PICK i \in 1..size : x = stream[start + i].block
    BY <1>6, <1>8 DEF ToSet
  <2>2. PICK m \in 1..n : start + i \in Span(list, m) /\ x = list[m]
    BY <1>2, <1>5, <2>1
  <2>3. start + i \in (start + 1)..(start + size)
    OBVIOUS
  <2>4. m \in R
    BY <1>2, <2>2, <2>3
  <2> QED BY <2>2, <2>4
<1>9. ASSUME NEW x \in B PROVE x \in ToSet(named)
  <2>1. PICK m \in R : x = list[m]
    BY <1>9
  <2>2. PICK p \in Span(list, m) : p \in (start + 1)..(start + size)
    BY <2>1
  <2>3. p - start \in 1..size /\ start + (p - start) = p
    BY <2>2
  <2>4. stream[p].block = x /\ named[p - start] = stream[start + (p - start)].block
    BY <1>2, <1>6, <2>1, <2>2, <2>3
  <2> QED BY <1>6, <2>3, <2>4 DEF ToSet
<1>10. ToSet(named) = B
  BY <1>8, <1>9
<1>11. Distinct(named) # <<>>
  <2>1. named[1] \in ToSet(named)
    BY <1>6 DEF ToSet
  <2>2. ToSet(<<>>) = {}
    BY DEF ToSet
  <2> QED BY <1>7, <2>1, <2>2
<1> QED BY <1>4, <1>7, <1>10, <1>11 DEF stream

\* What the fixed chunker cuts, and the chunks that are made of it.
LEMMA FixedCovers ==
    ASSUME NEW list \in Seq(Block)
    PROVE  /\ Whole(FixedChunks(list))
           /\ \A cs : MadeOf(cs, FixedChunks(list)) => \A i \in DOMAIN cs : WindowAt(cs, list, i)
<1> DEFINE stream == TokenStream(list)
           text == FlattenSeq(TextsOf(list))
           tokens == [i \in DOMAIN stream |-> stream[i].token]
           w == Windows(tokens, ChunkMax)
           raws == FixedChunks(list)
<1>1. Streamed(list, Len(list), stream, text)
  BY StreamIs
<1>2. /\ stream \in Seq(Marked) /\ text \in Seq(Token) /\ Len(stream) = Len(text)
      /\ \A p \in 1..Len(text) : stream[p].token = text[p]
  BY <1>1 DEF Streamed
<1> HIDE DEF stream, text
<1>3. PICK n \in Nat : n = Len(text) /\ DOMAIN stream = 1..n /\ \A p \in 1..n : text[p] \in Token
  BY <1>2, SeqIsFunction
<1>4. tokens = text
  <2>1. tokens \in Seq(Token) /\ Len(tokens) = n
    <3>1. \A p \in 1..n : tokens[p] \in Token
      BY <1>2, <1>3
    <3>2. Listing(tokens, n, Token)
      BY <1>3, <3>1 DEF Listing
    <3> QED BY <3>2, ListingIsSeq
  <2>2. \A p \in 1..n : tokens[p] = text[p]
    BY <1>2, <1>3
  <2> HIDE DEF tokens
  <2> QED BY <1>2, <1>3, <2>1, <2>2, SeqEqual
<1>5. WindowsOf(w, text, ChunkMax, Token)
  BY <1>2, <1>4, SizesAreNumbers, WindowsAre
<1>6. IsList(raws)
  BY FixedIsList
<1> DEFINE Start(i) == (i - 1) * Stride(ChunkMax)
<1>7. /\ DOMAIN raws = DOMAIN w
      /\ \A i \in DOMAIN w :
            /\ raws[i].text = w[i]
            /\ raws[i].blocks = SourceBlocks(stream, Start(i), Len(w[i]))
  BY DEF FixedChunks, stream
<1> HIDE DEF tokens, w, raws
<1>8. PICK m \in Nat : m = Len(w) /\ DOMAIN w = 1..m
  BY <1>5, SeqIsFunction DEF WindowsOf
<1>9. Len(raws) = m
  BY <1>6, <1>7, <1>8, ListPlaces
<1>10. ASSUME NEW i \in 1..m
       PROVE  /\ Start(i) \in Nat /\ Len(w[i]) \in 1..ChunkMax
              /\ Start(i) + Len(w[i]) <= Len(stream)
              /\ w[i] = SubSeq(text, Start(i) + 1, Start(i) + Len(w[i]))
              /\ i = m => Start(i) + Len(w[i]) = Len(text)
  BY <1>2, <1>5, <1>8 DEF WindowsOf
<1> HIDE DEF Start
<1>11. ASSUME NEW i \in 1..m
       PROVE  /\ raws[i].text # <<>> /\ raws[i].blocks # <<>>
              /\ ToSet(raws[i].blocks) =
                    {list[k] : k \in {j \in DOMAIN list :
                                Span(list, j) \cap (Start(i) + 1)..(Start(i) + Len(w[i])) # {}}}
  <2>1. Start(i) \in Nat /\ Len(w[i]) \in Nat \ {0} /\ Start(i) + Len(w[i]) <= Len(TokenStream(list))
    BY <1>10, SizesAreNumbers DEF stream
  <2>2. /\ ToSet(SourceBlocks(TokenStream(list), Start(i), Len(w[i]))) =
                {list[k] : k \in {j \in DOMAIN list :
                                Span(list, j) \cap (Start(i) + 1)..(Start(i) + Len(w[i])) # {}}}
        /\ SourceBlocks(TokenStream(list), Start(i), Len(w[i])) # <<>>
    BY <2>1, SourcesAre
  <2>3. raws[i].blocks = SourceBlocks(TokenStream(list), Start(i), Len(w[i])) /\ raws[i].text = w[i]
    BY <1>7, <1>8 DEF stream
  <2>4. Len(<<>>) = 0
    OBVIOUS
  <2> QED BY <2>1, <2>2, <2>3, <2>4
<1>12. Whole(raws)
  BY <1>6, <1>9, <1>11 DEF Whole
<1>13. ASSUME NEW cs, MadeOf(cs, raws), NEW i \in DOMAIN cs PROVE WindowAt(cs, list, i)
  <2>1. IsList(cs) /\ Len(cs) = m /\ \A k \in 1..m : MadeAs(cs, raws, k)
    BY <1>9, <1>13 DEF MadeOf
  <2>2. i \in 1..m
    BY <2>1, ListPlaces
  <2>3. cs[i].text = raws[i].text /\ cs[i].blocks = raws[i].blocks
    BY <2>1, <2>2 DEF MadeAs
  <2>4. cs[i].text = w[i]
    BY <1>7, <1>8, <2>2, <2>3
  <2>5. Len(w[i]) <= ChunkMax
    BY <1>10, <2>2, SizesAreNumbers
  <2> QED BY <1>3, <1>10, <1>11, <2>1, <2>2, <2>3, <2>4, <2>5 DEF WindowAt, text, Start
<1> QED BY <1>12, <1>13 DEF raws


----------------------------------------------------------------------------
(* The pieces of an oversized block *)

\* Where the piece behind another may begin: at its end, or within the overlap
\* before its end when it is a full window.
Joins(s, stop, len) == s = stop \/ (s \in (stop - Overlap)..stop /\ len >= ChunkTarget)

\* The pieces lie in the text where start says, each joined to the one before it.
Laid(parts, start, text) ==
    /\ parts \in Seq(Text)
    /\ \A i \in 1..Len(parts) :
        /\ start[i] \in Nat /\ Len(parts[i]) \in 1..ChunkMax
        /\ start[i] + Len(parts[i]) <= Len(text)
        /\ parts[i] = SubSeq(text, start[i] + 1, start[i] + Len(parts[i]))
        /\ i = 1 => start[i] = 0
        /\ i # 1 => Joins(start[i], start[i - 1] + Len(parts[i - 1]), Len(parts[i - 1]))

\* How far they reach.
Reach(parts, start) == IF parts = <<>> THEN 0 ELSE start[Len(parts)] + Len(parts[Len(parts)])

\* They are the whole text.
Tiles(parts, text) == \E start : Laid(parts, start, text) /\ Reach(parts, start) = Len(text)

\* A slice of a list.
LEMMA SliceIs ==
    \A S : \A z \in Seq(S) : \A a, l \in Nat : a + l <= Len(z) =>
        /\ SubSeq(z, a + 1, a + l) \in Seq(S) /\ Len(SubSeq(z, a + 1, a + l)) = l
        /\ \A i \in 1..l : SubSeq(z, a + 1, a + l)[i] = z[a + i] /\ a + i \in 1..Len(z)
<1> SUFFICES ASSUME NEW S, NEW z \in Seq(S), NEW a \in Nat, NEW l \in Nat, a + l <= Len(z)
             PROVE  /\ SubSeq(z, a + 1, a + l) \in Seq(S) /\ Len(SubSeq(z, a + 1, a + l)) = l
                    /\ \A i \in 1..l : SubSeq(z, a + 1, a + l)[i] = z[a + i]
                                      /\ a + i \in 1..Len(z)
  OBVIOUS
<1>1. a + 1 \in Int /\ a + l \in Int /\ Len(z) \in Nat
  OBVIOUS
<1>2. \A i \in 1..l : a + i \in 1..Len(z)
  BY <1>1
<1>3. SubSeq(z, a + 1, a + l) \in Seq(S)
  BY <1>1, SMTT(30)
<1>4. Len(SubSeq(z, a + 1, a + l)) = l
  BY <1>1, SMTT(30)
<1>5. \A i \in 1..l : SubSeq(z, a + 1, a + l)[i] = z[a + i]
  BY <1>1, <1>2, <1>4, SMTT(30)
<1> QED BY <1>2, <1>3, <1>4, <1>5

\* Two slices, one behind the other.
LEMMA SlicesJoin ==
    \A S : \A z \in Seq(S) : \A a, l, m \in Nat : (a + l) + m <= Len(z) =>
        SubSeq(z, a + 1, a + l) \o SubSeq(z, (a + l) + 1, (a + l) + m)
            = SubSeq(z, a + 1, (a + l) + m)
<1> SUFFICES ASSUME NEW S, NEW z \in Seq(S), NEW a \in Nat, NEW l \in Nat, NEW m \in Nat,
                    (a + l) + m <= Len(z)
    PROVE  SubSeq(z, a + 1, a + l) \o SubSeq(z, (a + l) + 1, (a + l) + m)
                = SubSeq(z, a + 1, (a + l) + m)
  OBVIOUS
<1> DEFINE u == SubSeq(z, a + 1, a + l)
           v == SubSeq(z, (a + l) + 1, (a + l) + m)
           w == SubSeq(z, a + 1, (a + l) + m)
           c == u \o v
<1>0. /\ a + l \in Nat /\ l + m \in Nat /\ a + l <= Len(z) /\ a + (l + m) = (a + l) + m
      /\ Len(z) \in Nat
  OBVIOUS
<1>1. u \in Seq(S) /\ Len(u) = l /\ \A i \in 1..l : u[i] = z[a + i]
  BY <1>0, SliceIs
<1>2. v \in Seq(S) /\ Len(v) = m /\ \A i \in 1..m : v[i] = z[(a + l) + i]
  BY <1>0, SliceIs
<1>3. w \in Seq(S) /\ Len(w) = l + m /\ \A i \in 1..(l + m) : w[i] = z[a + i]
  <2>1. a + (l + m) <= Len(z)
    BY <1>0
  <2>2. SubSeq(z, a + 1, a + (l + m)) = w
    BY <1>0
  <2>3. /\ SubSeq(z, a + 1, a + (l + m)) \in Seq(S) /\ Len(SubSeq(z, a + 1, a + (l + m))) = l + m
        /\ \A i \in 1..(l + m) : SubSeq(z, a + 1, a + (l + m))[i] = z[a + i]
    <3> DEFINE k == l + m
    <3>1. k \in Nat /\ a + k <= Len(z)
      BY <1>0, <2>1
    <3> HIDE DEF k
    <3>2. /\ SubSeq(z, a + 1, a + k) \in Seq(S) /\ Len(SubSeq(z, a + 1, a + k)) = k
          /\ \A i \in 1..k : SubSeq(z, a + 1, a + k)[i] = z[a + i]
      BY <3>1, SliceIs
    <3> QED BY <3>2 DEF k
  <2> QED BY ONLY <2>2, <2>3
<1> HIDE DEF u, v, w
<1>4. c \in Seq(S) /\ Len(c) = l + m
      /\ \A i \in 1..(l + m) : c[i] = IF i <= l THEN u[i] ELSE v[i - l]
  BY <1>1, <1>2, ConcatProperties
<1> HIDE DEF c
<1>5. \A i \in 1..(l + m) : c[i] = w[i]
  <2> SUFFICES ASSUME NEW i \in 1..(l + m) PROVE c[i] = w[i]
    OBVIOUS
  <2>1. CASE i <= l
    <3>1. i \in 1..l
      BY <2>1
    <3> QED BY <1>1, <1>3, <1>4, <2>1, <3>1
  <2>2. CASE ~(i <= l)
    <3>1. i - l \in 1..m /\ (a + l) + (i - l) = a + i
      BY <2>2
    <3> QED BY <1>2, <1>3, <1>4, <2>2, <3>1
  <2> QED BY <2>1, <2>2
<1>6. c = w
  BY <1>3, <1>4, <1>5, SeqEqual
<1> QED BY <1>6 DEF c, u, v, w

\* What lies where in two texts, one behind the other.
LEMMA SubSeqConcat ==
    \A x, y \in Text : \A a, l \in Nat :
        /\ a + l <= Len(x) => SubSeq(x \o y, a + 1, a + l) = SubSeq(x, a + 1, a + l)
        /\ a + l <= Len(y) => SubSeq(x \o y, (Len(x) + a) + 1, (Len(x) + a) + l) = SubSeq(y, a + 1, a + l)
<1> SUFFICES ASSUME NEW x \in Seq(Token), NEW y \in Seq(Token), NEW a \in Nat, NEW l \in Nat
    PROVE  /\ a + l <= Len(x) => SubSeq(x \o y, a + 1, a + l) = SubSeq(x, a + 1, a + l)
           /\ a + l <= Len(y) => SubSeq(x \o y, (Len(x) + a) + 1, (Len(x) + a) + l) = SubSeq(y, a + 1, a + l)
  BY DEF Text
<1> DEFINE z == x \o y
<1>1. z \in Seq(Token) /\ Len(z) = Len(x) + Len(y) /\ Len(x) \in Nat /\ Len(y) \in Nat
      /\ \A i \in 1..Len(z) : z[i] = IF i <= Len(x) THEN x[i] ELSE y[i - Len(x)]
  BY ConcatProperties
<1> HIDE DEF z
<1>2. ASSUME a + l <= Len(x) PROVE SubSeq(z, a + 1, a + l) = SubSeq(x, a + 1, a + l)
  <2> DEFINE u == SubSeq(z, a + 1, a + l)
             v == SubSeq(x, a + 1, a + l)
  <2>1. u \in Seq(Token) /\ Len(u) = l /\ \A i \in 1..l : u[i] = z[a + i]
    BY <1>1, <1>2
  <2>2. v \in Seq(Token) /\ Len(v) = l /\ \A i \in 1..l : v[i] = x[a + i]
    BY <1>1, <1>2
  <2>3. \A i \in 1..l : z[a + i] = x[a + i]
    BY <1>1, <1>2
  <2> HIDE DEF u, v
  <2>4. u = v
    BY <2>1, <2>2, <2>3, SeqEqual
  <2> QED BY <2>4 DEF u, v
<1>3. ASSUME a + l <= Len(y)
      PROVE  SubSeq(z, (Len(x) + a) + 1, (Len(x) + a) + l) = SubSeq(y, a + 1, a + l)
  <2> DEFINE u == SubSeq(z, (Len(x) + a) + 1, (Len(x) + a) + l)
             v == SubSeq(y, a + 1, a + l)
  <2>1. u \in Seq(Token) /\ Len(u) = l /\ \A i \in 1..l : u[i] = z[(Len(x) + a) + i]
    <3>1. Len(x) + a \in Nat /\ (Len(x) + a) + l <= Len(z)
      BY <1>1, <1>3
    <3> QED BY <1>1, <3>1, SliceIs
  <2>2. v \in Seq(Token) /\ Len(v) = l /\ \A i \in 1..l : v[i] = y[a + i]
    BY <1>1, <1>3
  <2>3. \A i \in 1..l : z[(Len(x) + a) + i] = y[a + i]
    <3> SUFFICES ASSUME NEW i \in 1..l PROVE z[(Len(x) + a) + i] = y[a + i]
      OBVIOUS
    <3> DEFINE j == (Len(x) + a) + i
    <3>1. j \in 1..Len(z) /\ ~(j <= Len(x)) /\ j - Len(x) = a + i
      BY <1>1, <1>3
    <3> HIDE DEF j
    <3>2. z[j] = y[a + i]
      BY <1>1, <3>1
    <3> QED BY <3>2 DEF j
  <2> HIDE DEF u, v
  <2>4. u = v
    BY <2>1, <2>2, <2>3, SeqEqual
  <2> QED BY <2>4 DEF u, v
<1> QED BY <1>2, <1>3 DEF z

\* The last piece of some, and how far they reach.
LEMMA ReachIs ==
    ASSUME NEW parts \in Seq(Text), NEW start
    PROVE  /\ Len(parts) \in Nat /\ (parts = <<>> <=> Len(parts) = 0)
           /\ Len(parts) # 0 => Reach(parts, start) = start[Len(parts)] + Len(parts[Len(parts)])
           /\ Len(parts) = 0 => Reach(parts, start) = 0
<1>1. Len(parts) \in Nat /\ (parts = <<>> <=> Len(parts) = 0)
  OBVIOUS
<1> QED BY <1>1 DEF Reach

\* One piece more.
LEMMA LaidAppends ==
    ASSUME NEW parts, NEW start, NEW text, Laid(parts, start, text),
           NEW p \in Text, NEW s \in Nat, Len(p) \in 1..ChunkMax, s + Len(p) <= Len(text),
           p = SubSeq(text, s + 1, s + Len(p)),
           parts = <<>> => s = 0,
           parts # <<>> => Joins(s, Reach(parts, start), Len(parts[Len(parts)]))
    PROVE  \E st : Laid(Append(parts, p), st, text) /\ Reach(Append(parts, p), st) = s + Len(p)
<1> DEFINE n == Len(parts)
           more == Append(parts, p)
           st == [i \in 1..(n + 1) |-> IF i = n + 1 THEN s ELSE start[i]]
<1>1. parts \in Seq(Text) /\ n \in Nat /\ (parts = <<>> <=> n = 0)
  BY ReachIs DEF Laid
<1>2. /\ more \in Seq(Text) /\ Len(more) = n + 1 /\ more[n + 1] = p
      /\ \A i \in 1..n : more[i] = parts[i]
  BY <1>1, AppendProperties
<1>3. st[n + 1] = s /\ \A i \in 1..n : st[i] = start[i]
  BY <1>1
<1>4. n # 0 => Joins(s, start[n] + Len(parts[n]), Len(parts[n]))
  BY <1>1, ReachIs
<1> HIDE DEF n, more, st
<1>5. ASSUME NEW i \in 1..(n + 1)
      PROVE  /\ st[i] \in Nat /\ Len(more[i]) \in 1..ChunkMax
             /\ st[i] + Len(more[i]) <= Len(text)
             /\ more[i] = SubSeq(text, st[i] + 1, st[i] + Len(more[i]))
             /\ i = 1 => st[i] = 0
             /\ i # 1 => Joins(st[i], st[i - 1] + Len(more[i - 1]), Len(more[i - 1]))
  <2>1. CASE i \in 1..n
    <3>1. /\ start[i] \in Nat /\ Len(parts[i]) \in 1..ChunkMax
          /\ start[i] + Len(parts[i]) <= Len(text)
          /\ parts[i] = SubSeq(text, start[i] + 1, start[i] + Len(parts[i]))
          /\ i = 1 => start[i] = 0
          /\ i # 1 => Joins(start[i], start[i - 1] + Len(parts[i - 1]), Len(parts[i - 1]))
      BY <2>1 DEF Laid, n
    <3>2. more[i] = parts[i] /\ st[i] = start[i]
      BY <1>2, <1>3, <2>1
    <3>3. i # 1 => more[i - 1] = parts[i - 1] /\ st[i - 1] = start[i - 1]
      <4>1. i # 1 => i - 1 \in 1..n
        BY <1>1, <2>1
      <4> QED BY <1>2, <1>3, <4>1
    <3> QED BY ONLY <3>1, <3>2, <3>3
  <2>2. CASE i = n + 1
    <3>1. i # 1 => n \in 1..n /\ i - 1 = n /\ n # 0
      BY <1>1, <2>2
    <3>2. i = 1 => parts = <<>>
      BY <1>1, <2>2
    <3>3. i # 1 => Joins(st[i], st[i - 1] + Len(more[i - 1]), Len(more[i - 1]))
      BY <1>2, <1>3, <1>4, <2>2, <3>1
    <3> QED BY <1>2, <1>3, <2>2, <3>2, <3>3
  <2> QED BY <1>1, <2>1, <2>2
<1>6. Laid(more, st, text)
  BY <1>2, <1>5 DEF Laid
<1>7. Reach(more, st) = s + Len(p)
  BY <1>1, <1>2, <1>3, ReachIs
<1> QED BY <1>6, <1>7 DEF more

\* The first piece.
LEMMA LaidFirst ==
    ASSUME NEW text, NEW p \in Text, Len(p) \in 1..ChunkMax, Len(p) <= Len(text),
           p = SubSeq(text, 1, Len(p))
    PROVE  \E st : Laid(<<p>>, st, text) /\ Reach(<<p>>, st) = Len(p)
<1> DEFINE st == <<0>>
           one == <<p>>
<1>1. Len(p) \in Nat
  BY SizesAreNumbers
<1>2. one \in Seq(Text) /\ Len(one) = 1 /\ one[1] = p /\ st[1] = 0 /\ one # <<>>
  OBVIOUS
<1>3. 0 + Len(p) = Len(p) /\ 0 + 1 = 1
  BY <1>1
<1> HIDE DEF st, one
<1>4. ASSUME NEW i \in 1..Len(one)
      PROVE  /\ st[i] \in Nat /\ Len(one[i]) \in 1..ChunkMax
             /\ st[i] + Len(one[i]) <= Len(text)
             /\ one[i] = SubSeq(text, st[i] + 1, st[i] + Len(one[i]))
             /\ i = 1 => st[i] = 0
             /\ i # 1 => Joins(st[i], st[i - 1] + Len(one[i - 1]), Len(one[i - 1]))
  <2>1. i = 1
    BY <1>2
  <2> QED BY <1>2, <1>3, <2>1
<1>5. Laid(one, st, text) /\ Reach(one, st) = Len(p)
  BY <1>2, <1>3, <1>4 DEF Laid, Reach
<1> QED BY <1>5 DEF one

\* The last piece with another one behind it.
Joined(parts, p) == [parts EXCEPT ![Len(parts)] = @ \o p]

\* The last piece grows by what begins where it ends.
LEMMA LaidGrows ==
    ASSUME NEW parts, NEW start, NEW text \in Text, Laid(parts, start, text), parts # <<>>,
           NEW p \in Text, NEW s \in Nat, s = Reach(parts, start), s + Len(p) <= Len(text),
           p = SubSeq(text, s + 1, s + Len(p)),
           Len(parts[Len(parts)]) + Len(p) <= ChunkMax
    PROVE  Laid(Joined(parts, p), start, text) /\ Reach(Joined(parts, p), start) = s + Len(p)
<1> DEFINE n == Len(parts)
           last == parts[n]
           more == [parts EXCEPT ![n] = @ \o p]
<1>1. parts \in Seq(Text) /\ n \in Nat /\ n # 0 /\ n \in 1..n /\ DOMAIN parts = 1..n
  BY ReachIs, SeqIsFunction DEF Laid
<1>2. /\ start[n] \in Nat /\ Len(last) \in 1..ChunkMax /\ start[n] + Len(last) = s
      /\ Len(last) \in Nat
      /\ last = SubSeq(text, start[n] + 1, s) /\ last \in Text
  <2>1. /\ start[n] \in Nat /\ Len(parts[n]) \in 1..ChunkMax
        /\ parts[n] = SubSeq(text, start[n] + 1, start[n] + Len(parts[n]))
    BY <1>1 DEF Laid
  <2>2. s = start[n] + Len(parts[n])
    BY <1>1, ReachIs
  <2>3. parts[n] \in Text
    BY <1>1, SeqIsFunction
  <2>4. \A k \in 1..ChunkMax : k \in Nat
    BY SizesAreNumbers
  <2> HIDE DEF n
  <2> QED BY <2>1, <2>2, <2>3, <2>4
<1>3. /\ last \o p \in Text /\ Len(last \o p) = Len(last) + Len(p) /\ Len(p) \in Nat
  <2>1. last \in Seq(Token) /\ p \in Seq(Token)
    BY <1>2 DEF Text
  <2> HIDE DEF last
  <2> QED BY <2>1, ConcatProperties DEF Text
<1>4. last \o p = SubSeq(text, start[n] + 1, s + Len(p))
  <2>1. text \in Seq(Token) /\ Len(text) \in Nat
    BY DEF Text
  <2> HIDE DEF n, last
  <2>2. SubSeq(text, start[n] + 1, start[n] + Len(last))
            \o SubSeq(text, (start[n] + Len(last)) + 1, (start[n] + Len(last)) + Len(p))
            = SubSeq(text, start[n] + 1, (start[n] + Len(last)) + Len(p))
    <3>1. start[n] \in Nat /\ Len(last) \in Nat /\ Len(p) \in Nat
          /\ (start[n] + Len(last)) + Len(p) <= Len(text)
      BY <1>2, <1>3
    <3> DEFINE a == start[n]
               l == Len(last)
               m == Len(p)
    <3> HIDE DEF a, l, m
    <3>2. a \in Nat /\ l \in Nat /\ m \in Nat /\ (a + l) + m <= Len(text) /\ text \in Seq(Token)
      BY <2>1, <3>1 DEF a, l, m
    <3>3. SubSeq(text, a + 1, a + l) \o SubSeq(text, (a + l) + 1, (a + l) + m)
            = SubSeq(text, a + 1, (a + l) + m)
      BY ONLY <3>2, SlicesJoin
    <3> QED BY <3>3 DEF a, l, m
  <2> QED BY <1>2, <2>2
<1>5. more \in Seq(Text) /\ Len(more) = n /\ more[n] = last \o p
      /\ \A i \in 1..(n - 1) : more[i] = parts[i]
  <2>1. more = [i \in 1..n |-> IF i = n THEN last \o p ELSE parts[i]]
    BY <1>1
  <2>2. \A i \in 1..n : more[i] \in Text
    BY <1>1, <1>3, <2>1, SeqIsFunction
  <2>3. Listing(more, n, Text)
    BY <2>1, <2>2 DEF Listing
  <2>4. \A i \in 1..(n - 1) : i \in 1..n /\ i # n
    <3> HIDE DEF n
    <3> QED BY <1>1
  <2>5. more \in Seq(Text) /\ Len(more) = n
    BY <1>1, <2>3, ListingIsSeq
  <2> QED BY <1>1, <2>1, <2>4, <2>5
<1> HIDE DEF n, last, more
<1>6. ASSUME NEW i \in 1..n
      PROVE  /\ start[i] \in Nat /\ Len(more[i]) \in 1..ChunkMax
             /\ start[i] + Len(more[i]) <= Len(text)
             /\ more[i] = SubSeq(text, start[i] + 1, start[i] + Len(more[i]))
             /\ i = 1 => start[i] = 0
             /\ i # 1 => Joins(start[i], start[i - 1] + Len(more[i - 1]), Len(more[i - 1]))
  <2>1. /\ start[i] \in Nat /\ Len(parts[i]) \in 1..ChunkMax
        /\ start[i] + Len(parts[i]) <= Len(text)
        /\ parts[i] = SubSeq(text, start[i] + 1, start[i] + Len(parts[i]))
        /\ i = 1 => start[i] = 0
        /\ i # 1 => Joins(start[i], start[i - 1] + Len(parts[i - 1]), Len(parts[i - 1]))
    BY DEF Laid, n
  <2>2. i # 1 => more[i - 1] = parts[i - 1]
    <3>1. i # 1 => i - 1 \in 1..(n - 1)
      BY <1>1
    <3> QED BY <1>5, <3>1
  <2>3. CASE i = n
    <3>0. Len(more[i]) = Len(last) + Len(p)
      BY <1>3, <1>5, <2>3
    <3> DEFINE x == Len(last)
               y == Len(p)
               z == Len(more[i])
               a == start[n]
    <3>1. /\ z = x + y /\ x \in Nat /\ x \in 1..ChunkMax /\ y \in Nat /\ x + y <= ChunkMax
          /\ a + x = s /\ a \in Nat /\ start[i] = a
      BY <1>2, <1>3, <2>3, <3>0 DEF last, n
    <3> HIDE DEF x, y, z, a
    <3>2. z \in 1..ChunkMax /\ a + z = s + y
      BY ONLY <3>1, SizesAreNumbers
    <3>3. Len(more[i]) \in 1..ChunkMax /\ start[i] + Len(more[i]) = s + Len(p)
      BY <3>1, <3>2 DEF z, y
    <3> QED BY <1>4, <1>5, <2>1, <2>2, <2>3, <3>3
  <2>4. CASE i # n
    <3>1. more[i] = parts[i]
      <4>1. i \in 1..(n - 1)
        BY <1>1, <2>4
      <4> QED BY <1>5, <4>1
    <3> QED BY ONLY <2>1, <2>2, <3>1
  <2> QED BY <2>3, <2>4
<1>7. Laid(more, start, text)
  BY <1>5, <1>6 DEF Laid
<1>8. Reach(more, start) = s + Len(p)
  <2>1. Reach(more, start) = start[n] + Len(more[n])
    BY <1>1, <1>5, ReachIs
  <2> QED BY <1>2, <1>3, <1>5, <2>1, SMTT(30)
<1> QED BY <1>7, <1>8 DEF more, n, Joined


\* The pieces up to the k-th, merged: they reach as far, and the last one is as
\* long as the k-th at least.
MergedTo(acc, parts, start, text, k) ==
    /\ acc # <<>> /\ Len(acc[Len(acc)]) >= Len(parts[k])
    /\ \E st : Laid(acc, st, text) /\ Reach(acc, st) = start[k] + Len(parts[k])

\* The (k + 1)-th piece is merged with the one before it, when it does not
\* overlap it, or comes behind it.
LEMMA MergeTurnKeeps ==
    ASSUME NEW parts, NEW start, NEW text \in Text, Laid(parts, start, text),
           NEW k \in Nat, k # 0, k + 1 \in 1..Len(parts), NEW acc,
           MergedTo(acc, parts, start, text, k)
    PROVE  MergedTo(MergeTurn(0, acc, parts[k + 1]), parts, start, text, k + 1)
<1> DEFINE p == parts[k + 1]
           s == start[k + 1]
           last == acc[Len(acc)]
           next == MergeTurn(0, acc, p)
           stop == start[k] + Len(parts[k])
<1>1. /\ parts \in Seq(Text) /\ k \in 1..Len(parts) /\ (k + 1) - 1 = k /\ k + 1 # 1
      /\ Len(parts) \in Nat
  BY SeqIsFunction DEF Laid
<1>2. /\ s \in Nat /\ Len(p) \in 1..ChunkMax /\ s + Len(p) <= Len(text)
      /\ p = SubSeq(text, s + 1, s + Len(p))
      /\ Joins(s, stop, Len(parts[k]))
  BY <1>1 DEF Laid
<1>3. start[k] \in Nat /\ Len(parts[k]) \in 1..ChunkMax /\ stop \in Nat /\ Len(p) \in Nat
  <2>1. start[k] \in Nat /\ Len(parts[k]) \in 1..ChunkMax
    BY <1>1 DEF Laid
  <2>2. \A m \in 1..ChunkMax : m \in Nat
    BY SizesAreNumbers
  <2> QED BY <1>2, <2>1, <2>2, SMTT(30)
<1>4. p \in Text
  BY <1>1, SeqIsFunction
<1>5. PICK st : Laid(acc, st, text) /\ Reach(acc, st) = stop
  BY DEF MergedTo
<1>6. acc # <<>> /\ Len(last) >= Len(parts[k])
  BY DEF MergedTo
<1>7. acc \in Seq(Text) /\ Len(acc) \in Nat /\ Len(acc) \in 1..Len(acc)
  BY <1>5, <1>6, ReachIs DEF Laid
<1>8. Len(last) \in 1..ChunkMax
  BY <1>5, <1>7 DEF Laid
<1> DEFINE Fits == \/ Len(last) + Len(p) <= ChunkTarget
                   \/ Len(last) < ChunkMin /\ Len(last) + Len(p) <= ChunkMax
<1>9. next = IF Fits THEN [acc EXCEPT ![Len(acc)] = @ \o p] ELSE Append(acc, p)
  BY <1>6 DEF MergeTurn, Last
<1>10. ChunkMin \in Nat /\ ChunkTarget \in Nat /\ ChunkMax \in Nat
       /\ ChunkMin <= ChunkTarget /\ ChunkTarget <= ChunkMax /\ Overlap \in Nat
  BY BudgetAssumption
<1> HIDE DEF p, s, last, next, stop
<1>11. CASE Fits
  <2>1. s = stop
    <3>1. Len(last) \in Nat /\ Len(p) >= 1 /\ Len(parts[k]) \in Nat
      BY <1>2, <1>3, <1>8, <1>10
    <3>2. ~(Len(parts[k]) >= ChunkTarget)
      BY <1>3, <1>6, <1>10, <1>11, <3>1
    <3> QED BY <1>2, <3>2 DEF Joins
  <2>2. Len(last) + Len(p) <= ChunkMax
    BY <1>2, <1>3, <1>8, <1>10, <1>11
  <2> DEFINE more == [acc EXCEPT ![Len(acc)] = @ \o p]
  <2>3. Laid(more, st, text) /\ Reach(more, st) = s + Len(p)
    <3>1. Laid(Joined(acc, p), st, text) /\ Reach(Joined(acc, p), st) = s + Len(p)
      BY <1>2, <1>3, <1>4, <1>5, <1>6, <2>1, <2>2, LaidGrows DEF last
    <3> QED BY <3>1 DEF Joined
  <2>4. more # <<>> /\ Len(more) = Len(acc) /\ more[Len(acc)] = last \o p
    <3>1. DOMAIN acc = 1..Len(acc)
      BY <1>7, SeqIsFunction
    <3>2. DOMAIN more = 1..Len(acc) /\ more[Len(acc)] = last \o p
      BY <1>7, <3>1 DEF last
    <3>3. more \in Seq(Text)
      BY <2>3 DEF Laid
    <3> HIDE DEF more
    <3> QED BY <1>7, <3>2, <3>3, SeqIsFunction
  <2>5. Len(last \o p) = Len(last) + Len(p) /\ Len(last) \in Nat
    <3>1. last \in Seq(Token) /\ p \in Seq(Token)
      BY <1>4, <1>7, SeqIsFunction DEF last, Text
    <3> QED BY <3>1, ConcatProperties
  <2> HIDE DEF more
  <2>6. Len(more[Len(more)]) >= Len(p)
    BY <1>3, <2>4, <2>5
  <2>7. more = next
    BY <1>9, <1>11 DEF more
  <2> QED BY <2>3, <2>4, <2>6, <2>7 DEF MergedTo, p, s, next
<1>12. CASE ~Fits
  <2> DEFINE more == Append(acc, p)
  <2>1. Joins(s, stop, Len(last))
    <3>1. Len(last) \in Nat /\ Len(parts[k]) \in Nat
      BY <1>3, <1>8, <1>10
    <3> QED BY <1>2, <1>6, <1>10, <3>1 DEF Joins
  <2>2. PICK su : Laid(more, su, text) /\ Reach(more, su) = s + Len(p)
    BY <1>2, <1>4, <1>5, <1>6, <2>1, LaidAppends DEF last
  <2>3. more # <<>> /\ Len(more) = Len(acc) + 1 /\ more[Len(acc) + 1] = p
    BY <1>4, <1>7, AppendProperties
  <2> HIDE DEF more
  <2>4. Len(more[Len(more)]) >= Len(p)
    BY <1>3, <2>3
  <2>5. more = next
    BY <1>9, <1>12 DEF more
  <2> QED BY <2>2, <2>3, <2>4, <2>5 DEF MergedTo, p, s, next
<1> QED BY <1>11, <1>12

\* So the merged pieces are the text, if the pieces are.
LEMMA MergedTile ==
    ASSUME NEW parts, NEW text \in Text, text # <<>>, Tiles(parts, text)
    PROVE  Tiles(MergeParts(parts), text)
<1>1. PICK start : Laid(parts, start, text) /\ Reach(parts, start) = Len(text)
  BY DEF Tiles
<1>2. parts \in Seq(Text)
  BY <1>1 DEF Laid
<1>3. PICK n \in Nat : n = Len(parts) /\ DOMAIN parts = 1..n
  BY <1>2, SeqIsFunction
<1>4. n # 0 /\ 1 \in 1..n
  <2>1. Len(text) # 0
    BY DEF Text
  <2> QED BY <1>1, <1>2, <1>3, <2>1, ReachIs
<1>5. MergeParts(parts) = Merging!Folded(0, <<>>, parts)
  BY DEF MergeParts, MergeTurn, Merging!Folded, FoldLeft, MapThenFoldSet, Max,
         Merging!FoldLeft, Merging!MapThenFoldSet, Merging!Max
<1>6. PICK g : Merging!Trace(g, 0, <<>>, parts, n)
  BY <1>3, Merging!FoldTraces
<1>7. /\ g[0] = <<>> /\ MergeParts(parts) = g[n]
      /\ \A k \in 1..n : g[k] = MergeTurn(0, g[k - 1], parts[k])
  BY <1>5, <1>6 DEF Merging!Trace
<1>8. MergedTo(g[1], parts, start, text, 1)
  <2> DEFINE p == parts[1]
  <2>1. g[1] = Append(<<>>, p)
    <3>1. 1 - 1 = 0 /\ g[1] = MergeTurn(0, g[1 - 1], p)
      BY <1>4, <1>7
    <3> QED BY <1>7, <3>1 DEF MergeTurn
  <2>2. /\ start[1] = 0 /\ Len(p) \in 1..ChunkMax /\ start[1] + Len(p) <= Len(text)
        /\ p = SubSeq(text, start[1] + 1, start[1] + Len(p)) /\ p \in Text
    BY <1>1, <1>2, <1>3, <1>4, SeqIsFunction DEF Laid
  <2>3. Len(p) \in Nat
    BY <2>2, SizesAreNumbers
  <2>4. 0 + 1 = 1 /\ 0 + Len(p) = Len(p)
    BY <2>3
  <2> HIDE DEF p
  <2>5. p = SubSeq(text, 1, Len(p)) /\ Len(p) <= Len(text)
    BY <2>2, <2>4
  <2>6. \E st : Laid(<<p>>, st, text) /\ Reach(<<p>>, st) = Len(p)
    BY <2>2, <2>5, LaidFirst
  <2>7. Append(<<>>, p) = <<p>> /\ <<p>> # <<>> /\ Len(<<p>>) = 1 /\ <<p>>[1] = p
    OBVIOUS
  <2>8. Len(p) >= Len(p) /\ Len(p) = start[1] + Len(p)
    BY <2>2, <2>3
  <2> QED BY <2>1, <2>6, <2>7, <2>8 DEF MergedTo, p
<1> DEFINE K == {k \in Nat : k = 0 \/ MergedTo(g[k], parts, start, text, k)}
<1>9. 0 \in K
  OBVIOUS
<1>10. ASSUME NEW k \in 1..n, k - 1 \in K PROVE k \in K
  <2>1. CASE k = 1
    BY <1>8, <2>1
  <2>2. CASE k # 1
    <3>1. k - 1 \in Nat /\ k - 1 # 0 /\ (k - 1) + 1 = k /\ k \in 1..Len(parts) /\ k \in Nat
      BY <1>3, <2>2
    <3>2. MergedTo(g[k - 1], parts, start, text, k - 1)
      BY <1>10, <3>1
    <3>3. MergedTo(MergeTurn(0, g[k - 1], parts[(k - 1) + 1]), parts, start, text, (k - 1) + 1)
      BY <1>1, <3>1, <3>2, MergeTurnKeeps
    <3>4. MergedTo(g[k], parts, start, text, k)
      BY <1>7, <3>1, <3>3
    <3> QED BY <3>1, <3>4
  <2> QED BY <2>1, <2>2
<1> HIDE DEF K
<1>11. n \in K
  <2>1. 0..n \subseteq K
    BY <1>9, <1>10, Merging!UpTo
  <2> QED BY <2>1
<1>12. MergedTo(g[n], parts, start, text, n)
  BY <1>4, <1>11 DEF K
<1>13. start[n] + Len(parts[n]) = Len(text)
  BY <1>1, <1>2, <1>3, <1>4, ReachIs
<1> QED BY <1>7, <1>12, <1>13 DEF MergedTo, Tiles

\* One piece, none, and the windows over a piece.
LEMMA PieceTiles ==
    /\ Tiles(<<>>, <<>>)
    /\ \A p \in Text : Len(p) \in 1..ChunkMax => Tiles(<<p>>, p)
    /\ \A p \in Text : Tiles(Windows(p, ChunkTarget), p)
<1>0. Laid(<<>>, <<>>, <<>>) /\ \A text : Laid(<<>>, <<>>, text)
  BY DEF Laid
<1>1. Tiles(<<>>, <<>>)
  <2>1. Reach(<<>>, <<>>) = 0 /\ Len(<<>>) = 0
    BY DEF Reach
  <2> QED BY <1>0, <2>1 DEF Tiles
<1>2. ASSUME NEW p \in Text, Len(p) \in 1..ChunkMax PROVE Tiles(<<p>>, p)
  <2>1. p = SubSeq(p, 1, Len(p)) /\ Len(p) \in Nat
    BY DEF Text
  <2>2. Len(p) <= Len(p)
    BY <2>1
  <2>3. PICK st : Laid(<<p>>, st, p) /\ Reach(<<p>>, st) = Len(p)
    BY <1>2, <2>1, <2>2, LaidFirst
  <2> QED BY <2>3 DEF Tiles
<1>3. ASSUME NEW p \in Text PROVE Tiles(Windows(p, ChunkTarget), p)
  <2> DEFINE w == Windows(p, ChunkTarget)
             S == Stride(ChunkTarget)
             st == [i \in 1..Len(w) |-> (i - 1) * S]
  <2>1. WindowsOf(w, p, ChunkTarget, Token)
    BY SizesAreNumbers, WindowsAre DEF Text
  <2>2. /\ w \in Seq(Text) /\ Len(w) \in Nat /\ (p = <<>> <=> w = <<>>)
        /\ \A i \in 1..Len(w) :
            /\ (i - 1) * S \in Nat /\ Len(w[i]) \in 1..ChunkTarget
            /\ (i - 1) * S + Len(w[i]) <= Len(p)
            /\ w[i] = SubSeq(p, (i - 1) * S + 1, (i - 1) * S + Len(w[i]))
            /\ IF i = Len(w) THEN (i - 1) * S + Len(w[i]) = Len(p) ELSE Len(w[i]) = ChunkTarget
    BY <2>1, SeqIsFunction DEF WindowsOf, Text
  <2>3. S \in Nat /\ S >= 1 /\ S <= ChunkTarget /\ S >= ChunkTarget - Overlap
        /\ ChunkTarget \in Nat /\ ChunkMax \in Nat /\ ChunkTarget <= ChunkMax /\ Overlap \in Nat
    <3>1. ChunkTarget \in Nat /\ ChunkMax \in Nat /\ ChunkTarget <= ChunkMax /\ Overlap \in Nat
      BY BudgetAssumption
    <3>2. S \in 1..ChunkTarget
      BY SizesAreNumbers, StrideBounds
    <3>3. S >= ChunkTarget - Overlap
      <4> DEFINE I == {ChunkTarget - Overlap, 1}
      <4>1. \E x \in I : \A y \in I : x >= y
        <5>1. CASE ChunkTarget - Overlap >= 1
          BY <3>1, <5>1
        <5>2. CASE ~(ChunkTarget - Overlap >= 1)
          BY <3>1, <5>2
        <5> QED BY <5>1, <5>2
      <4>2. \A y \in I : Max(I) >= y
        BY <4>1 DEF Max
      <4> QED BY <4>2 DEF Stride
    <3> QED BY <3>1, <3>2, <3>3
  <2> HIDE DEF w, S
  <2>4. ASSUME NEW i \in 1..Len(w)
        PROVE  /\ st[i] \in Nat /\ Len(w[i]) \in 1..ChunkMax
               /\ st[i] + Len(w[i]) <= Len(p)
               /\ w[i] = SubSeq(p, st[i] + 1, st[i] + Len(w[i]))
               /\ i = 1 => st[i] = 0
               /\ i # 1 => Joins(st[i], st[i - 1] + Len(w[i - 1]), Len(w[i - 1]))
    <3>1. st[i] = (i - 1) * S
      OBVIOUS
    <3>2. Len(w[i]) \in 1..ChunkMax
      <4>1. \A l \in 1..ChunkTarget : l \in 1..ChunkMax
        BY <2>3
      <4>2. Len(w[i]) \in 1..ChunkTarget
        BY <2>2
      <4> QED BY ONLY <4>1, <4>2
    <3>3. i = 1 => st[i] = 0
      BY <2>3, <3>1
    <3>4. ASSUME i # 1 PROVE Joins(st[i], st[i - 1] + Len(w[i - 1]), Len(w[i - 1]))
      <4>1. i - 1 \in 1..Len(w) /\ i - 1 # Len(w) /\ (i - 1) - 1 = i - 2 /\ i - 2 \in Nat
        BY <2>2, <3>4
      <4>2. Len(w[i - 1]) = ChunkTarget /\ st[i - 1] = (i - 2) * S
        BY <2>2, <4>1
      <4>3. (i - 1) * S = (i - 2) * S + S /\ (i - 2) * S \in Nat
        BY <2>3, <4>1
      <4> DEFINE a == (i - 2) * S
      <4> HIDE DEF a
      <4>4. a \in Nat /\ st[i] = a + S /\ st[i - 1] = a
        BY <3>1, <4>2, <4>3 DEF a
      <4>5. a + S \in ((a + ChunkTarget) - Overlap)..(a + ChunkTarget)
        BY <2>3, <4>4
      <4>6. ChunkTarget >= ChunkTarget
        BY <2>3
      <4> QED BY <4>2, <4>4, <4>5, <4>6 DEF Joins
    <3> HIDE DEF st
    <3> QED BY <2>2, <3>1, <3>2, <3>3, <3>4
  <2> HIDE DEF st
  <2>5. Laid(w, st, p)
    BY <2>2, <2>4 DEF Laid
  <2>6. Reach(w, st) = Len(p)
    <3>1. CASE w = <<>>
      <4>1. Len(p) = 0
        BY <2>2, <3>1
      <4> QED BY <3>1, <4>1 DEF Reach
    <3>2. CASE w # <<>>
      <4>1. Len(w) # 0 /\ Len(w) \in 1..Len(w)
        BY <2>2, <3>2, ReachIs
      <4>2. Reach(w, st) = st[Len(w)] + Len(w[Len(w)])
        BY <2>2, <4>1, ReachIs
      <4> QED BY <2>2, <4>1, <4>2 DEF st
    <3> QED BY <3>1, <3>2
  <2> QED BY <2>5, <2>6 DEF Tiles, w
<1> QED BY <1>1, <1>2, <1>3


\* The pieces of two texts are the pieces of the one behind the other.
LEMMA TilesConcat ==
    \A A, B, x, y : x \in Text /\ y \in Text /\ Tiles(A, x) /\ Tiles(B, y) => Tiles(A \o B, x \o y)
<1> SUFFICES ASSUME NEW A, NEW B, NEW x \in Text, NEW y \in Text, Tiles(A, x), Tiles(B, y)
             PROVE  Tiles(A \o B, x \o y)
  OBVIOUS
<1>1. PICK s : Laid(A, s, x) /\ Reach(A, s) = Len(x)
  BY DEF Tiles
<1>2. PICK t : Laid(B, t, y) /\ Reach(B, t) = Len(y)
  BY DEF Tiles
<1> DEFINE m == Len(A)
           n == Len(B)
           C == A \o B
           z == x \o y
           l == Len(x)
           u == [i \in 1..(m + n) |-> IF i <= m THEN s[i] ELSE l + t[i - m]]
<1>3. /\ A \in Seq(Text) /\ m \in Nat /\ B \in Seq(Text) /\ n \in Nat
      /\ (A = <<>> <=> m = 0) /\ (B = <<>> <=> n = 0)
  BY <1>1, <1>2, ReachIs DEF Laid
<1>4. /\ z \in Text /\ l \in Nat /\ Len(y) \in Nat /\ Len(z) = l + Len(y)
  <2>1. x \in Seq(Token) /\ y \in Seq(Token)
    BY DEF Text
  <2> QED BY <2>1, ConcatProperties DEF Text
<1>5. /\ C \in Seq(Text) /\ Len(C) = m + n
      /\ \A i \in 1..(m + n) : C[i] = IF i <= m THEN A[i] ELSE B[i - m]
  BY <1>3, ConcatProperties
<1> HIDE DEF m, n, C, z, l
<1>6. ASSUME NEW i \in 1..m
      PROVE  /\ u[i] \in Nat /\ Len(C[i]) \in 1..ChunkMax /\ u[i] + Len(C[i]) <= Len(z)
             /\ C[i] = SubSeq(z, u[i] + 1, u[i] + Len(C[i]))
             /\ i = 1 => u[i] = 0
             /\ i # 1 => Joins(u[i], u[i - 1] + Len(C[i - 1]), Len(C[i - 1]))
  <2>1. /\ s[i] \in Nat /\ Len(A[i]) \in 1..ChunkMax
        /\ s[i] + Len(A[i]) <= l
        /\ A[i] = SubSeq(x, s[i] + 1, s[i] + Len(A[i]))
        /\ i = 1 => s[i] = 0
        /\ i # 1 => Joins(s[i], s[i - 1] + Len(A[i - 1]), Len(A[i - 1]))
    BY <1>1 DEF Laid, m, l
  <2>2. i \in 1..(m + n) /\ i <= m /\ C[i] = A[i] /\ u[i] = s[i]
    BY <1>3, <1>5
  <2>3. i # 1 => C[i - 1] = A[i - 1] /\ u[i - 1] = s[i - 1]
    <3>1. i # 1 => i - 1 \in 1..(m + n) /\ i - 1 <= m
      BY <1>3
    <3> QED BY <1>3, <1>5, <3>1
  <2>4. Len(A[i]) \in Nat
    BY <2>1, SizesAreNumbers
  <2> HIDE DEF u
  <2>5. SubSeq(z, s[i] + 1, s[i] + Len(A[i])) = SubSeq(x, s[i] + 1, s[i] + Len(A[i]))
    BY <2>1, <2>4, SubSeqConcat DEF z, l
  <2>6. s[i] + Len(A[i]) <= Len(z)
    BY <1>4, <2>1, <2>4
  <2> QED BY ONLY <2>1, <2>2, <2>3, <2>5, <2>6
<1>7. ASSUME NEW j \in 1..n
      PROVE  LET i == m + j IN
             /\ u[i] \in Nat /\ Len(C[i]) \in 1..ChunkMax /\ u[i] + Len(C[i]) <= Len(z)
             /\ C[i] = SubSeq(z, u[i] + 1, u[i] + Len(C[i]))
             /\ i = 1 => u[i] = 0
             /\ i # 1 => Joins(u[i], u[i - 1] + Len(C[i - 1]), Len(C[i - 1]))
  <2> DEFINE i == m + j
  <2>1. /\ t[j] \in Nat /\ Len(B[j]) \in 1..ChunkMax
        /\ t[j] + Len(B[j]) <= Len(y)
        /\ B[j] = SubSeq(y, t[j] + 1, t[j] + Len(B[j]))
        /\ j = 1 => t[j] = 0
        /\ j # 1 => Joins(t[j], t[j - 1] + Len(B[j - 1]), Len(B[j - 1]))
    BY <1>2 DEF Laid, n
  <2>2. i \in 1..(m + n) /\ ~(i <= m) /\ i - m = j /\ i \in Nat
    BY <1>3
  <2>3. C[i] = B[j] /\ u[i] = l + t[j]
    BY <1>5, <2>2
  <2>4. Len(B[j]) \in Nat
    BY <2>1, SizesAreNumbers
  <2>5. SubSeq(z, (l + t[j]) + 1, (l + t[j]) + Len(B[j])) = B[j]
    <3>1. SubSeq(z, (Len(x) + t[j]) + 1, (Len(x) + t[j]) + Len(B[j]))
            = SubSeq(y, t[j] + 1, t[j] + Len(B[j]))
      BY <2>1, <2>4, SubSeqConcat DEF z
    <3> QED BY <2>1, <3>1 DEF l
  <2>6. l + t[j] \in Nat /\ (l + t[j]) + Len(B[j]) <= Len(z)
    BY <1>4, <2>1, <2>4
  <2>7. i = 1 => u[i] = 0
    <3> SUFFICES ASSUME i = 1 PROVE u[i] = 0
      OBVIOUS
    <3>1. m = 0 /\ j = 1
      BY <1>3
    <3>2. l = 0
      BY <1>1, <1>3, <3>1 DEF Reach, l
    <3> QED BY <2>1, <2>3, <3>1, <3>2
  <2>8. ASSUME i # 1 PROVE Joins(u[i], u[i - 1] + Len(C[i - 1]), Len(C[i - 1]))
    <3>1. CASE j = 1
      <4>1. i - 1 = m /\ m # 0 /\ m \in 1..(m + n) /\ m <= m
        BY <1>3, <2>8, <3>1
      <4>2. C[i - 1] = A[m] /\ u[i - 1] = s[m]
        BY <1>5, <4>1
      <4>3. s[m] + Len(A[m]) = l
        BY <1>1, <1>3, <4>1, ReachIs DEF m, l
      <4>4. u[i] = l
        BY <1>4, <2>1, <2>3, <3>1
      <4> HIDE DEF u, i
      <4> QED BY ONLY <4>2, <4>3, <4>4 DEF Joins
    <3>2. CASE j # 1
      <4>1. i - 1 \in 1..(m + n) /\ ~(i - 1 <= m) /\ (i - 1) - m = j - 1 /\ j - 1 \in 1..n
        BY <1>3, <3>2
      <4>2. C[i - 1] = B[j - 1] /\ u[i - 1] = l + t[j - 1]
        BY <1>5, <4>1
      <4>3. Joins(t[j], t[j - 1] + Len(B[j - 1]), Len(B[j - 1]))
        BY <2>1, <3>2
      <4>4. t[j - 1] \in Nat /\ Len(B[j - 1]) \in Nat
        <5>1. t[j - 1] \in Nat /\ Len(B[j - 1]) \in 1..ChunkMax
          BY <1>2, <4>1 DEF Laid, n
        <5> QED BY <5>1, SizesAreNumbers
      <4> DEFINE a == t[j]
                 b == t[j - 1]
                 c == Len(B[j - 1])
      <4>5. a \in Nat /\ b \in Nat /\ c \in Nat /\ Joins(a, b + c, c) /\ Overlap \in Nat
        BY <2>1, <4>3, <4>4, BudgetAssumption
      <4> HIDE DEF a, b, c
      <4>6. Joins(l + a, (l + b) + c, c)
        BY <1>4, <4>5 DEF Joins
      <4> HIDE DEF u, i
      <4> QED BY <2>3, <4>2, <4>6 DEF a, b, c
    <3> QED BY <3>1, <3>2
  <2> HIDE DEF u, i
  <2>9. /\ u[i] \in Nat /\ Len(C[i]) \in 1..ChunkMax /\ u[i] + Len(C[i]) <= Len(z)
        /\ C[i] = SubSeq(z, u[i] + 1, u[i] + Len(C[i]))
        /\ i = 1 => u[i] = 0
        /\ i # 1 => Joins(u[i], u[i - 1] + Len(C[i - 1]), Len(C[i - 1]))
    BY <2>1, <2>3, <2>5, <2>6, <2>7, <2>8
  <2> QED BY <2>9 DEF i
<1> HIDE DEF u
<1>8. ASSUME NEW i \in 1..(m + n)
      PROVE  /\ u[i] \in Nat /\ Len(C[i]) \in 1..ChunkMax /\ u[i] + Len(C[i]) <= Len(z)
             /\ C[i] = SubSeq(z, u[i] + 1, u[i] + Len(C[i]))
             /\ i = 1 => u[i] = 0
             /\ i # 1 => Joins(u[i], u[i - 1] + Len(C[i - 1]), Len(C[i - 1]))
  <2>1. CASE i \in 1..m
    BY <1>6, <2>1
  <2>2. CASE i \notin 1..m
    <3>1. i - m \in 1..n /\ m + (i - m) = i
      BY <1>3, <2>2
    <3> QED BY <1>7, <3>1
  <2> QED BY <2>1, <2>2
<1>9. Laid(C, u, z)
  BY <1>5, <1>8 DEF Laid
<1>10. Reach(C, u) = Len(z)
  <2>1. CASE n = 0
    <3>1. C = A
      <4>1. \A S : \A r \in Seq(S) : r \o <<>> = r
        OBVIOUS
      <4> QED BY <1>3, <2>1, <4>1 DEF C
    <3>2. Len(y) = 0
      BY <1>2, <1>3, <2>1 DEF Reach
    <3>3. CASE m = 0
      <4>1. C = <<>> /\ l = 0
        BY <1>1, <1>3, <3>1, <3>3 DEF Reach, l
      <4> QED BY <1>4, <3>2, <4>1 DEF Reach
    <3>4. CASE m # 0
      <4>1. m \in 1..(m + n) /\ m <= m
        BY <1>3, <3>4
      <4>2. u[m] = s[m]
        BY <4>1 DEF u
      <4>3. Reach(C, u) = u[m] + Len(A[m]) /\ Reach(A, s) = s[m] + Len(A[m])
        BY <1>3, <3>1, <3>4, ReachIs DEF m
      <4>4. Len(z) = l
        BY <1>4, <3>2
      <4> QED BY <1>1, <4>2, <4>3, <4>4 DEF l
    <3> QED BY <3>3, <3>4
  <2>2. CASE n # 0
    <3>1. m + n \in 1..(m + n) /\ ~(m + n <= m) /\ (m + n) - m = n /\ m + n # 0 /\ n \in 1..n
      BY <1>3, <2>2
    <3>2. C[m + n] = B[n] /\ u[m + n] = l + t[n]
      BY <1>5, <3>1 DEF u
    <3>3. Reach(C, u) = u[m + n] + Len(C[m + n])
      BY <1>5, <3>1, ReachIs
    <3>4. t[n] + Len(B[n]) = Len(y)
      BY <1>2, <1>3, <2>2, ReachIs DEF n
    <3>5. t[n] \in Nat /\ Len(B[n]) \in Nat
      <4>1. t[n] \in Nat /\ Len(B[n]) \in 1..ChunkMax
        BY <1>2, <3>1 DEF Laid, n
      <4> QED BY <4>1, SizesAreNumbers
    <3> DEFINE a == t[n]
               b == Len(B[n])
    <3>6. a \in Nat /\ b \in Nat /\ a + b = Len(y) /\ Reach(C, u) = (l + a) + b
      BY <3>2, <3>3, <3>4, <3>5
    <3> HIDE DEF a, b
    <3> QED BY <1>4, <3>6
  <2> QED BY <2>1, <2>2
<1> QED BY <1>9, <1>10 DEF Tiles, C, z

\* The first k of a list, and the k-th behind the others.
LEMMA PrefixGrows ==
    \A S : \A s \in Seq(S) : \A k \in 1..Len(s) :
        /\ SubSeq(s, 1, k) = Append(SubSeq(s, 1, k - 1), s[k])
        /\ SubSeq(s, 1, k - 1) \in Seq(S) /\ s[k] \in S
<1> SUFFICES ASSUME NEW S, NEW s \in Seq(S), NEW k \in 1..Len(s)
             PROVE  /\ SubSeq(s, 1, k) = Append(SubSeq(s, 1, k - 1), s[k])
                    /\ SubSeq(s, 1, k - 1) \in Seq(S) /\ s[k] \in S
  OBVIOUS
<1> DEFINE p == SubSeq(s, 1, k - 1)
           q == SubSeq(s, 1, k)
<1>1. p \in Seq(S) /\ q \in Seq(S) /\ Len(p) = k - 1 /\ Len(q) = k /\ s[k] \in S /\ k - 1 \in Nat
  OBVIOUS
<1>2. Len(q) = (k - 1) + 1 /\ SubSeq(q, 1, k - 1) = p /\ q[(k - 1) + 1] = s[k]
  OBVIOUS
<1> HIDE DEF p, q
<1>3. q = Append(p, s[k])
  BY <1>1, <1>2, LastOf
<1> QED BY <1>1, <1>3 DEF p, q

\* If each part of a text is in pieces, so is the text.
LEMMA TilesMany ==
    ASSUME NEW cut \in Seq(Text), NEW g \in Seq(Seq(Text)), Len(g) = Len(cut),
           \A i \in 1..Len(cut) : Tiles(g[i], cut[i])
    PROVE  Tiles(FlattenSeq(g), FlattenSeq(cut))
<1> DEFINE n == Len(cut)
           G(k) == FlattenSeq(SubSeq(g, 1, k))
           C(k) == FlattenSeq(SubSeq(cut, 1, k))
           K == {k \in Nat : C(k) \in Text /\ Tiles(G(k), C(k))}
<1>1. n \in Nat
  OBVIOUS
<1>2. 0 \in K
  <2>1. SubSeq(g, 1, 0) = <<>> /\ SubSeq(cut, 1, 0) = <<>>
    OBVIOUS
  <2>2. G(0) = <<>> /\ C(0) = <<>>
    BY <2>1, FlattenOne
  <2>3. <<>> \in Text
    BY DEF Text
  <2> HIDE DEF G, C
  <2> QED BY <2>2, <2>3, PieceTiles
<1>3. ASSUME NEW k \in 1..n, k - 1 \in K PROVE k \in K
  <2>0. k \in Nat /\ (C(k) \in Text /\ Tiles(G(k), C(k)) => k \in K)
        /\ C(k - 1) \in Text /\ Tiles(G(k - 1), C(k - 1))
    BY <1>3
  <2>1. /\ SubSeq(g, 1, k) = Append(SubSeq(g, 1, k - 1), g[k])
        /\ SubSeq(g, 1, k - 1) \in Seq(Seq(Text)) /\ g[k] \in Seq(Text)
    BY PrefixGrows
  <2>2. /\ SubSeq(cut, 1, k) = Append(SubSeq(cut, 1, k - 1), cut[k])
        /\ SubSeq(cut, 1, k - 1) \in Seq(Text) /\ cut[k] \in Text
    BY PrefixGrows
  <2>3. G(k) = G(k - 1) \o g[k]
    BY <2>1, FlattenAppend
  <2>4. C(k) = C(k - 1) \o cut[k]
    BY <2>2, FlattenAppend DEF Text
  <2> HIDE DEF G, C, K
  <2>5. C(k - 1) \o cut[k] \in Text
    <3>1. C(k - 1) \in Seq(Token) /\ cut[k] \in Seq(Token)
      BY <2>0, <2>2 DEF Text
    <3> QED BY <3>1, ConcatProperties DEF Text
  <2>6. Tiles(G(k - 1) \o g[k], C(k - 1) \o cut[k])
    BY <2>0, <2>2, TilesConcat
  <2> QED BY <2>0, <2>3, <2>4, <2>5, <2>6
<1>4. n \in K
  <2> HIDE DEF K
  <2>1. 0..n \subseteq K
    BY <1>1, <1>2, <1>3, Filtering!UpTo
  <2> QED BY <1>1, <2>1
<1>5. SubSeq(g, 1, n) = g /\ SubSeq(cut, 1, n) = cut
  OBVIOUS
<1> QED BY <1>4, <1>5


\* A text that is not empty.
Piece == Text \ {<<>>}

\* What is cut behind each separator is the text, in pieces.
LEMMA CutsWhole ==
    \A separator : \A text \in Text :
        CutAfter(text, separator) \in Seq(Piece) /\ FlattenSeq(CutAfter(text, separator)) = text
<1> SUFFICES ASSUME NEW separator
             PROVE  \A text \in Text : /\ CutAfter(text, separator) \in Seq(Piece)
                                       /\ FlattenSeq(CutAfter(text, separator)) = text
  OBVIOUS
<1> DEFINE Cut(t) == CutAfter(t, separator)
           K == {t \in Text : Cut(t) \in Seq(Piece) /\ FlattenSeq(Cut(t)) = t}
<1>1. \A t : Cut(t) = Separating!Folded(separator, <<>>, t)
  BY DEF CutAfter, SeparatorTurn, Separating!Folded, FoldLeft, MapThenFoldSet, Max,
         Separating!FoldLeft, Separating!MapThenFoldSet, Separating!Max
<1>2. Cut(<<>>) = <<>>
  BY <1>1, Separating!FoldAppends
<1>3. ASSUME NEW t \in Seq(Token), NEW x \in Token
      PROVE  Cut(Append(t, x)) = SeparatorTurn(separator, Cut(t), x)
  <2>1. Separating!Folded(separator, <<>>, Append(t, x))
            = SeparatorTurn(separator, Separating!Folded(separator, <<>>, t), x)
    BY Separating!FoldAppends
  <2> QED BY <1>1, <2>1
<1> HIDE DEF Cut
<1>4. <<>> \in K
  <2>1. <<>> \in Text /\ <<>> \in Seq(Piece)
    BY DEF Text
  <2> QED BY <1>2, <2>1, FlattenOne
<1>5. ASSUME NEW t \in Seq(Token), NEW x \in Token, t \in K PROVE Append(t, x) \in K
  <2> DEFINE acc == Cut(t)
             one == <<x>>
             next == Cut(Append(t, x))
  <2>1. acc \in Seq(Piece) /\ FlattenSeq(acc) = t
    BY <1>5
  <2>2. one \in Piece /\ t \o one = Append(t, x) /\ Append(t, x) \in Text
    <3>1. one \in Seq(Token) /\ one # <<>>
      OBVIOUS
    <3>2. t \o one = Append(t, x)
      OBVIOUS
    <3>3. Append(t, x) \in Seq(Token)
      BY AppendProperties
    <3> QED BY <3>1, <3>2, <3>3 DEF Piece, Text
  <2>3. next = SeparatorTurn(separator, acc, x)
    BY <1>3
  <2> HIDE DEF acc, next, one, K
  <2>4. \A r \in Seq(Piece) : r \in Seq(Seq(Token))
    BY DEF Piece, Text
  <2>5. CASE acc = <<>> \/ Last(Last(acc)) \in separator
    <3>1. next = Append(acc, one)
      BY <2>3, <2>5 DEF SeparatorTurn, one
    <3>2. next \in Seq(Piece)
      BY <2>1, <2>2, <3>1, AppendProperties
    <3>3. one \in Seq(Token) /\ acc \in Seq(Seq(Token))
      BY <2>1, <2>2, <2>4 DEF Piece, Text
    <3>4. FlattenSeq(next) = t \o one
      BY <2>1, <3>1, <3>3, FlattenAppend
    <3> QED BY <2>2, <3>2, <3>4 DEF K, next
  <2>6. CASE ~(acc = <<>> \/ Last(Last(acc)) \in separator)
    <3>1. PICK n \in Nat : n = Len(acc) /\ DOMAIN acc = 1..n
      BY <2>1, SeqIsFunction
    <3>2. n # 0 /\ n - 1 \in Nat /\ Len(acc) = (n - 1) + 1 /\ (n - 1) + 1 = n
      <4>1. n # 0
        BY <2>1, <2>6, <3>1, EmptySeq
      <4> QED BY <3>1, <4>1
    <3> DEFINE front == SubSeq(acc, 1, n - 1)
               last == acc[n]
               longer == Append(last, x)
               more == Append(front, longer)
    <3>3. acc = Append(front, last) /\ front \in Seq(Piece) /\ Len(front) = n - 1 /\ last \in Piece
      BY <2>1, <3>2, LastOf
    <3>4. longer \in Piece /\ longer \in Seq(Token) /\ last \in Seq(Token)
      <4>1. last \in Seq(Token)
        BY <3>3 DEF Piece, Text
      <4> HIDE DEF last
      <4>2. longer \in Seq(Token) /\ longer # <<>>
        BY <4>1, AppendProperties
      <4> QED BY <4>1, <4>2 DEF Piece, Text
    <3>5. next = [acc EXCEPT ![n] = longer]
      BY <2>3, <2>6, <3>1 DEF SeparatorTurn
    <3> HIDE DEF last, longer
    <3>6. /\ more \in Seq(Piece) /\ Len(more) = n /\ more[n] = longer
          /\ \A i \in 1..(n - 1) : more[i] = acc[i]
      <4>1. /\ more \in Seq(Piece) /\ Len(more) = (n - 1) + 1 /\ more[(n - 1) + 1] = longer
            /\ \A i \in 1..(n - 1) : more[i] = front[i]
        BY <3>3, <3>4, AppendProperties
      <4>2. \A i \in 1..(n - 1) : front[i] = acc[i]
        BY <2>1, <3>1, <3>2
      <4> HIDE DEF more, front
      <4> QED BY <3>2, <4>1, <4>2
    <3>7. next = more
      <4>1. next = [i \in 1..n |-> IF i = n THEN longer ELSE acc[i]]
        BY <3>1, <3>5
      <4>2. \A i \in 1..n : i = n \/ i \in 1..(n - 1)
        BY <3>2
      <4> HIDE DEF more, front
      <4>3. \A i \in 1..n : next[i] = more[i] /\ more[i] \in Piece
        BY <3>6, <4>1, <4>2, SeqIsFunction
      <4>4. next \in Seq(Piece) /\ Len(next) = n
        <5>1. next = [i \in 1..n |-> next[i]] /\ \A i \in 1..n : next[i] \in Piece
          BY <4>1, <4>3
        <5>2. Listing(next, n, Piece)
          BY <5>1 DEF Listing
        <5> QED BY <5>2, ListingIsSeq
      <4> QED BY <3>6, <4>3, <4>4, SeqEqual
    <3> HIDE DEF front, more
    <3>8. front \in Seq(Seq(Token))
      BY <2>4, <3>3
    <3>9. FlattenSeq(more) = FlattenSeq(front) \o longer /\ t = FlattenSeq(front) \o last
      <4>1. FlattenSeq(Append(front, longer)) = FlattenSeq(front) \o longer
        BY <3>4, <3>8, FlattenAppend
      <4>2. FlattenSeq(Append(front, last)) = FlattenSeq(front) \o last
        BY <3>4, <3>8, FlattenAppend
      <4> QED BY <2>1, <3>3, <4>1, <4>2 DEF more
    <3>10. FlattenSeq(front) \in Seq(Token)
      BY <3>8, Filtering!FlattenIsSeq DEF FlattenSeq, Filtering!FlattenSeq
    <3>11. FlattenSeq(front) \o longer = Append(FlattenSeq(front) \o last, x)
      <4> DEFINE a == FlattenSeq(front)
      <4>1. a \in Seq(Token)
        BY <3>10
      <4> HIDE DEF a
      <4>2. a \o Append(last, x) = Append(a \o last, x)
        BY <3>4, <4>1
      <4> QED BY <4>2 DEF a, longer
    <3>12. FlattenSeq(next) = Append(t, x)
      BY <3>7, <3>9, <3>11
    <3> QED BY <2>2, <3>6, <3>7, <3>12 DEF K, next
  <2> QED BY <2>5, <2>6
<1> HIDE DEF K
<1>6. Seq(Token) \subseteq K
  BY <1>4, <1>5, ListInduction
<1> QED BY <1>6 DEF K, Cut, Text

\* A text in parts that are in parts.
LEMMA FlattenNested ==
    ASSUME NEW parts \in Seq(Text), NEW g \in Seq(Seq(Text)), Len(g) = Len(parts),
           \A i \in 1..Len(parts) : FlattenSeq(g[i]) = parts[i]
    PROVE  FlattenSeq(FlattenSeq(g)) = FlattenSeq(parts)
<1> DEFINE n == Len(parts)
           G(k) == FlattenSeq(SubSeq(g, 1, k))
           C(k) == FlattenSeq(SubSeq(parts, 1, k))
           K == {k \in Nat : G(k) \in Seq(Text) /\ FlattenSeq(G(k)) = C(k)}
<1>1. n \in Nat
  OBVIOUS
<1>2. 0 \in K
  <2>1. SubSeq(g, 1, 0) = <<>> /\ SubSeq(parts, 1, 0) = <<>>
    OBVIOUS
  <2>2. G(0) = <<>> /\ C(0) = <<>>
    BY <2>1, FlattenOne
  <2>3. FlattenSeq(<<>>) = <<>>
    BY FlattenOne
  <2>4. <<>> \in Seq(Text)
    OBVIOUS
  <2> HIDE DEF G, C
  <2> QED BY <2>2, <2>3, <2>4
<1>3. ASSUME NEW k \in 1..n, k - 1 \in K PROVE k \in K
  <2>0. k \in Nat /\ (G(k) \in Seq(Text) /\ FlattenSeq(G(k)) = C(k) => k \in K)
        /\ G(k - 1) \in Seq(Text) /\ FlattenSeq(G(k - 1)) = C(k - 1)
    BY <1>3
  <2>1. /\ SubSeq(g, 1, k) = Append(SubSeq(g, 1, k - 1), g[k])
        /\ SubSeq(g, 1, k - 1) \in Seq(Seq(Text)) /\ g[k] \in Seq(Text)
    BY PrefixGrows
  <2>2. /\ SubSeq(parts, 1, k) = Append(SubSeq(parts, 1, k - 1), parts[k])
        /\ SubSeq(parts, 1, k - 1) \in Seq(Text) /\ parts[k] \in Text
    BY PrefixGrows
  <2>3. G(k) = G(k - 1) \o g[k]
    BY <2>1, FlattenAppend
  <2>4. C(k) = C(k - 1) \o parts[k]
    BY <2>2, FlattenAppend DEF Text
  <2>5. FlattenSeq(g[k]) = parts[k]
    OBVIOUS
  <2> HIDE DEF G, C, K
  <2>6. G(k) \in Seq(Text)
    BY <2>0, <2>1, <2>3, ConcatProperties
  <2>7. FlattenSeq(G(k - 1) \o g[k]) = FlattenSeq(G(k - 1)) \o FlattenSeq(g[k])
    BY <2>0, <2>1, FlattenConcat DEF Text
  <2> QED BY <2>0, <2>3, <2>4, <2>5, <2>6, <2>7
<1>4. n \in K
  <2> HIDE DEF K
  <2>1. 0..n \subseteq K
    BY <1>1, <1>2, <1>3, Filtering!UpTo
  <2> QED BY <1>1, <2>1
<1>5. SubSeq(g, 1, n) = g /\ SubSeq(parts, 1, n) = parts
  OBVIOUS
<1> QED BY <1>4, <1>5

\* The splitter's pieces are the text.
LEMMA SplitTiles == \A text \in Text : text # <<>> => Tiles(SplitParts(text), text)
<1> SUFFICES ASSUME NEW text \in Text, text # <<>> PROVE Tiles(SplitParts(text), text)
  OBVIOUS
<1> DEFINE cut == Refining!Folded(0, <<text>>, Separators)
           last == [i \in DOMAIN cut |->
                        IF Len(cut[i]) <= ChunkMax THEN <<cut[i]>> ELSE Windows(cut[i], ChunkTarget)]
           I == {parts \in Seq(Piece) : FlattenSeq(parts) = text}
<1>1. SplitParts(text) = FlattenSeq(last)
  BY DEF SplitParts, RefineTurn, Refining!Folded, FoldLeft, MapThenFoldSet, Max,
         Refining!FoldLeft, Refining!MapThenFoldSet, Refining!Max
<1>0. /\ \A r \in Seq(Piece) : r \in Seq(Text) /\ r \in Seq(Seq(Token))
      /\ \A r \in Seq(Seq(Piece)) : r \in Seq(Seq(Text))
  <2>1. \A A, B : A \subseteq B => \A r \in Seq(A) : r \in Seq(B)
    OBVIOUS
  <2>2. Piece \subseteq Text /\ Text \subseteq Seq(Token)
    BY DEF Piece, Text
  <2>3. Seq(Piece) \subseteq Seq(Text) /\ Seq(Text) \subseteq Seq(Seq(Token))
    BY <2>1, <2>2
  <2> QED BY <2>1, <2>3
<1>2. ASSUME NEW parts \in I, NEW s PROVE RefineTurn(0, parts, s) \in I
  <2> DEFINE g == [i \in DOMAIN parts |->
                      IF Len(parts[i]) <= ChunkMax THEN <<parts[i]>> ELSE CutAfter(parts[i], s)]
  <2>1. parts \in Seq(Piece) /\ FlattenSeq(parts) = text
    OBVIOUS
  <2>2. PICK n \in Nat : n = Len(parts) /\ DOMAIN parts = 1..n /\ \A i \in 1..n : parts[i] \in Piece
    BY <2>1, SeqIsFunction
  <2>3. \A i \in 1..n : g[i] \in Seq(Piece) /\ FlattenSeq(g[i]) = parts[i]
    <3> SUFFICES ASSUME NEW i \in 1..n PROVE g[i] \in Seq(Piece) /\ FlattenSeq(g[i]) = parts[i]
      OBVIOUS
    <3>1. g[i] = IF Len(parts[i]) <= ChunkMax THEN <<parts[i]>> ELSE CutAfter(parts[i], s)
      BY <2>2
    <3>2. parts[i] \in Piece /\ parts[i] \in Text /\ parts[i] \in Seq(Token)
      BY <2>2 DEF Piece, Text
    <3> DEFINE x == parts[i]
    <3> HIDE DEF x, g
    <3>3. <<x>> \in Seq(Piece) /\ FlattenSeq(<<x>>) = x
      BY <3>2, FlattenOne DEF x
    <3>4. CutAfter(x, s) \in Seq(Piece) /\ FlattenSeq(CutAfter(x, s)) = x
      BY <3>2, CutsWhole DEF x
    <3> QED BY <3>1, <3>3, <3>4 DEF x
  <2>4. RefineTurn(0, parts, s) = FlattenSeq(g)
    BY DEF RefineTurn
  <2>5. g = [i \in 1..n |-> g[i]] /\ DOMAIN g = 1..n
    BY <2>2
  <2> HIDE DEF g
  <2>6. g \in Seq(Seq(Piece)) /\ Len(g) = n
    <3>1. Listing(g, n, Seq(Piece))
      BY <2>3, <2>5 DEF Listing
    <3> QED BY <3>1, ListingIsSeq
  <2>7. FlattenSeq(g) \in Seq(Piece)
    BY <2>6, Filtering!FlattenIsSeq DEF FlattenSeq, Filtering!FlattenSeq
  <2>8. parts \in Seq(Text) /\ g \in Seq(Seq(Text))
    BY <1>0, <2>1, <2>6
  <2>9. FlattenSeq(FlattenSeq(g)) = FlattenSeq(parts)
    BY <2>2, <2>3, <2>6, <2>8, FlattenNested
  <2> QED BY <2>1, <2>4, <2>7, <2>9
<1>3. <<text>> \in I /\ Separators \in Seq(ToSet(Separators))
  <2>1. <<text>> \in Seq(Piece) /\ text \in Seq(Token)
    BY DEF Piece, Text
  <2> QED BY <2>1, FlattenOne, BudgetAssumption
<1> HIDE DEF cut, I
<1>4. cut \in I
  BY <1>2, <1>3, Refining!FoldClosed DEF Refining!Closed, cut
<1>5. cut \in Seq(Piece) /\ cut \in Seq(Text) /\ FlattenSeq(cut) = text
  BY <1>0, <1>4 DEF I
<1>6. PICK n \in Nat : n = Len(cut) /\ DOMAIN cut = 1..n /\ \A i \in 1..n : cut[i] \in Piece
  BY <1>5, SeqIsFunction
<1>7. \A i \in 1..n : last[i] \in Seq(Text) /\ Tiles(last[i], cut[i])
  <2> SUFFICES ASSUME NEW i \in 1..n PROVE last[i] \in Seq(Text) /\ Tiles(last[i], cut[i])
    OBVIOUS
  <2> DEFINE x == cut[i]
  <2>1. last[i] = IF Len(x) <= ChunkMax THEN <<x>> ELSE Windows(x, ChunkTarget)
    BY <1>6
  <2>2. x \in Text /\ Len(x) \in Nat /\ Len(x) # 0
    <3>1. x \in Piece
      BY <1>6
    <3> HIDE DEF x
    <3> QED BY <3>1 DEF Piece, Text
  <2>3. Len(x) <= ChunkMax => Len(x) \in 1..ChunkMax
    BY <2>2, SizesAreNumbers
  <2> HIDE DEF x, last
  <2>4. Tiles(last[i], x)
    BY <2>1, <2>2, <2>3, PieceTiles
  <2>5. last[i] \in Seq(Text)
    BY <2>4 DEF Tiles, Laid
  <2> QED BY <2>4, <2>5 DEF x
<1>8. last = [i \in 1..n |-> last[i]] /\ DOMAIN last = 1..n
  BY <1>6
<1> HIDE DEF last
<1>9. last \in Seq(Seq(Text)) /\ Len(last) = n
  <2>1. Listing(last, n, Seq(Text))
    BY <1>7, <1>8 DEF Listing
  <2> QED BY <2>1, ListingIsSeq
<1>10. Tiles(FlattenSeq(last), FlattenSeq(cut))
  BY <1>5, <1>6, <1>7, <1>9, TilesMany
<1> QED BY <1>1, <1>5, <1>10

\* What an oversized block is cut into: pieces within the maximum that cover it.
LEMMA PartsCover ==
    ASSUME NEW b \in Block, b.text # <<>>
    PROVE  /\ OversizedParts(b) \in Seq(Text) /\ OversizedParts(b) # <<>>
           /\ \A i \in 1..Len(OversizedParts(b)) : Len(OversizedParts(b)[i]) \in 1..ChunkMax
           /\ Covers(OversizedParts(b), b.text)
<1> DEFINE parts == OversizedParts(b)
           text == b.text
<1>1. text \in Text
  BY FieldsOfBlock
<1>2. Tiles(parts, text)
  <2>1. Tiles(SplitParts(text), text)
    BY <1>1, SplitTiles
  <2>2. Tiles(MergeParts(SplitParts(text)), text)
    BY <1>1, <2>1, MergedTile
  <2>3. Tiles(Windows(text, ChunkTarget), text)
    BY <1>1, PieceTiles
  <2> QED BY <2>2, <2>3 DEF OversizedParts
<1> HIDE DEF parts, text
<1>3. PICK s : Laid(parts, s, text) /\ Reach(parts, s) = Len(text)
  BY <1>2 DEF Tiles
<1>4. parts \in Seq(Text)
  BY <1>3 DEF Laid
<1>5. PICK n \in Nat : n = Len(parts) /\ DOMAIN parts = 1..n
  BY <1>4, SeqIsFunction
<1>6. text # <<>> /\ Len(text) # 0 /\ Len(text) \in Nat
  <2>1. text # <<>>
    BY DEF text
  <2> QED BY <1>1, <2>1 DEF Text
<1>7. parts # <<>> /\ n # 0 /\ n \in 1..n
  BY <1>3, <1>4, <1>5, <1>6, ReachIs
<1>8. ASSUME NEW i \in 1..n
      PROVE  /\ s[i] \in Nat /\ Len(parts[i]) \in 1..ChunkMax /\ s[i] + Len(parts[i]) <= Len(text)
             /\ parts[i] = SubSeq(text, s[i] + 1, s[i] + Len(parts[i]))
             /\ i = 1 => s[i] = 0
             /\ i # 1 => Joins(s[i], s[i - 1] + Len(parts[i - 1]), Len(parts[i - 1]))
  BY <1>3, <1>5 DEF Laid
<1> DEFINE start == [i \in 1..n |-> s[i]]
<1>9. \A i \in 1..n : Len(parts[i]) \in Nat /\ start[i] = s[i] /\ start[i] \in 0..Len(text)
  <2> SUFFICES ASSUME NEW i \in 1..n
               PROVE  Len(parts[i]) \in Nat /\ start[i] = s[i] /\ start[i] \in 0..Len(text)
    OBVIOUS
  <2>1. s[i] \in Nat /\ Len(parts[i]) \in 1..ChunkMax /\ s[i] + Len(parts[i]) <= Len(text)
    BY <1>8
  <2>2. Len(parts[i]) \in Nat
    BY <2>1, SizesAreNumbers
  <2> QED BY <1>6, <2>1, <2>2
<1>10. start \in [DOMAIN parts -> 0..Len(text)]
  BY <1>5, <1>9
<1>11. start[1] = 0 /\ start[Len(parts)] + Len(parts[Len(parts)]) = Len(text)
  <2>1. 1 \in 1..n /\ s[1] = 0 /\ start[1] = s[1]
    BY <1>7, <1>8
  <2>2. s[n] + Len(parts[n]) = Len(text)
    BY <1>3, <1>4, <1>5, <1>7, ReachIs
  <2> QED BY <1>5, <1>7, <1>9, <2>1, <2>2
<1> HIDE DEF start
<1>12. ASSUME NEW i \in DOMAIN parts
       PROVE  /\ parts[i] = SubSeq(text, start[i] + 1, start[i] + Len(parts[i]))
              /\ i > 1 => start[i] \in ((start[i - 1] + Len(parts[i - 1])) - Overlap)
                                            ..(start[i - 1] + Len(parts[i - 1]))
  <2>1. i \in 1..n /\ start[i] = s[i] /\ parts[i] = SubSeq(text, s[i] + 1, s[i] + Len(parts[i]))
    BY <1>5, <1>8, <1>9
  <2>2. ASSUME i > 1
        PROVE  start[i] \in ((start[i - 1] + Len(parts[i - 1])) - Overlap)
                                ..(start[i - 1] + Len(parts[i - 1]))
    <3>1. i - 1 \in 1..n /\ i # 1
      BY <2>1, <2>2
    <3>2. start[i - 1] = s[i - 1] /\ s[i - 1] \in Nat /\ Len(parts[i - 1]) \in Nat
      BY <1>8, <1>9, <3>1
    <3> DEFINE stop == s[i - 1] + Len(parts[i - 1])
    <3>3. stop \in Nat /\ Overlap \in Nat
      BY <3>2, BudgetAssumption
    <3>4. Joins(s[i], stop, Len(parts[i - 1]))
      BY <1>8, <2>1, <3>1
    <3> HIDE DEF stop
    <3>5. s[i] \in (stop - Overlap)..stop
      BY <3>3, <3>4 DEF Joins
    <3> QED BY <2>1, <3>2, <3>5 DEF stop
  <2> QED BY <2>1, <2>2
<1>13. Covers(parts, text)
  BY <1>10, <1>11, <1>12 DEF Covers
<1>14. \A i \in 1..Len(parts) : Len(parts[i]) \in 1..ChunkMax
  BY <1>5, <1>8
<1> QED BY <1>4, <1>7, <1>13, <1>14 DEF parts, text

=============================================================================
