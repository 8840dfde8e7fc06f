------------------------- MODULE ChunkCoverage_proofs -------------------------
(***************************************************************************)
(* No text is lost between the blocks and the chunks of an ingest.  The    *)
(* semantic chunker reads the prepared blocks one by one; its plan is      *)
(* proved to hold every body seen so far, and the chunks made of the plan  *)
(* to keep what it holds.                                                  *)
(***************************************************************************)
EXTENDS Chunking_proofs

----------------------------------------------------------------------------
(* Lists picked from a list that grows *)

\* One element more.
LEMMA AmongAppends ==
    \A S, T : /\ Among(<<>>, T) = <<>>
              /\ \A s \in Seq(S), x \in S :
                    Among(Append(s, x), T) = IF x \in T THEN Append(Among(s, T), x)
                                             ELSE Among(s, T)
<1> SUFFICES ASSUME NEW S, NEW T
             PROVE  /\ Among(<<>>, T) = <<>>
                    /\ \A s \in Seq(S), x \in S :
                          Among(Append(s, x), T) = IF x \in T THEN Append(Among(s, T), x)
                                                   ELSE Among(s, T)
  OBVIOUS
<1>1. \A s : Among(s, T) = Filtering!Folded(T, <<>>, s)
  BY DEF Among, FilterTurn, Filtering!Folded, FoldLeft, MapThenFoldSet, Max,
         Filtering!FoldLeft, Filtering!MapThenFoldSet, Filtering!Max
<1>2. Filtering!Folded(T, <<>>, <<>>) = <<>>
  BY Filtering!FoldAppends
<1>3. ASSUME NEW s \in Seq(S), NEW x \in S
      PROVE  Filtering!Folded(T, <<>>, Append(s, x))
                = FilterTurn(T, Filtering!Folded(T, <<>>, s), x)
  BY Filtering!FoldAppends
<1> QED BY <1>1, <1>2, <1>3 DEF FilterTurn

\* Of a list of what is picked, all.
LEMMA AmongAll == \A S, T : S \subseteq T => \A s \in Seq(S) : Among(s, T) = s
<1> SUFFICES ASSUME NEW S, NEW T, S \subseteq T PROVE \A s \in Seq(S) : Among(s, T) = s
  OBVIOUS
<1> DEFINE K == {s \in Seq(S) : Among(s, T) = s}
<1>1. <<>> \in K
  <2>1. Among(<<>>, T) = <<>>
    BY AmongAppends
  <2>2. <<>> \in Seq(S)
    OBVIOUS
  <2> QED BY <2>1, <2>2
<1>2. ASSUME NEW s \in Seq(S), NEW x \in S, s \in K PROVE Append(s, x) \in K
  <2>1. Among(Append(s, x), T) = Append(Among(s, T), x)
    BY AmongAppends
  <2>2. Append(s, x) \in Seq(S)
    BY AppendProperties
  <2> QED BY <1>2, <2>1, <2>2
<1> HIDE DEF K
<1>3. Seq(S) \subseteq K
  BY <1>1, <1>2, ListInduction
<1> QED BY <1>3 DEF K

\* Of a list of nothing that is picked, nothing.
LEMMA AmongNone == \A S, T : S \cap T = {} => \A s \in Seq(S) : Among(s, T) = <<>>
<1> SUFFICES ASSUME NEW S, NEW T, S \cap T = {} PROVE \A s \in Seq(S) : Among(s, T) = <<>>
  OBVIOUS
<1> DEFINE K == {s \in Seq(S) : Among(s, T) = <<>>}
<1>1. <<>> \in K
  <2>1. Among(<<>>, T) = <<>>
    BY AmongAppends
  <2>2. <<>> \in Seq(S)
    OBVIOUS
  <2> QED BY <2>1, <2>2
<1>2. ASSUME NEW s \in Seq(S), NEW x \in S, s \in K PROVE Append(s, x) \in K
  <2>1. Among(Append(s, x), T) = Among(s, T)
    BY AmongAppends
  <2>2. Append(s, x) \in Seq(S)
    BY AppendProperties
  <2> QED BY <1>2, <2>1, <2>2
<1> HIDE DEF K
<1>3. Seq(S) \subseteq K
  BY <1>1, <1>2, ListInduction
<1> QED BY <1>3 DEF K

\* What is picked is decided by the elements alone.
LEMMA AmongSame ==
    \A S, T, U : (\A x \in S : x \in T <=> x \in U) => \A s \in Seq(S) : Among(s, T) = Among(s, U)
<1> SUFFICES ASSUME NEW S, NEW T, NEW U, \A x \in S : x \in T <=> x \in U
             PROVE  \A s \in Seq(S) : Among(s, T) = Among(s, U)
  OBVIOUS
<1> DEFINE K == {s \in Seq(S) : Among(s, T) = Among(s, U)}
<1>1. <<>> \in K
  <2>1. Among(<<>>, T) = <<>> /\ Among(<<>>, U) = <<>>
    BY AmongAppends
  <2>2. <<>> \in Seq(S)
    OBVIOUS
  <2> QED BY <2>1, <2>2
<1>2. ASSUME NEW s \in Seq(S), NEW x \in S, s \in K PROVE Append(s, x) \in K
  <2>1. Among(Append(s, x), T) = IF x \in T THEN Append(Among(s, T), x) ELSE Among(s, T)
    BY AmongAppends
  <2>2. Among(Append(s, x), U) = IF x \in U THEN Append(Among(s, U), x) ELSE Among(s, U)
    BY AmongAppends
  <2>3. Append(s, x) \in Seq(S)
    BY AppendProperties
  <2> QED BY <1>2, <2>1, <2>2, <2>3, SMTT(30)
<1> HIDE DEF K
<1>3. Seq(S) \subseteq K
  BY <1>1, <1>2, ListInduction
<1> QED BY <1>3 DEF K

\* Two lists, one behind the other.
LEMMA AmongConcat ==
    \A S, T : \A s, t \in Seq(S) : Among(s \o t, T) = Among(s, T) \o Among(t, T)
<1> SUFFICES ASSUME NEW S, NEW T, NEW s \in Seq(S)
             PROVE  \A t \in Seq(S) : Among(s \o t, T) = Among(s, T) \o Among(t, T)
  OBVIOUS
<1> DEFINE K == {t \in Seq(S) : Among(s \o t, T) = Among(s, T) \o Among(t, T)}
           a == Among(s, T)
<1>0. \A r \in Seq(S) : Among(r, T) \in Seq(S)
  BY AmongPicks
<1>1. <<>> \in K
  <2>1. Among(<<>>, T) = <<>>
    BY AmongAppends
  <2>2. <<>> \in Seq(S)
    OBVIOUS
  <2>3. \A r \in Seq(S) : r \o <<>> = r
    OBVIOUS
  <2>4. a \in Seq(S)
    BY <1>0
  <2> QED BY <2>1, <2>2, <2>3, <2>4
<1>2. ASSUME NEW t \in Seq(S), NEW x \in S, t \in K PROVE Append(t, x) \in K
  <2> DEFINE c == Among(t, T)
             st == s \o t
  <2>1. a \in Seq(S) /\ c \in Seq(S) /\ st \in Seq(S) /\ Append(t, x) \in Seq(S)
    BY <1>0, AppendProperties, ConcatProperties
  <2>2. s \o Append(t, x) = Append(st, x)
    OBVIOUS
  <2>3. Among(Append(st, x), T) = IF x \in T THEN Append(Among(st, T), x) ELSE Among(st, T)
    <3>1. \A v \in Seq(S) :
            Among(Append(v, x), T) = IF x \in T THEN Append(Among(v, T), x) ELSE Among(v, T)
      BY AmongAppends
    <3> HIDE DEF st
    <3> QED BY <2>1, <3>1
  <2>4. Among(Append(t, x), T) = IF x \in T THEN Append(c, x) ELSE c
    BY AmongAppends
  <2>5. Among(st, T) = a \o c
    BY <1>2
  <2> HIDE DEF a, c, st
  <2>6. a \o Append(c, x) = Append(a \o c, x)
    BY <2>1
  <2>7. Among(Append(st, x), T) = a \o Among(Append(t, x), T)
    BY <2>3, <2>4, <2>5, <2>6
  <2> QED BY <2>1, <2>2, <2>7 DEF a
<1> HIDE DEF K
<1>3. Seq(S) \subseteq K
  BY <1>1, <1>2, ListInduction
<1> QED BY <1>3 DEF K

\* What p has of s is at the places of what q has of r.
Parallel(p, q, s, r) ==
    /\ Len(p) = Len(q)
    /\ \A k \in 1..Len(p) : \E i \in 1..Len(s) : p[k] = s[i] /\ q[k] = r[i]

\* Two lists that are picked from place by place.
LEMMA AmongParallel ==
    ASSUME NEW A, NEW B, NEW s \in Seq(A), NEW r \in Seq(B), NEW T, NEW U, Len(s) = Len(r),
           \A i \in 1..Len(s) : s[i] \in T <=> r[i] \in U
    PROVE  Parallel(Among(s, T), Among(r, U), s, r)
<1> DEFINE p == Among(s, T)
           q == Among(r, U)
<1>1. PICK n \in Nat : n = Len(s) /\ DOMAIN s = 1..n
  BY SeqIsFunction
<1>2. DOMAIN r = 1..n
  BY <1>1, SeqIsFunction
<1>3. p \in Seq(A) /\ \E at : Picked(p, s, T, at)
  BY AmongPicks
<1>4. q \in Seq(B) /\ \E at : Picked(q, r, U, at)
  BY AmongPicks
<1> HIDE DEF p, q
<1>5. PICK f : Picked(p, s, T, f)
  BY <1>3
<1>6. PICK g : Picked(q, r, U, g)
  BY <1>4
<1>7. PICK l \in Nat : l = Len(p)
  BY <1>3, SeqIsFunction
<1>8. PICK m \in Nat : m = Len(q)
  BY <1>4, SeqIsFunction
<1> DEFINE I == {i \in 1..n : s[i] \in T}
<1>9. Rising(f, l, I)
  <2>1. /\ f \in [1..l -> 1..n] /\ \A j, k \in 1..l : j < k => f[j] < f[k]
        /\ \A k \in 1..l : p[k] = s[f[k]] /\ p[k] \in T
        /\ \A i \in 1..n : s[i] \in T => \E k \in 1..l : f[k] = i
    BY <1>1, <1>5, <1>7 DEF Picked
  <2>2. \A k \in 1..l : f[k] \in 1..n
    BY <2>1
  <2> QED BY <2>1, <2>2 DEF Rising
<1>10. Rising(g, m, I)
  <2>1. /\ g \in [1..m -> 1..n] /\ \A j, k \in 1..m : j < k => g[j] < g[k]
        /\ \A k \in 1..m : q[k] = r[g[k]] /\ q[k] \in U
        /\ \A i \in 1..n : r[i] \in U => \E k \in 1..m : g[k] = i
    BY <1>2, <1>6, <1>8 DEF Picked
  <2>2. \A k \in 1..m : g[k] \in 1..n
    BY <2>1
  <2>3. \A i \in 1..n : s[i] \in T <=> r[i] \in U
    BY <1>1
  <2> QED BY <2>1, <2>2, <2>3 DEF Rising
<1>11. l = m /\ \A k \in 1..m : f[k] = g[k]
  <2>1. I \subseteq Int
    OBVIOUS
  <2> HIDE DEF I
  <2>2. l = m /\ Coincide(f, g, m)
    BY <1>9, <1>10, <2>1, RisingIsUnique
  <2> QED BY <2>2 DEF Coincide
<1>12. ASSUME NEW k \in 1..l PROVE \E i \in 1..n : p[k] = s[i] /\ q[k] = r[i]
  <2>1. p[k] = s[f[k]] /\ f[k] \in 1..n
    BY <1>1, <1>5, <1>7 DEF Picked
  <2>2. q[k] = r[g[k]] /\ f[k] = g[k]
    BY <1>6, <1>8, <1>11 DEF Picked
  <2> QED BY <2>1, <2>2
<1>13. Parallel(p, q, s, r)
  BY <1>1, <1>7, <1>8, <1>11, <1>12 DEF Parallel
<1> QED BY <1>13 DEF p, q

\* Names that repeat the last one add it once.
LEMMA DistinctAgain ==
    \A S : \A s \in Seq(S), b \in S : b \notin ToSet(s) =>
        \A t \in Seq({b}) : t # <<>> => Distinct(s \o t) = Append(Distinct(s), b)
<1> SUFFICES ASSUME NEW S, NEW s \in Seq(S), NEW b \in S, b \notin ToSet(s)
             PROVE  \A t \in Seq({b}) : t # <<>> => Distinct(s \o t) = Append(Distinct(s), b)
  OBVIOUS
<1> DEFINE d == Distinct(s)
           e == Append(d, b)
           K == {t \in Seq({b}) : t # <<>> => Distinct(s \o t) = e}
<1>1. d \in Seq(S) /\ ToSet(d) = ToSet(s)
  BY DistinctNames
<1>2. ~Contains(d, b) /\ Contains(e, b)
  <2>1. Contains(d, b) <=> b \in ToSet(d)
    BY <1>1, ContainsAppended
  <2>2. \A y : Contains(Append(d, b), y) <=> Contains(d, y) \/ y = b
    BY <1>1, ContainsAppended
  <2> QED BY <1>1, <2>1, <2>2
<1>3. <<>> \in K
  OBVIOUS
<1>4. ASSUME NEW t \in Seq({b}), NEW x \in {b}, t \in K PROVE Append(t, x) \in K
  <2>1. t \in Seq(S) /\ Append(t, x) \in Seq({b}) /\ s \o t \in Seq(S) /\ x = b
    OBVIOUS
  <2>2. s \o Append(t, x) = Append(s \o t, b)
    BY <2>1
  <2>3. Distinct(Append(s \o t, b)) = DistinctTurn(0, Distinct(s \o t), b)
    BY <2>1, DistinctAppends
  <2>4. CASE t = <<>>
    <3>1. s \o t = s
      BY <2>4
    <3> QED BY <1>2, <2>1, <2>2, <2>3, <3>1 DEF DistinctTurn
  <2>5. CASE t # <<>>
    <3>1. Distinct(s \o t) = e
      BY <1>4, <2>5
    <3> HIDE DEF e
    <3> QED BY <1>2, <2>1, <2>2, <2>3, <3>1 DEF DistinctTurn
  <2> QED BY <2>4, <2>5
<1> HIDE DEF K
<1>5. Seq({b}) \subseteq K
  BY <1>3, <1>4, ListInduction
<1> QED BY <1>5 DEF K


----------------------------------------------------------------------------
(* The raw chunks of the semantic chunker *)

RawKinds == {"heading_anchored", "table_aware", "standalone", "recursive", "sliding",
          "semantic_merge", "code", "list", "definition", "table", "image", "paragraph"}

\* A raw chunk is not empty, its body ends its text and is the text of its
\* blocks, unless it is a piece of one block, and is within the maximum, unless
\* that block stands alone.
Fits(r) ==
    /\ r.text # <<>> /\ r.blocks # <<>>
    /\ SubSeq(r.text, Len(r.text) - Len(r.body) + 1, Len(r.text)) = r.body
    /\ Len(r.body) <= ChunkMax \/ IsStandalone(Head(r.blocks))
    /\ Len(r.blocks) > 1 => \A b \in ToSet(r.blocks) : Strategy(b) = "semantic_merge"
    /\ IsWindowed(Head(r.blocks)) \/ r.body = FlattenSeq(TextsOf(r.blocks))

RawChunk == {r \in [text : Text, body : Text, blocks : Seq(Block), strategy : RawKinds,
                    type : RawKinds, anchor : Text] : Fits(r)}

\* The chunks that hold a block, and those that hold nothing else.
Holders(b) == {r \in RawChunk : Contains(r.blocks, b)}
OnlyOf(b) == {r \in RawChunk : r.blocks = <<b>>}

\* The blocks whose text belongs into a chunk.
Bodies == {b \in Block : Strategy(b) # "heading_anchored"}

SourcesOf(raws) == FlattenSeq([i \in DOMAIN raws |-> raws[i].blocks])

\* The chunks that hold a block have its whole text.
Settled(held, b) ==
    IF IsWindowed(b)
    THEN /\ Len(held) = Len(OversizedParts(b))
         /\ \A i \in 1..Len(held) : held[i].body = OversizedParts(b)[i]
    ELSE Len(held) = 1

\* The raw chunks are those of the blocks that have been seen.
ChunksOfSeen(raws, seen) ==
    /\ raws \in Seq(RawChunk)
    /\ Distinct(SourcesOf(raws)) = Among(seen, Bodies)
    /\ \A b \in Block : IF b \in ToSet(seen) \cap Bodies
                        THEN Settled(Among(raws, Holders(b)), b)
                        ELSE Among(raws, Holders(b)) = <<>>

\* The sources of one chunk more.
LEMMA SourcesAppend ==
    \A raws \in Seq(RawChunk) :
        /\ SourcesOf(raws) \in Seq(Block)
        /\ \A x \in RawChunk : SourcesOf(Append(raws, x)) = SourcesOf(raws) \o x.blocks
<1> SUFFICES ASSUME NEW raws \in Seq(RawChunk)
             PROVE  /\ SourcesOf(raws) \in Seq(Block)
                    /\ \A x \in RawChunk : SourcesOf(Append(raws, x)) = SourcesOf(raws) \o x.blocks
  OBVIOUS
<1> DEFINE Each(rs) == [i \in DOMAIN rs |-> rs[i].blocks]
<1>0. \A r \in RawChunk : r.blocks \in Seq(Block)
  BY DEF RawChunk
<1>1. ASSUME NEW rs \in Seq(RawChunk) PROVE Each(rs) \in Seq(Seq(Block)) /\ Len(Each(rs)) = Len(rs)
  <2>1. PICK n \in Nat : n = Len(rs) /\ DOMAIN rs = 1..n /\ \A i \in 1..n : rs[i] \in RawChunk
    BY SeqIsFunction
  <2>2. Listing(Each(rs), n, Seq(Block))
    BY <1>0, <2>1 DEF Listing
  <2> HIDE DEF Each
  <2> QED BY <2>1, <2>2, ListingIsSeq
<1>2. SourcesOf(raws) \in Seq(Block)
  <2> HIDE DEF Each
  <2>1. SourcesOf(raws) = FlattenSeq(Each(raws))
    BY DEF SourcesOf, Each
  <2> QED BY <1>1, <2>1, Filtering!FlattenIsSeq DEF FlattenSeq, Filtering!FlattenSeq
<1>3. ASSUME NEW x \in RawChunk PROVE SourcesOf(Append(raws, x)) = SourcesOf(raws) \o x.blocks
  <2> DEFINE u == Each(Append(raws, x))
             v == Append(Each(raws), x.blocks)
  <2>1. PICK n \in Nat : n = Len(raws) /\ DOMAIN raws = 1..n /\ \A i \in 1..n : raws[i] \in RawChunk
    BY SeqIsFunction
  <2>2. /\ Append(raws, x) \in Seq(RawChunk) /\ Len(Append(raws, x)) = n + 1
        /\ DOMAIN Append(raws, x) = 1..(n + 1)
        /\ Append(raws, x)[n + 1] = x /\ \A i \in 1..n : Append(raws, x)[i] = raws[i]
    BY <2>1, AppendProperties
  <2>3. \A i \in 1..(n + 1) : u[i] = IF i = n + 1 THEN x.blocks ELSE raws[i].blocks
    BY <2>2
  <2>4. \A i \in 1..n : Each(raws)[i] = raws[i].blocks
    BY <2>1
  <2>5. u \in Seq(Seq(Block)) /\ Len(u) = n + 1 /\ Each(raws) \in Seq(Seq(Block)) /\ Len(Each(raws)) = n
    BY <1>1, <2>1, <2>2
  <2> HIDE DEF Each
  <2>6. x.blocks \in Seq(Block)
    BY <1>0
  <2>7. /\ v \in Seq(Seq(Block)) /\ Len(v) = n + 1 /\ v[n + 1] = x.blocks
        /\ \A i \in 1..n : v[i] = Each(raws)[i]
    BY <2>5, <2>6, AppendProperties
  <2>8. \A i \in 1..(n + 1) : u[i] = v[i]
    <3>1. \A i \in 1..(n + 1) : i = n + 1 \/ (i \in 1..n /\ i # n + 1)
      OBVIOUS
    <3> HIDE DEF u, v
    <3> QED BY <2>3, <2>4, <2>7, <3>1
  <2>9. u = v
    <3> HIDE DEF u, v
    <3> QED BY <2>5, <2>7, <2>8, SeqEqual
  <2>10. FlattenSeq(v) = FlattenSeq(Each(raws)) \o x.blocks
    BY <2>5, <2>6, FlattenAppend
  <2> QED BY <2>9, <2>10 DEF SourcesOf, Each
<1> QED BY <1>2, <1>3

\* The sources of chunks of one block.
LEMMA SourcesOnlyOf ==
    ASSUME NEW raws \in Seq(RawChunk), NEW b \in Block
    PROVE  \A cut \in Seq(OnlyOf(b)) : cut # <<>> =>
                \E t \in Seq({b}) : t # <<>> /\ SourcesOf(raws \o cut) = SourcesOf(raws) \o t
<1> DEFINE s == SourcesOf(raws)
           K == {cut \in Seq(OnlyOf(b)) :
                    \E t \in Seq({b}) : /\ cut # <<>> => t # <<>>
                                        /\ SourcesOf(raws \o cut) = s \o t}
<1>0. s \in Seq(Block) /\ \A S : \A r \in Seq(S) : r \o <<>> = r
  BY SourcesAppend
<1>1. <<>> \in K
  <2>1. raws \o <<>> = raws /\ s \o <<>> = s
    BY <1>0
  <2>2. <<>> \in Seq(OnlyOf(b)) /\ <<>> \in Seq({b})
    OBVIOUS
  <2> HIDE DEF s
  <2> QED BY <2>1, <2>2 DEF s
<1>2. ASSUME NEW cut \in Seq(OnlyOf(b)), NEW x \in OnlyOf(b), cut \in K
      PROVE  Append(cut, x) \in K
  <2>1. PICK t \in Seq({b}) : SourcesOf(raws \o cut) = s \o t
    BY <1>2
  <2>2. x \in RawChunk /\ x.blocks = <<b>>
    BY DEF OnlyOf
  <2>3. cut \in Seq(RawChunk) /\ Append(cut, x) \in Seq(OnlyOf(b))
    <3>1. OnlyOf(b) \subseteq RawChunk
      BY DEF OnlyOf
    <3>2. \A A, B : A \subseteq B => \A r \in Seq(A) : r \in Seq(B)
      OBVIOUS
    <3> QED BY <3>1, <3>2, AppendProperties
  <2> DEFINE rc == raws \o cut
             more == Append(t, b)
  <2>4. rc \in Seq(RawChunk) /\ raws \o Append(cut, x) = Append(rc, x)
    BY <2>2, <2>3
  <2>5. SourcesOf(Append(rc, x)) = SourcesOf(rc) \o <<b>>
    <3> HIDE DEF rc
    <3> QED BY <2>2, <2>4, SourcesAppend
  <2>6. more \in Seq({b}) /\ more # <<>> /\ s \o more = (s \o t) \o <<b>>
    <3>1. t \in Seq(Block)
      OBVIOUS
    <3>2. b \in {b} /\ more \in Seq({b}) /\ more # <<>>
      BY AppendProperties
    <3> HIDE DEF s
    <3>3. s \o Append(t, b) = (s \o t) \o <<b>>
      BY <1>0, <3>1
    <3> QED BY <3>2, <3>3
  <2>7. SourcesOf(raws \o Append(cut, x)) = s \o more
    BY <2>1, <2>4, <2>5, <2>6
  <2> HIDE DEF s, more, rc
  <2> QED BY <2>3, <2>6, <2>7
<1> HIDE DEF K
<1>3. Seq(OnlyOf(b)) \subseteq K
  BY <1>1, <1>2, ListInduction
<1> QED BY <1>3 DEF K


\* A heading adds nothing.
LEMMA HeadingSeen ==
    ASSUME NEW raws, NEW seen \in Seq(Block), ChunksOfSeen(raws, seen),
           NEW b \in Block, b \notin Bodies
    PROVE  ChunksOfSeen(raws, Append(seen, b))
<1> DEFINE more == Append(seen, b)
<1>1. Among(more, Bodies) = Among(seen, Bodies)
  BY AmongAppends
<1>2. \A c : c \in ToSet(more) <=> c \in ToSet(seen) \/ c = b
  <2>1. more \in Seq(Block)
    BY AppendProperties
  <2>2. \A c : /\ Contains(more, c) <=> Contains(seen, c) \/ c = b
               /\ Contains(seen, c) <=> c \in ToSet(seen)
    BY ContainsAppended
  <2> HIDE DEF more
  <2>3. \A c : Contains(more, c) <=> c \in ToSet(more)
    BY <2>1, ContainsAppended
  <2> QED BY <2>2, <2>3
<1>3. \A c : c \in ToSet(more) \cap Bodies <=> c \in ToSet(seen) \cap Bodies
  <2> HIDE DEF more
  <2> QED BY <1>2
<1> HIDE DEF more
<1>4. ChunksOfSeen(raws, more)
  BY <1>1, <1>3 DEF ChunksOfSeen
<1> QED BY <1>4 DEF more

\* A block that was not seen before has no chunk, and what is seen with it.
LEMMA FreshBlock ==
    ASSUME NEW raws, NEW seen \in Seq(Block), ChunksOfSeen(raws, seen),
           NEW b \in Bodies, b \notin ToSet(seen)
    PROVE  /\ b \notin ToSet(SourcesOf(raws)) /\ Among(raws, Holders(b)) = <<>>
           /\ Among(Append(seen, b), Bodies) = Append(Distinct(SourcesOf(raws)), b)
           /\ \A c : c \in ToSet(Append(seen, b)) <=> c \in ToSet(seen) \/ c = b
<1> DEFINE s == SourcesOf(raws)
           more == Append(seen, b)
<1>0. b \in Block /\ raws \in Seq(RawChunk) /\ s \in Seq(Block)
  BY SourcesAppend DEF Bodies, ChunksOfSeen
<1>1. Distinct(s) = Among(seen, Bodies) /\ ToSet(Distinct(s)) = ToSet(s)
  BY <1>0, DistinctNames DEF ChunksOfSeen
<1>2. ToSet(Among(seen, Bodies)) = ToSet(seen) \cap Bodies
  BY AmongPicks
<1>3. b \notin ToSet(s)
  <2> HIDE DEF s
  <2> QED BY <1>1, <1>2
<1>4. Among(raws, Holders(b)) = <<>>
  BY <1>0 DEF ChunksOfSeen
<1>5. Among(more, Bodies) = Append(Among(seen, Bodies), b)
  BY <1>0, AmongAppends
<1>6. \A c : c \in ToSet(more) <=> c \in ToSet(seen) \/ c = b
  <2>1. more \in Seq(Block)
    BY <1>0, AppendProperties
  <2>2. \A c : /\ Contains(more, c) <=> Contains(seen, c) \/ c = b
               /\ Contains(seen, c) <=> c \in ToSet(seen)
    BY <1>0, ContainsAppended
  <2> HIDE DEF more
  <2>3. \A c : Contains(more, c) <=> c \in ToSet(more)
    BY <2>1, ContainsAppended
  <2> QED BY <2>2, <2>3
<1> QED BY <1>1, <1>3, <1>4, <1>5, <1>6

\* The chunks of a new block are added.
LEMMA ChunksAdded ==
    ASSUME NEW raws, NEW seen \in Seq(Block), ChunksOfSeen(raws, seen),
           NEW b \in Bodies, b \notin ToSet(seen),
           NEW cut \in Seq(OnlyOf(b)), cut # <<>>, Settled(cut, b)
    PROVE  ChunksOfSeen(raws \o cut, Append(seen, b))
<1> DEFINE s == SourcesOf(raws)
           more == Append(seen, b)
           all == raws \o cut
<1>1. b \in Block /\ raws \in Seq(RawChunk) /\ s \in Seq(Block)
  BY SourcesAppend DEF Bodies, ChunksOfSeen
<1>2. cut \in Seq(RawChunk) /\ \A S : S \subseteq RawChunk => \A r \in Seq(S) : r \in Seq(RawChunk)
  <2>1. OnlyOf(b) \subseteq RawChunk
    BY DEF OnlyOf
  <2>2. \A A, B : A \subseteq B => \A r \in Seq(A) : r \in Seq(B)
    OBVIOUS
  <2> QED BY <2>1, <2>2
<1>3. all \in Seq(RawChunk)
  BY <1>1, <1>2, ConcatProperties
<1>4. /\ b \notin ToSet(s) /\ Among(raws, Holders(b)) = <<>>
      /\ Among(more, Bodies) = Append(Distinct(s), b)
      /\ \A c : c \in ToSet(more) <=> c \in ToSet(seen) \/ c = b
  BY FreshBlock
<1>5. Distinct(SourcesOf(all)) = Among(more, Bodies)
  <2>1. PICK t \in Seq({b}) : t # <<>> /\ SourcesOf(all) = s \o t
    BY <1>1, SourcesOnlyOf
  <2> HIDE DEF s, all, more
  <2>2. Distinct(s \o t) = Append(Distinct(s), b)
    BY <1>1, <1>4, <2>1, DistinctAgain
  <2> QED BY <1>4, <2>1, <2>2
<1>6. ASSUME NEW c \in Block
      PROVE  Among(all, Holders(c)) = IF c = b THEN cut ELSE Among(raws, Holders(c))
  <2>1. Among(all, Holders(c)) = Among(raws, Holders(c)) \o Among(cut, Holders(c))
    BY <1>1, <1>2, AmongConcat
  <2>2. \A x \in OnlyOf(b) : x \in Holders(c) <=> c = b
    <3>1. Contains(<<b>>, c) <=> c = b
      BY DEF Contains
    <3> QED BY <3>1 DEF OnlyOf, Holders
  <2>3. CASE c = b
    <3>1. OnlyOf(b) \subseteq Holders(b)
      BY <2>2, <2>3
    <3>2. Among(cut, Holders(b)) = cut
      BY <3>1, AmongAll
    <3>3. <<>> \o cut = cut
      BY <1>2
    <3> QED BY <1>4, <2>1, <2>3, <3>2, <3>3
  <2>4. CASE c # b
    <3>1. OnlyOf(b) \cap Holders(c) = {}
      BY <2>2, <2>4
    <3>2. Among(cut, Holders(c)) = <<>>
      BY <3>1, AmongNone
    <3>3. Among(raws, Holders(c)) \in Seq(RawChunk) /\ \A S : \A r \in Seq(S) : r \o <<>> = r
      BY <1>1, AmongPicks
    <3> QED BY <2>1, <2>4, <3>2, <3>3
  <2> QED BY <2>3, <2>4
<1>7. ASSUME NEW c \in Block
      PROVE  IF c \in ToSet(more) \cap Bodies THEN Settled(Among(all, Holders(c)), c)
             ELSE Among(all, Holders(c)) = <<>>
  <2> HIDE DEF all, more
  <2>1. CASE c = b
    BY <1>4, <1>6, <2>1
  <2>2. CASE c # b
    <3>1. IF c \in ToSet(seen) \cap Bodies THEN Settled(Among(raws, Holders(c)), c)
          ELSE Among(raws, Holders(c)) = <<>>
      BY DEF ChunksOfSeen
    <3> QED BY <1>4, <1>6, <2>2, <3>1
  <2> QED BY <2>1, <2>2
<1> HIDE DEF all, more
<1>8. ChunksOfSeen(all, more)
  BY <1>3, <1>5, <1>7 DEF ChunksOfSeen
<1> QED BY <1>8 DEF all, more

\* A new block is put into the last chunk.
LEMMA ChunkMerged ==
    ASSUME NEW raws \in Seq(RawChunk), NEW x \in RawChunk, NEW y \in RawChunk,
           NEW seen \in Seq(Block), ChunksOfSeen(Append(raws, x), seen),
           NEW b \in Bodies, b \notin ToSet(seen), ~IsWindowed(b),
           y.blocks = Append(x.blocks, b), \A c \in ToSet(x.blocks) : ~IsWindowed(c)
    PROVE  ChunksOfSeen(Append(raws, y), Append(seen, b))
<1> DEFINE s == SourcesOf(raws)
           u == Append(raws, x)
           v == Append(raws, y)
           more == Append(seen, b)
<1>1. /\ b \in Block /\ s \in Seq(Block) /\ x.blocks \in Seq(Block)
      /\ u \in Seq(RawChunk) /\ v \in Seq(RawChunk)
  BY SourcesAppend, AppendProperties DEF Bodies, RawChunk
<1>2. /\ Among(u, Holders(b)) = <<>>
      /\ Among(more, Bodies) = Append(Distinct(SourcesOf(u)), b)
      /\ \A c : c \in ToSet(more) <=> c \in ToSet(seen) \/ c = b
      /\ b \notin ToSet(SourcesOf(u))
  BY FreshBlock
<1>3. SourcesOf(u) = s \o x.blocks /\ SourcesOf(v) = s \o y.blocks
  BY SourcesAppend
<1>4. Distinct(SourcesOf(v)) = Among(more, Bodies)
  <2> HIDE DEF s, u, v, more
  <2>1. s \o Append(x.blocks, b) = Append(s \o x.blocks, b)
    BY <1>1, SMTT(30)
  <2>2. s \o x.blocks \in Seq(Block)
    BY <1>1, ConcatProperties
  <2>3. Distinct(Append(s \o x.blocks, b)) = DistinctTurn(0, Distinct(s \o x.blocks), b)
    BY <1>1, <2>2, DistinctAppends
  <2> DEFINE d == Distinct(s \o x.blocks)
  <2>4. d \in Seq(Block) /\ ToSet(d) = ToSet(s \o x.blocks)
    BY <2>2, DistinctNames
  <2>5. ~Contains(d, b)
    <3>1. Contains(d, b) <=> b \in ToSet(d)
      BY <1>1, <2>4, ContainsAppended
    <3> QED BY <1>2, <1>3, <2>4, <3>1
  <2>6. Distinct(Append(s \o x.blocks, b)) = Append(d, b)
    BY <2>3, <2>5 DEF DistinctTurn
  <2> QED BY <1>2, <1>3, <2>1, <2>6
<1>5. \A c : /\ y \in Holders(c) <=> x \in Holders(c) \/ c = b
             /\ x \in Holders(c) <=> c \in ToSet(x.blocks)
  <2>1. \A c : /\ Contains(Append(x.blocks, b), c) <=> Contains(x.blocks, c) \/ c = b
               /\ Contains(x.blocks, c) <=> c \in ToSet(x.blocks)
    BY <1>1, ContainsAppended
  <2> QED BY <2>1 DEF Holders
<1>6. ASSUME NEW c \in Block
      PROVE  /\ Among(u, Holders(c)) = IF x \in Holders(c) THEN Append(Among(raws, Holders(c)), x)
                                       ELSE Among(raws, Holders(c))
             /\ Among(v, Holders(c)) = IF y \in Holders(c) THEN Append(Among(raws, Holders(c)), y)
                                       ELSE Among(raws, Holders(c))
  BY AmongAppends
<1>7. ASSUME NEW c \in Block
      PROVE  IF c \in ToSet(more) \cap Bodies THEN Settled(Among(v, Holders(c)), c)
             ELSE Among(v, Holders(c)) = <<>>
  <2> DEFINE a == Among(raws, Holders(c))
  <2>1. a \in Seq(RawChunk)
    BY AmongPicks
  <2>2. /\ Among(u, Holders(c)) = IF x \in Holders(c) THEN Append(a, x) ELSE a
        /\ Among(v, Holders(c)) = IF y \in Holders(c) THEN Append(a, y) ELSE a
    BY <1>6
  <2>3. IF c \in ToSet(seen) \cap Bodies THEN Settled(Among(u, Holders(c)), c)
        ELSE Among(u, Holders(c)) = <<>>
    BY DEF ChunksOfSeen
  <2> HIDE DEF a, u, v, more
  <2>4. /\ Append(a, x) # <<>> /\ Len(Append(a, x)) = Len(a) + 1 /\ Len(Append(a, y)) = Len(a) + 1
        /\ Append(<<>>, y) = <<y>> /\ Len(<<y>>) = 1
    BY <2>1
  <2>5. CASE c = b
    <3>1. a = <<>>
      BY <1>2, <2>2, <2>4, <2>5
    <3>2. Among(v, Holders(c)) = <<y>>
      BY <1>5, <2>2, <2>4, <2>5, <3>1
    <3> QED BY <1>2, <2>4, <2>5, <3>2 DEF Settled
  <2>6. CASE c # b /\ x \in Holders(c)
    <3>1. ~IsWindowed(c) /\ y \in Holders(c)
      BY <1>5, <2>6
    <3>2. c \in ToSet(seen) \cap Bodies
      BY <2>2, <2>3, <2>4, <2>6
    <3>3. Len(Append(a, x)) = 1
      BY <2>2, <2>3, <2>6, <3>1, <3>2 DEF Settled
    <3> QED BY <1>2, <2>2, <2>4, <3>1, <3>2, <3>3 DEF Settled
  <2>7. CASE c # b /\ x \notin Holders(c)
    <3>1. Among(v, Holders(c)) = Among(u, Holders(c))
      BY <1>5, <2>2, <2>7
    <3> QED BY <1>2, <2>3, <2>7, <3>1
  <2> QED BY <2>5, <2>6, <2>7
<1> HIDE DEF u, v, more
<1>8. ChunksOfSeen(v, more)
  BY <1>1, <1>4, <1>7 DEF ChunksOfSeen
<1> QED BY <1>8 DEF v, more


----------------------------------------------------------------------------
(* One block of the plan *)

\* How a block is planned, and what its chunks are called.
LEMMA Strategies ==
    \A b : /\ Strategy(b) \in RawKinds /\ TypeOfBlock(b) \in RawKinds
           /\ \A bs : TypeOfMerge(bs) \in RawKinds
           /\ Strategy(b) = "semantic_merge" =>
                Len(b.text) <= ChunkMax /\ ~IsWindowed(b) /\ ~IsStandalone(b)
           /\ Strategy(b) \in {"heading_anchored", "semantic_merge"}
                \/ IsWindowed(b) \/ IsStandalone(b)
           /\ IsWindowed(b) \/ IsStandalone(b) => Strategy(b) # "heading_anchored"
           /\ ~(IsWindowed(b) /\ IsStandalone(b))
BY BudgetAssumption DEF Strategy, TypeOfBlock, TypeOfMerge, RawKinds, IsWindowed, IsStandalone

\* The last element of a list of texts.
LEMMA LastOfTexts == \A s \in Seq(Text) : s # <<>> => Last(s) \in Text
<1> SUFFICES ASSUME NEW s \in Seq(Text), s # <<>> PROVE Last(s) \in Text
  OBVIOUS
<1>1. PICK n \in Nat : n = Len(s) /\ \A i \in 1..n : s[i] \in Text
  BY SeqIsFunction
<1>2. n # 0
  BY <1>1, EmptySeq
<1>3. n \in 1..n
  BY <1>2
<1> QED BY <1>1, <1>3 DEF Last

\* Headings and anchors are texts.
LEMMA HeadingsAreTexts ==
    \A b \in Block :
        /\ AnchorOf(b) \in Text
        /\ \A blocks0 \in Seq(Block), anchor \in Text :
                blocks0 # <<>> /\ Head(blocks0) = b => DisplayHeading(blocks0, anchor) \in Text
<1> SUFFICES ASSUME NEW b \in Block
             PROVE  /\ AnchorOf(b) \in Text
                    /\ \A blocks0 \in Seq(Block), anchor \in Text :
                            blocks0 # <<>> /\ Head(blocks0) = b =>
                                DisplayHeading(blocks0, anchor) \in Text
  OBVIOUS
<1>1. b.section \in Text /\ b.parents \in Seq(Text)
  BY FieldsOfBlock
<1>2. AnchorOf(b) \in Text
  <2> DEFINE path == IF b.type = "heading" THEN Append(b.parents, b.section)
                     ELSE IF b.parents # <<>> THEN b.parents ELSE <<b.section>>
             words == WordsOf(FlattenSeq(path))
  <2>1. path \in Seq(Text)
    BY <1>1, AppendProperties
  <2>2. AnchorOf(b) = Either(words, <<"untitled", "section">>)
    BY DEF AnchorOf
  <2> HIDE DEF path
  <2>3. FlattenSeq(path) \in Seq(Token)
    BY <2>1, Filtering!FlattenIsSeq DEF FlattenSeq, Filtering!FlattenSeq, Text
  <2>4. words \in Seq(Token)
    BY <2>3, AmongPicks DEF WordsOf, Those
  <2>5. <<"untitled", "section">> \in Seq(Token)
    <3>1. "untitled" \in Token /\ "section" \in Token
      BY DEF Token
    <3> QED BY <3>1
  <2> HIDE DEF words
  <2> QED BY <2>2, <2>4, <2>5 DEF Either, Text
<1>3. ASSUME NEW blocks0 \in Seq(Block), NEW anchor \in Text, Head(blocks0) = b
      PROVE  DisplayHeading(blocks0, anchor) \in Text
  <2> DEFINE all == <<b.section>> \o b.parents
             labels == Those(all, LAMBDA s : s \notin Placeholders)
  <2>1. all \in Seq(Text)
    <3>1. <<b.section>> \in Seq(Text)
      BY <1>1
    <3> QED BY <1>1, <3>1, ConcatProperties
  <2>2. DisplayHeading(blocks0, anchor) = IF labels = <<>> THEN anchor ELSE Last(labels)
    BY <1>3 DEF DisplayHeading
  <2> HIDE DEF all
  <2>3. labels \in Seq(Text)
    BY <2>1, AmongPicks DEF Those
  <2> HIDE DEF labels
  <2> QED BY <2>2, <2>3, LastOfTexts
<1> QED BY <1>2, <1>3

\* A title is put before a body, or nothing is.
LEMMA ComposedText ==
    \A title, body \in Text :
        /\ title \o body \in Text
        /\ SubSeq(title \o body, Len(title \o body) - Len(body) + 1, Len(title \o body)) = body
        /\ SubSeq(body, Len(body) - Len(body) + 1, Len(body)) = body
        /\ body # <<>> => title \o body # <<>>
<1> SUFFICES ASSUME NEW title \in Text, NEW body \in Text
             PROVE  /\ title \o body \in Text
                    /\ SubSeq(title \o body, Len(title \o body) - Len(body) + 1,
                              Len(title \o body)) = body
                    /\ SubSeq(body, Len(body) - Len(body) + 1, Len(body)) = body
                    /\ body # <<>> => title \o body # <<>>
  OBVIOUS
<1>1. title \in Seq(Token) /\ body \in Seq(Token)
  BY DEF Text
<1>2. PICK l \in Nat : l = Len(title)
  BY <1>1, SeqIsFunction
<1>3. PICK m \in Nat : m = Len(body) /\ DOMAIN body = 1..m
  BY <1>1, SeqIsFunction
<1> DEFINE t == title \o body
<1>4. /\ t \in Seq(Token) /\ Len(t) = l + m
      /\ \A i \in 1..m : t[l + i] = body[i]
  BY <1>1, <1>2, <1>3
<1> HIDE DEF t
<1>5. (l + m) - m + 1 = l + 1 /\ m - m + 1 = 1
  BY <1>2, <1>3
<1> DEFINE u == SubSeq(t, l + 1, l + m)
<1>6. u = body
  <2>1. u \in Seq(Token) /\ Len(u) = m /\ \A i \in 1..m : u[i] = t[l + i]
    BY <1>4
  <2> HIDE DEF u
  <2>2. \A i \in 1..m : u[i] = body[i]
    BY <1>4, <2>1
  <2> QED BY <1>1, <1>3, <2>1, <2>2, SeqEqual
<1>7. SubSeq(body, 1, m) = body
  BY <1>1, <1>3
<1>8. body # <<>> => t # <<>>
  <2> SUFFICES ASSUME body # <<>>, t = <<>> PROVE FALSE
    OBVIOUS
  <2>1. m # 0
    BY <1>1, <1>3, EmptySeq
  <2>2. Len(t) = 0
    OBVIOUS
  <2> QED BY <1>4, <2>1, <2>2
<1>9. SubSeq(t, Len(t) - Len(body) + 1, Len(t)) = body
  BY <1>3, <1>4, <1>5, <1>6
<1>10. SubSeq(body, Len(body) - Len(body) + 1, Len(body)) = body
  BY <1>3, <1>5, <1>7
<1> QED BY <1>4, <1>8, <1>9, <1>10 DEF t, Text

\* What the builder makes of some parts is a raw chunk.
LEMMA RawIsChunk ==
    ASSUME NEW parts \in Seq(Text), FlattenSeq(parts) # <<>>,
           NEW bs \in Seq(Block), bs # <<>>, NEW strategy \in RawKinds, NEW type \in RawKinds,
           NEW anchor \in Text,
           Len(FlattenSeq(parts)) <= ChunkMax \/ IsStandalone(Head(bs)),
           Len(bs) > 1 => \A b \in ToSet(bs) : Strategy(b) = "semantic_merge",
           IsWindowed(Head(bs)) \/ FlattenSeq(parts) = FlattenSeq(TextsOf(bs))
    PROVE  /\ Raw(parts, bs, strategy, type, anchor) \in RawChunk
           /\ Raw(parts, bs, strategy, type, anchor).blocks = bs
           /\ Raw(parts, bs, strategy, type, anchor).body = FlattenSeq(parts)
<1> DEFINE r == Raw(parts, bs, strategy, type, anchor)
           body == FlattenSeq(parts)
           title == DisplayHeading(bs, anchor)
           text == ComposeText(parts, bs, anchor)
<1>1. body \in Text
  BY Filtering!FlattenIsSeq DEF FlattenSeq, Filtering!FlattenSeq, Text
<1>2. title \in Text
  <2>1. Head(bs) \in Block
    OBVIOUS
  <2> QED BY <2>1, HeadingsAreTexts
<1>3. text \in {body, title \o body}
  BY DEF ComposeText
<1>4. r = [text |-> text, body |-> body, blocks |-> bs, strategy |-> strategy, type |-> type,
           anchor |-> anchor]
  BY DEF Raw
<1> HIDE DEF body, title, text
<1>5. text \in Text /\ text # <<>> /\ SubSeq(text, Len(text) - Len(body) + 1, Len(text)) = body
  <2>1. body # <<>>
    BY DEF body
  <2> QED BY <1>1, <1>2, <1>3, <2>1, ComposedText
<1>6. /\ r.text = text /\ r.body = body /\ r.blocks = bs
      /\ r \in [text : Text, body : Text, blocks : Seq(Block), strategy : RawKinds,
                type : RawKinds, anchor : Text]
  BY <1>1, <1>4, <1>5
<1> HIDE DEF r
<1>7. Fits(r)
  <2>1. Len(body) <= ChunkMax \/ IsStandalone(Head(bs))
    BY DEF body
  <2>2. IsWindowed(Head(bs)) \/ body = FlattenSeq(TextsOf(bs))
    BY DEF body
  <2> QED BY <1>5, <1>6, <2>1, <2>2 DEF Fits
<1> QED BY <1>6, <1>7, SMTT(30) DEF RawChunk, r, body


\* The texts of blocks that are not empty, one after the other.
LEMMA TextOfBlocks ==
    \A bs \in Seq(Block) :
        /\ TextsOf(bs) \in Seq(Text) /\ FlattenSeq(TextsOf(bs)) \in Text
        /\ \A b \in Block : /\ FlattenSeq(TextsOf(Append(bs, b))) = FlattenSeq(TextsOf(bs)) \o b.text
                            /\ b.text # <<>> => FlattenSeq(TextsOf(Append(bs, b))) # <<>>
<1> SUFFICES ASSUME NEW bs \in Seq(Block)
             PROVE  /\ TextsOf(bs) \in Seq(Text) /\ FlattenSeq(TextsOf(bs)) \in Text
                    /\ \A b \in Block :
                        /\ FlattenSeq(TextsOf(Append(bs, b))) = FlattenSeq(TextsOf(bs)) \o b.text
                        /\ b.text # <<>> => FlattenSeq(TextsOf(Append(bs, b))) # <<>>
  OBVIOUS
<1> DEFINE texts == TextsOf(bs)
           text == FlattenSeq(texts)
<1>1. texts \in Seq(Text)
  BY TextsAppend
<1>2. text \in Text
  <2> HIDE DEF texts
  <2> QED BY <1>1, Filtering!FlattenIsSeq DEF FlattenSeq, Filtering!FlattenSeq, Text
<1>3. ASSUME NEW b \in Block
      PROVE  /\ FlattenSeq(TextsOf(Append(bs, b))) = text \o b.text
             /\ b.text # <<>> => text \o b.text # <<>>
  <2>1. TextsOf(Append(bs, b)) = Append(texts, b.text) /\ b.text \in Text
    BY TextsAppend, FieldsOfBlock
  <2> HIDE DEF texts
  <2>2. FlattenSeq(Append(texts, b.text)) = text \o b.text
    BY <1>1, <2>1, FlattenAppend DEF Text
  <2> QED BY <1>2, <2>1, <2>2, ComposedText
<1> QED BY <1>1, <1>2, <1>3

\* What the chunk of the buffer is.
Merged(acc) == Raw(TextsOf(acc.buffer), acc.buffer, "semantic_merge", TypeOfMerge(acc.buffer),
                   acc.anchor)

\* The buffer has mergeable blocks, within the maximum together.
Buffered(acc) ==
    /\ acc \in [raw : Seq(RawChunk), buffer : Seq(Block), anchor : Text]
    /\ \A b \in ToSet(acc.buffer) : Strategy(b) = "semantic_merge"
    /\ acc.buffer # <<>> => FlattenSeq(TextsOf(acc.buffer)) # <<>>
    /\ Len(FlattenSeq(TextsOf(acc.buffer))) <= ChunkMax

\* Flushing makes a chunk of the buffer and empties it.
LEMMA FlushPlans ==
    ASSUME NEW acc, Buffered(acc)
    PROVE  /\ Buffered(Flush(acc)) /\ Flush(acc).buffer = <<>> /\ Flush(acc).anchor = acc.anchor
           /\ acc.buffer = <<>> => Flush(acc) = acc
           /\ acc.buffer # <<>> => /\ Merged(acc) \in RawChunk /\ Merged(acc).blocks = acc.buffer
                                   /\ Flush(acc).raw = Append(acc.raw, Merged(acc))
<1> DEFINE x == Merged(acc)
           flushed == [acc EXCEPT !.buffer = <<>>, !.raw = Append(acc.raw, x)]
<1>1. /\ acc \in [raw : Seq(RawChunk), buffer : Seq(Block), anchor : Text]
      /\ acc.raw \in Seq(RawChunk) /\ acc.buffer \in Seq(Block) /\ acc.anchor \in Text
  BY DEF Buffered
<1>2. Flush(acc) = IF acc.buffer = <<>> THEN acc ELSE flushed
  BY <1>1 DEF Flush, Merged
<1>3. CASE acc.buffer = <<>>
  BY <1>2, <1>3
<1>4. CASE acc.buffer # <<>>
  <2>1. x \in RawChunk /\ x.blocks = acc.buffer
    <3>1. TextsOf(acc.buffer) \in Seq(Text)
      BY <1>1, TextOfBlocks
    <3>2. "semantic_merge" \in RawKinds /\ TypeOfMerge(acc.buffer) \in RawKinds
      BY Strategies DEF RawKinds
    <3>3. /\ FlattenSeq(TextsOf(acc.buffer)) # <<>>
          /\ Len(FlattenSeq(TextsOf(acc.buffer))) <= ChunkMax
          /\ \A b \in ToSet(acc.buffer) : Strategy(b) = "semantic_merge"
      BY <1>4 DEF Buffered
    <3> QED BY <1>1, <1>4, <3>1, <3>2, <3>3, RawIsChunk DEF Merged
  <2> HIDE DEF x
  <2>2. Append(acc.raw, x) \in Seq(RawChunk)
    BY <1>1, <2>1, AppendProperties
  <2>3. /\ flushed \in [raw : Seq(RawChunk), buffer : Seq(Block), anchor : Text]
        /\ flushed.buffer = <<>> /\ flushed.raw = Append(acc.raw, x) /\ flushed.anchor = acc.anchor
    <3>1. <<>> \in Seq(Block)
      OBVIOUS
    <3> QED BY <1>1, <2>2, <3>1
  <2> HIDE DEF flushed
  <2>4. Buffered(flushed)
    <3>1. /\ \A b \in ToSet(<<>>) : Strategy(b) = "semantic_merge"
          /\ TextsOf(<<>>) = <<>>
      BY DEF ToSet, TextsOf
    <3>2. FlattenSeq(TextsOf(<<>>)) = <<>> /\ Len(<<>>) = 0 /\ 0 <= ChunkMax
      BY <3>1, FlattenOne, SizesAreNumbers
    <3> QED BY <2>3, <3>1, <3>2 DEF Buffered
  <2> QED BY <1>2, <1>4, <2>1, <2>3, <2>4 DEF x
<1> QED BY <1>3, <1>4

\* A chunk of one block.
LEMMA ChunkOfOne ==
    ASSUME NEW b \in Block, NEW part \in Text, part # <<>>, NEW anchor \in Text,
           NEW strategy \in RawKinds, NEW type \in RawKinds,
           Len(part) <= ChunkMax \/ IsStandalone(b), IsWindowed(b) \/ part = b.text
    PROVE  /\ Raw(<<part>>, <<b>>, strategy, type, anchor) \in OnlyOf(b)
           /\ Raw(<<part>>, <<b>>, strategy, type, anchor).body = part
<1> DEFINE parts == <<part>>
           bs == <<b>>
<1>1. /\ parts \in Seq(Text) /\ FlattenSeq(parts) = part
      /\ bs \in Seq(Block) /\ bs # <<>> /\ Head(bs) = b /\ ~(Len(bs) > 1)
  <2>1. FlattenSeq(parts) = part
    BY FlattenOne DEF Text
  <2> QED BY <2>1
<1>2. FlattenSeq(TextsOf(bs)) = b.text
  <2>1. TextsOf(bs) = <<b.text>> /\ b.text \in Text
    BY FieldsOfBlock DEF TextsOf
  <2> QED BY <2>1, FlattenOne DEF Text
<1> HIDE DEF parts, bs
<1>3. /\ Raw(parts, bs, strategy, type, anchor) \in RawChunk
      /\ Raw(parts, bs, strategy, type, anchor).blocks = bs
      /\ Raw(parts, bs, strategy, type, anchor).body = FlattenSeq(parts)
  BY <1>1, <1>2, RawIsChunk
<1> QED BY <1>1, <1>3 DEF OnlyOf, parts, bs


\* The chunks of a plan, were it flushed now, are those of the blocks seen.
PlannedFor(acc, seen) == Buffered(acc) /\ ChunksOfSeen(Flush(acc).raw, seen)

\* A plan with an empty buffer.
LEMMA PlanOfFlushed ==
    ASSUME NEW raws \in Seq(RawChunk), NEW anchor \in Text, NEW seen, ChunksOfSeen(raws, seen),
           NEW acc, acc = [raw |-> raws, buffer |-> <<>>, anchor |-> anchor]
    PROVE  PlannedFor(acc, seen)
<1>1. /\ acc \in [raw : Seq(RawChunk), buffer : Seq(Block), anchor : Text]
      /\ acc.buffer = <<>> /\ acc.raw = raws
  <2>1. <<>> \in Seq(Block)
    OBVIOUS
  <2> QED BY <2>1
<1>2. Buffered(acc)
  <2>1. /\ \A b \in ToSet(<<>>) : Strategy(b) = "semantic_merge"
        /\ TextsOf(<<>>) = <<>>
    BY DEF ToSet, TextsOf
  <2>2. FlattenSeq(TextsOf(<<>>)) = <<>> /\ Len(<<>>) = 0 /\ 0 <= ChunkMax
    BY <2>1, FlattenOne, SizesAreNumbers
  <2> QED BY <1>1, <2>1, <2>2 DEF Buffered
<1>3. Flush(acc) = acc
  BY <1>1 DEF Flush
<1> QED BY <1>1, <1>2, <1>3 DEF PlannedFor

\* A block that is given chunks of its own.
LEMMA EmitPlans ==
    ASSUME NEW acc, NEW seen \in Seq(Block), PlannedFor(acc, seen),
           NEW b \in Bodies, b \notin ToSet(seen), NEW parts \in Seq(Text), parts # <<>>,
           \A i \in 1..Len(parts) : /\ parts[i] # <<>>
                                    /\ Len(parts[i]) <= ChunkMax \/ IsStandalone(b)
                                    /\ IsWindowed(b) \/ parts[i] = b.text,
           IF IsWindowed(b) THEN parts = OversizedParts(b) ELSE Len(parts) = 1
    PROVE  PlannedFor([Flush(acc) EXCEPT !.raw = @ \o [i \in DOMAIN parts |->
                            Raw(<<parts[i]>>, <<b>>, Strategy(b), TypeOfBlock(b), acc.anchor)]],
                      Append(seen, b))
<1> DEFINE flushed == Flush(acc)
           cut == [i \in DOMAIN parts |->
                      Raw(<<parts[i]>>, <<b>>, Strategy(b), TypeOfBlock(b), acc.anchor)]
           next == [flushed EXCEPT !.raw = @ \o cut]
           raws == flushed.raw
           all == raws \o cut
<1>1. /\ b \in Block /\ Strategy(b) \in RawKinds /\ TypeOfBlock(b) \in RawKinds
      /\ acc.anchor \in Text
  BY Strategies DEF Bodies, PlannedFor, Buffered
<1>2. PICK n \in Nat : n = Len(parts) /\ DOMAIN parts = 1..n /\ \A i \in 1..n : parts[i] \in Text
  BY SeqIsFunction
<1>3. n # 0
  BY <1>2, EmptySeq
<1>4. \A i \in 1..n : cut[i] \in OnlyOf(b) /\ cut[i].body = parts[i]
  <2> SUFFICES ASSUME NEW i \in 1..n PROVE cut[i] \in OnlyOf(b) /\ cut[i].body = parts[i]
    OBVIOUS
  <2> DEFINE part == parts[i]
  <2>1. cut[i] = Raw(<<part>>, <<b>>, Strategy(b), TypeOfBlock(b), acc.anchor)
    BY <1>2
  <2>2. /\ part \in Text /\ part # <<>>
        /\ Len(part) <= ChunkMax \/ IsStandalone(b)
        /\ IsWindowed(b) \/ part = b.text
    BY <1>2
  <2> HIDE DEF part, cut
  <2> QED BY <1>1, <2>1, <2>2, ChunkOfOne DEF part
<1>5. cut \in Seq(OnlyOf(b)) /\ Len(cut) = n /\ cut # <<>>
  <2>1. cut = [i \in 1..n |-> cut[i]] /\ DOMAIN cut = 1..n
    BY <1>2
  <2> HIDE DEF cut
  <2>2. Listing(cut, n, OnlyOf(b))
    BY <1>4, <2>1 DEF Listing
  <2>3. cut \in Seq(OnlyOf(b)) /\ Len(cut) = n
    BY <2>2, ListingIsSeq
  <2> QED BY <1>3, <2>3
<1> HIDE DEF cut
<1>6. Settled(cut, b)
  BY <1>2, <1>4, <1>5 DEF Settled
<1>7. /\ Buffered(flushed) /\ flushed.buffer = <<>> /\ flushed.anchor = acc.anchor
      /\ ChunksOfSeen(raws, seen)
  BY FlushPlans DEF PlannedFor
<1>8. flushed = [raw |-> raws, buffer |-> <<>>, anchor |-> acc.anchor] /\ raws \in Seq(RawChunk)
  <2> HIDE DEF flushed
  <2> QED BY <1>7 DEF Buffered
<1> HIDE DEF raws
<1>9. ChunksOfSeen(all, Append(seen, b))
  BY <1>5, <1>6, <1>7, ChunksAdded
<1>10. all \in Seq(RawChunk)
  BY <1>9 DEF ChunksOfSeen
<1>11. next = [raw |-> all, buffer |-> <<>>, anchor |-> acc.anchor]
  <2>1. next = [flushed EXCEPT !.raw = all]
    BY DEF raws
  <2> HIDE DEF flushed, all, next
  <2> QED BY <1>8, <2>1
<1> HIDE DEF next, all
<1>12. PlannedFor(next, Append(seen, b))
  BY <1>1, <1>9, <1>10, <1>11, PlanOfFlushed
<1> QED BY <1>12 DEF next, cut

\* A block that starts a buffer.
LEMMA FirstBuffered ==
    ASSUME NEW acc, NEW seen \in Seq(Block), PlannedFor(acc, seen), acc.buffer = <<>>,
           NEW b \in Block, b.text # <<>>, b \notin ToSet(seen), Strategy(b) = "semantic_merge",
           NEW next, next = [raw |-> acc.raw, buffer |-> <<b>>,
                             anchor |-> Either(acc.anchor, AnchorOf(b))]
    PROVE  PlannedFor(next, Append(seen, b))
<1> DEFINE x == Merged(next)
           one == <<x>>
           anchor == Either(acc.anchor, AnchorOf(b))
<1>1. /\ b \in Bodies /\ ~IsWindowed(b) /\ Len(b.text) <= ChunkMax /\ b.text \in Text
      /\ "semantic_merge" \in RawKinds /\ TypeOfMerge(<<b>>) \in RawKinds
  BY Strategies, FieldsOfBlock DEF Bodies, RawKinds
<1>2. /\ Buffered(acc) /\ acc.anchor \in Text /\ acc.raw \in Seq(RawChunk)
      /\ ChunksOfSeen(acc.raw, seen)
  BY FlushPlans DEF PlannedFor, Buffered
<1>3. anchor \in Text
  BY <1>2, HeadingsAreTexts DEF Either
<1> HIDE DEF anchor
<1>4. /\ next \in [raw : Seq(RawChunk), buffer : Seq(Block), anchor : Text]
      /\ next.raw = acc.raw /\ next.buffer = <<b>> /\ next.anchor = anchor
  <2>1. <<b>> \in Seq(Block)
    OBVIOUS
  <2> QED BY <1>2, <1>3, <2>1 DEF anchor
<1>5. TextsOf(<<b>>) = <<b.text>> /\ FlattenSeq(<<b.text>>) = b.text
  BY <1>1, FlattenOne DEF TextsOf, Text
<1>6. Buffered(next)
  <2>1. \A c \in ToSet(<<b>>) : c = b
    BY DEF ToSet
  <2> QED BY <1>1, <1>4, <1>5, <2>1 DEF Buffered
<1>7. x \in OnlyOf(b)
  <2>1. x = Raw(<<b.text>>, <<b>>, "semantic_merge", TypeOfMerge(<<b>>), anchor)
    BY <1>4, <1>5 DEF Merged
  <2> HIDE DEF x
  <2> QED BY <1>1, <1>3, <2>1, ChunkOfOne
<1> HIDE DEF x
<1>8. Flush(next).raw = Append(acc.raw, x)
  <2>1. next.buffer # <<>>
    BY <1>4
  <2> QED BY <1>4, <1>6, <2>1, FlushPlans DEF x
<1>9. one \in Seq(OnlyOf(b)) /\ one # <<>> /\ Len(one) = 1
  BY <1>7
<1>10. acc.raw \o one = Append(acc.raw, x)
  BY <1>2
<1> HIDE DEF one
<1>11. Settled(one, b)
  BY <1>1, <1>9 DEF Settled
<1>12. ChunksOfSeen(acc.raw \o one, Append(seen, b))
  BY <1>1, <1>2, <1>9, <1>11, ChunksAdded
<1> QED BY <1>6, <1>8, <1>10, <1>12 DEF PlannedFor

\* A block that joins a buffer.
LEMMA AlsoBuffered ==
    ASSUME NEW acc, NEW seen \in Seq(Block), PlannedFor(acc, seen), acc.buffer # <<>>,
           NEW b \in Block, b.text # <<>>, b \notin ToSet(seen), Strategy(b) = "semantic_merge",
           Len(FlattenSeq(TextsOf(acc.buffer))) + Len(b.text) <= ChunkMax,
           NEW next, next = [raw |-> acc.raw, buffer |-> Append(acc.buffer, b),
                             anchor |-> Either(acc.anchor, AnchorOf(b))]
    PROVE  PlannedFor(next, Append(seen, b))
<1> DEFINE x == Merged(acc)
           y == Merged(next)
           anchor == Either(acc.anchor, AnchorOf(b))
           buffer == Append(acc.buffer, b)
           held == FlattenSeq(TextsOf(acc.buffer))
<1>1. b \in Bodies /\ ~IsWindowed(b) /\ b.text \in Text
  BY Strategies, FieldsOfBlock DEF Bodies
<1>2. /\ Buffered(acc) /\ acc.anchor \in Text /\ acc.raw \in Seq(RawChunk) /\ acc.buffer \in Seq(Block)
      /\ \A c \in ToSet(acc.buffer) : Strategy(c) = "semantic_merge"
      /\ ChunksOfSeen(Flush(acc).raw, seen)
  BY DEF PlannedFor, Buffered
<1>3. anchor \in Text
  BY <1>2, HeadingsAreTexts DEF Either
<1>4. x \in RawChunk /\ x.blocks = acc.buffer /\ Flush(acc).raw = Append(acc.raw, x)
  BY <1>2, FlushPlans
<1>5. buffer \in Seq(Block) /\ buffer # <<>>
  BY <1>2, AppendProperties
<1>6. /\ next \in [raw : Seq(RawChunk), buffer : Seq(Block), anchor : Text]
      /\ next.raw = acc.raw /\ next.buffer = buffer /\ next.anchor = anchor
  <2> HIDE DEF anchor, buffer
  <2> QED BY <1>2, <1>3, <1>5 DEF anchor, buffer
<1>7. Buffered(next)
  <2>1. \A c \in ToSet(buffer) : c \in ToSet(acc.buffer) \/ c = b
    <3>1. \A c : /\ Contains(buffer, c) <=> Contains(acc.buffer, c) \/ c = b
                 /\ Contains(acc.buffer, c) <=> c \in ToSet(acc.buffer)
      BY <1>2, ContainsAppended
    <3> HIDE DEF buffer
    <3>2. \A c : Contains(buffer, c) <=> c \in ToSet(buffer)
      BY <1>5, ContainsAppended
    <3> QED BY <3>1, <3>2
  <2>2. /\ FlattenSeq(TextsOf(buffer)) = held \o b.text /\ held \in Text
        /\ FlattenSeq(TextsOf(buffer)) # <<>>
    BY <1>2, TextOfBlocks
  <2>3. Len(held \o b.text) = Len(held) + Len(b.text)
    <3> HIDE DEF held
    <3>1. held \in Seq(Token) /\ b.text \in Seq(Token)
      BY <1>1, <2>2 DEF Text
    <3> QED BY <3>1
  <2>4. Len(FlattenSeq(TextsOf(buffer))) <= ChunkMax
    BY <2>2, <2>3
  <2> HIDE DEF buffer, held
  <2> QED BY <1>2, <1>6, <2>1, <2>2, <2>4 DEF Buffered
<1>8. y \in RawChunk /\ y.blocks = buffer /\ Flush(next).raw = Append(acc.raw, y)
  <2> HIDE DEF buffer
  <2>1. next.buffer # <<>>
    BY <1>5, <1>6
  <2> QED BY <1>6, <1>7, <2>1, FlushPlans
<1> HIDE DEF x, y
<1>9. \A c \in ToSet(x.blocks) : ~IsWindowed(c)
  BY <1>2, <1>4, Strategies
<1>10. ChunksOfSeen(Append(acc.raw, x), seen)
  BY <1>2, <1>4
<1>11. y.blocks = Append(x.blocks, b)
  BY <1>4, <1>8
<1>12. ChunksOfSeen(Append(acc.raw, y), Append(seen, b))
  BY <1>1, <1>2, <1>4, <1>8, <1>9, <1>10, <1>11, ChunkMerged
<1> QED BY <1>7, <1>8, <1>12 DEF PlannedFor


\* A plan with another anchor.
LEMMA AnchorRewritten ==
    \A A, B, C : \A acc \in [raw : A, buffer : B, anchor : C], y \in C :
        [acc EXCEPT !.anchor = y] = [raw |-> acc.raw, buffer |-> acc.buffer, anchor |-> y]
OBVIOUS

\* A plan with another buffer and anchor.
LEMMA PlanRewritten ==
    \A A, B, C : \A acc \in [raw : A, buffer : B, anchor : C], x \in B, y \in C :
        [acc EXCEPT !.buffer = x, !.anchor = y] = [raw |-> acc.raw, buffer |-> x, anchor |-> y]
<1> SUFFICES ASSUME NEW A, NEW B, NEW C, NEW acc \in [raw : A, buffer : B, anchor : C],
                    NEW x \in B, NEW y \in C
             PROVE  [acc EXCEPT !.buffer = x, !.anchor = y]
                        = [raw |-> acc.raw, buffer |-> x, anchor |-> y]
  OBVIOUS
<1> DEFINE e == [acc EXCEPT !.buffer = x, !.anchor = y]
<1>1. /\ e \in [raw : A, buffer : B, anchor : C]
      /\ e.raw = acc.raw /\ e.buffer = x /\ e.anchor = y
  OBVIOUS
<1> HIDE DEF e
<1>2. e = [raw |-> acc.raw, buffer |-> x, anchor |-> y]
  BY <1>1
<1> QED BY <1>2 DEF e

\* A block of the plan.
LEMMA PlanStep ==
    ASSUME NEW acc, NEW seen \in Seq(Block), PlannedFor(acc, seen),
           NEW b \in Block, b.text # <<>>, b \notin ToSet(seen)
    PROVE  PlannedFor(ApplyPlan(acc, b), Append(seen, b))
<1> DEFINE flushed == Flush(acc)
           Emit(parts) == [flushed EXCEPT !.raw = @ \o [i \in DOMAIN parts |->
                              Raw(<<parts[i]>>, <<b>>, Strategy(b), TypeOfBlock(b), acc.anchor)]]
           Buffer(from) == [from EXCEPT !.buffer = Append(@, b),
                                        !.anchor = Either(@, AnchorOf(b))]
           more == Append(seen, b)
<1>1. ApplyPlan(acc, b) =
        IF Strategy(b) = "heading_anchored" THEN [flushed EXCEPT !.anchor = AnchorOf(b)]
        ELSE IF IsWindowed(b) THEN Emit(OversizedParts(b))
        ELSE IF IsStandalone(b) THEN Emit(<<b.text>>)
        ELSE Buffer(IF ShouldFlush(acc.buffer, b) THEN flushed ELSE acc)
  BY DEF ApplyPlan
<1>2. /\ b.text \in Text /\ AnchorOf(b) \in Text
      /\ b \notin Bodies <=> Strategy(b) = "heading_anchored"
  BY FieldsOfBlock, HeadingsAreTexts DEF Bodies
<1>3. /\ Buffered(flushed) /\ flushed.buffer = <<>> /\ flushed.anchor = acc.anchor
      /\ Buffered(acc) /\ ChunksOfSeen(flushed.raw, seen)
  BY FlushPlans DEF PlannedFor
<1>4. /\ acc \in [raw : Seq(RawChunk), buffer : Seq(Block), anchor : Text]
      /\ flushed \in [raw : Seq(RawChunk), buffer : Seq(Block), anchor : Text]
  <2> HIDE DEF flushed
  <2> QED BY <1>3 DEF Buffered
<1>5. Flush(flushed) = flushed /\ PlannedFor(flushed, seen)
  <2>1. Flush(flushed) = flushed
    <3> HIDE DEF flushed
    <3> QED BY <1>3, FlushPlans
  <2> HIDE DEF flushed
  <2> QED BY <1>3, <2>1 DEF PlannedFor
<1>6. CASE Strategy(b) = "heading_anchored"
  <2> DEFINE next == [flushed EXCEPT !.anchor = AnchorOf(b)]
             raws == flushed.raw
             anchor == AnchorOf(b)
  <2>1. next = [raw |-> raws, buffer |-> <<>>, anchor |-> anchor] /\ raws \in Seq(RawChunk)
    <3>1. flushed.raw \in Seq(RawChunk)
      BY <1>4
    <3>0. anchor \in Text
      BY <1>2
    <3> HIDE DEF flushed, anchor
    <3>2. [flushed EXCEPT !.anchor = anchor]
            = [raw |-> flushed.raw, buffer |-> flushed.buffer, anchor |-> anchor]
      BY <1>4, <3>0, AnchorRewritten, SMTT(30)
    <3>3. next = [flushed EXCEPT !.anchor = anchor]
      BY DEF anchor
    <3> HIDE DEF next
    <3> QED BY <1>3, <3>1, <3>2, <3>3 DEF raws
  <2>2. ChunksOfSeen(raws, more)
    <3> HIDE DEF raws
    <3> QED BY <1>2, <1>3, <1>6, HeadingSeen DEF raws
  <2>3. anchor \in Text
    BY <1>2
  <2> HIDE DEF next, raws, more, anchor
  <2>4. PlannedFor(next, more)
    BY <2>1, <2>2, <2>3, PlanOfFlushed
  <2> QED BY <1>1, <1>6, <2>4 DEF next, more
<1>7. CASE IsWindowed(b)
  <2> DEFINE parts == OversizedParts(b)
  <2>1. /\ parts \in Seq(Text) /\ parts # <<>>
        /\ \A i \in 1..Len(parts) : Len(parts[i]) \in 1..ChunkMax
    BY PartsCover
  <2>2. b \in Bodies /\ Strategy(b) # "heading_anchored"
    BY <1>2, <1>7, Strategies
  <2> HIDE DEF parts
  <2>3. \A i \in 1..Len(parts) : parts[i] # <<>> /\ Len(parts[i]) <= ChunkMax
    <3> SUFFICES ASSUME NEW i \in 1..Len(parts) PROVE parts[i] # <<>> /\ Len(parts[i]) <= ChunkMax
      OBVIOUS
    <3>1. Len(parts[i]) \in 1..ChunkMax
      BY <2>1
    <3>2. Len(<<>>) = 0 /\ 0 \notin 1..ChunkMax
      BY SizesAreNumbers
    <3> QED BY <3>1, <3>2, SizesAreNumbers
  <2>4. parts = OversizedParts(b)
    BY DEF parts
  <2>5. PlannedFor(Emit(parts), more)
    BY <1>7, <2>1, <2>2, <2>3, <2>4, EmitPlans
  <2> QED BY <1>1, <1>7, <2>2, <2>4, <2>5
<1>8. CASE IsStandalone(b)
  <2> DEFINE parts == <<b.text>>
  <2>1. /\ parts \in Seq(Text) /\ parts # <<>> /\ Len(parts) = 1
        /\ \A i \in 1..Len(parts) : parts[i] = b.text /\ parts[i] # <<>>
    BY <1>2
  <2>2. b \in Bodies /\ Strategy(b) # "heading_anchored" /\ ~IsWindowed(b)
    BY <1>2, <1>8, Strategies
  <2> HIDE DEF parts
  <2>3. PlannedFor(Emit(parts), more)
    BY <1>8, <2>1, <2>2, EmitPlans
  <2> QED BY <1>1, <1>8, <2>2, <2>3 DEF parts
<1>9. CASE Strategy(b) = "semantic_merge"
  <2>1. ~IsWindowed(b) /\ ~IsStandalone(b) /\ Len(b.text) <= ChunkMax
    BY <1>9, Strategies
  <2> DEFINE from == IF ShouldFlush(acc.buffer, b) THEN flushed ELSE acc
             next == Buffer(from)
  <2>2. ApplyPlan(acc, b) = next
    BY <1>1, <1>9, <2>1
  <2>3. /\ from \in [raw : Seq(RawChunk), buffer : Seq(Block), anchor : Text]
        /\ PlannedFor(from, seen)
    <3> HIDE DEF flushed
    <3> QED BY <1>4, <1>5
  <2>4. from.buffer # <<>> => Len(FlattenSeq(TextsOf(from.buffer))) + Len(b.text) <= ChunkMax
    <3> SUFFICES ASSUME from.buffer # <<>>
                 PROVE  Len(FlattenSeq(TextsOf(from.buffer))) + Len(b.text) <= ChunkMax
      OBVIOUS
    <3>1. ~ShouldFlush(acc.buffer, b) /\ from = acc
      <4> HIDE DEF flushed
      <4> QED BY <1>3
    <3> DEFINE l == Len(FlattenSeq(TextsOf(acc.buffer)))
               m == Len(b.text)
    <3>2. ~(l + m > ChunkMax)
      BY <3>1 DEF ShouldFlush
    <3>3. l \in Nat /\ m \in Nat
      <4>1. FlattenSeq(TextsOf(acc.buffer)) \in Text
        BY <1>4, TextOfBlocks
      <4>2. \A t \in Text : Len(t) \in Nat
        BY DEF Text
      <4> QED BY <1>2, <4>1, <4>2
    <3> HIDE DEF l, m
    <3>4. l + m <= ChunkMax
      BY <3>2, <3>3, SizesAreNumbers
    <3> QED BY <3>1, <3>4 DEF l, m
  <2> HIDE DEF from
  <2>5. next = [raw |-> from.raw, buffer |-> Append(from.buffer, b),
                anchor |-> Either(from.anchor, AnchorOf(b))]
    <3> DEFINE x == Append(from.buffer, b)
               y == Either(from.anchor, AnchorOf(b))
    <3>1. next = [from EXCEPT !.buffer = x, !.anchor = y]
      OBVIOUS
    <3>2. x \in Seq(Block) /\ y \in Text
      <4>1. from.buffer \in Seq(Block) /\ from.anchor \in Text
        BY <2>3
      <4> QED BY <1>2, <4>1, AppendProperties DEF Either
    <3> HIDE DEF x, y, next
    <3> QED BY <2>3, <3>1, <3>2, PlanRewritten DEF x, y
  <2> HIDE DEF next
  <2>6. CASE from.buffer = <<>>
    <3>1. Append(from.buffer, b) = <<b>>
      BY <2>6
    <3>2. PlannedFor(next, more)
      BY <1>9, <2>3, <2>5, <2>6, <3>1, FirstBuffered
    <3> QED BY <2>2, <3>2
  <2>7. CASE from.buffer # <<>>
    <3>1. PlannedFor(next, more)
      BY <1>9, <2>3, <2>4, <2>5, <2>7, AlsoBuffered
    <3> QED BY <2>2, <3>1
  <2> QED BY <2>6, <2>7
<1> QED BY <1>6, <1>7, <1>8, <1>9, Strategies

\* The semantic chunker cuts what it is given.
LEMMA SemanticCuts ==
    \A list : Prepared(list) => ChunksOfSeen(SemanticChunks(list), list)
<1> SUFFICES ASSUME NEW list, Prepared(list) PROVE ChunksOfSeen(SemanticChunks(list), list)
  OBVIOUS
<1> DEFINE base == [raw |-> <<>>, buffer |-> <<>>, anchor |-> <<>>]
           Plan(s) == Planning!Folded(0, base, s)
           K == {s \in Seq(Block) : Prepared(s) => PlannedFor(Plan(s), s)}
<1>1. list \in Seq(Block) /\ list \in Seq(ToSet(list))
  BY ListOf DEF Prepared, IsList
<1>2. PlannedBlocks(list) = list
  <2> DEFINE S == ToSet(list)
  <2>1. \A b \in S : b.text # <<>>
    <3>1. PICK n \in Nat : n = Len(list) /\ DOMAIN list = 1..n
      BY <1>1, SeqIsFunction
    <3> QED BY <3>1 DEF Prepared, ToSet
  <2>2. PlannedBlocks(list) = Among(list, {b \in S : b.text # <<>>})
    BY DEF PlannedBlocks, Those
  <2>3. list \in Seq(S) /\ S \subseteq {b \in S : b.text # <<>>}
    BY <1>1, <2>1
  <2> HIDE DEF S
  <2> QED BY <2>2, <2>3, AmongAll
<1>3. SemanticChunks(list) = Flush(Plan(PlannedBlocks(list))).raw
  BY DEF SemanticChunks, PlanTurn, Planning!Folded, FoldLeft, MapThenFoldSet, Max,
         Planning!FoldLeft, Planning!MapThenFoldSet, Planning!Max
<1>4. Plan(<<>>) = base
  BY Planning!FoldAppends
<1>5. ASSUME NEW s \in Seq(Block), NEW b \in Block
      PROVE  Plan(Append(s, b)) = ApplyPlan(Plan(s), b)
  <2>1. Planning!Folded(0, base, Append(s, b)) = PlanTurn(0, Planning!Folded(0, base, s), b)
    BY Planning!FoldAppends
  <2> QED BY <2>1 DEF PlanTurn
<1> HIDE DEF Plan
<1>6. <<>> \in K
  <2>1. ChunksOfSeen(<<>>, <<>>)
    <3>1. \A S : Among(<<>>, S) = <<>>
      BY AmongAppends
    <3>2. SourcesOf(<<>>) = <<>>
      <4>1. SourcesOf(<<>>) = FlattenSeq(<<>>)
        BY DEF SourcesOf
      <4> QED BY <4>1, FlattenOne
    <3>3. Distinct(<<>>) = <<>>
      BY DistinctAppends
    <3>4. ToSet(<<>>) = {} /\ <<>> \in Seq(RawChunk)
      BY DEF ToSet
    <3> QED BY <3>1, <3>2, <3>3, <3>4 DEF ChunksOfSeen
  <2>2. <<>> \in Seq(RawChunk) /\ <<>> \in Text /\ <<>> \in Seq(Block)
    BY DEF Text
  <2>3. PlannedFor(base, <<>>)
    BY <2>1, <2>2, PlanOfFlushed
  <2> QED BY <1>4, <2>2, <2>3
<1> HIDE DEF base
<1>7. ASSUME NEW s \in Seq(Block), NEW b \in Block, s \in K PROVE Append(s, b) \in K
  <2> DEFINE t == Append(s, b)
  <2>1. PICK n \in Nat : n = Len(s) /\ DOMAIN s = 1..n
    BY SeqIsFunction
  <2>2. /\ t \in Seq(Block) /\ Len(t) = n + 1 /\ t[n + 1] = b
        /\ \A i \in 1..n : t[i] = s[i]
    BY <2>1, AppendProperties
  <2>3. n + 1 \in 1..(n + 1) /\ \A i \in 1..n : i \in 1..(n + 1) /\ i # n + 1
    BY <2>1
  <2> HIDE DEF t
  <2>4. ASSUME Prepared(t) PROVE PlannedFor(Plan(t), t)
    <3>1. /\ \A i \in 1..(n + 1) : t[i].text # <<>>
          /\ \A i, j \in 1..(n + 1) : t[i].text = t[j].text => i = j
      BY <2>2, <2>4 DEF Prepared
    <3>2. Prepared(s)
      BY <2>1, <2>2, <2>3, <3>1 DEF Prepared
    <3>3. b.text # <<>>
      BY <2>2, <2>3, <3>1
    <3>4. b \notin ToSet(s)
      <4> SUFFICES ASSUME NEW i \in 1..n, s[i] = b PROVE FALSE
        BY <2>1 DEF ToSet
      <4> QED BY <2>2, <2>3, <3>1
    <3>5. PlannedFor(Plan(s), s)
      BY <1>7, <3>2
    <3>6. PlannedFor(ApplyPlan(Plan(s), b), Append(s, b))
      BY <3>3, <3>4, <3>5, PlanStep
    <3> QED BY <1>5, <3>6 DEF t
  <2> QED BY <2>2, <2>4 DEF t
<1> HIDE DEF K
<1>8. Seq(Block) \subseteq K
  BY <1>6, <1>7, ListInduction
<1>9. PlannedFor(Plan(list), list)
  BY <1>1, <1>8 DEF K
<1> QED BY <1>2, <1>3, <1>9 DEF PlannedFor


\* What MergesCover says, of any chunks and blocks.
BodiesCovered(cs, list) ==
    LET bodies == Those(list, LAMBDA b : Strategy(b) # "heading_anchored")
        ChunksOf(b) == Those(cs, LAMBDA c : Contains(c.blocks, b))
        Parts(b) == [i \in DOMAIN ChunksOf(b) |-> Body(ChunksOf(b)[i])]
    IN /\ Distinct(FlattenSeq([i \in DOMAIN cs |-> cs[i].blocks])) = bodies
       /\ \A c \in ToSet(cs) :
            /\ c.tokens <= ChunkMax \/ IsStandalone(Head(c.blocks))
            /\ Len(c.blocks) > 1 => \A b \in ToSet(c.blocks) : Strategy(b) = "semantic_merge"
            /\ IsWindowed(Head(c.blocks)) \/ Body(c) = FlattenSeq(TextsOf(c.blocks))
       /\ \A b \in ToSet(bodies) :
            IF IsWindowed(b) THEN Covers(Parts(b), b.text) ELSE Len(ChunksOf(b)) = 1

\* The chunks of a plan are whole.
LEMMA PlannedAreWhole ==
    ASSUME NEW raws, NEW seen, ChunksOfSeen(raws, seen)
    PROVE  Whole(raws)
<1>1. raws \in Seq(RawChunk)
  BY DEF ChunksOfSeen
<1>2. IsList(raws)
  BY <1>1, ListOf
<1>3. \A i \in 1..Len(raws) : raws[i] \in RawChunk
  BY <1>1, SeqIsFunction
<1> QED BY <1>2, <1>3 DEF Whole, RawChunk, Fits

\* A chunk keeps what its raw chunk says.
LEMMA ChunkBody ==
    ASSUME NEW cs, NEW raws, NEW i \in 1..Len(raws), MadeOf(cs, raws), raws[i] \in RawChunk
    PROVE  /\ cs[i].blocks = raws[i].blocks /\ cs[i].tokens = Len(raws[i].body)
           /\ Body(cs[i]) = raws[i].body
<1>1. /\ cs[i].text = raws[i].text /\ cs[i].blocks = raws[i].blocks
      /\ cs[i].tokens = Len(raws[i].body)
  BY DEF MadeOf, MadeAs
<1>2. SubSeq(raws[i].text, Len(raws[i].text) - Len(raws[i].body) + 1, Len(raws[i].text))
            = raws[i].body
  BY DEF RawChunk, Fits
<1> QED BY <1>1, <1>2 DEF Body

\* The semantic chunker's chunks cover the blocks.
LEMMA SemanticCovers ==
    ASSUME NEW list \in Seq(Block), \A b \in ToSet(list) : b.text # <<>>,
           NEW raws, ChunksOfSeen(raws, list), NEW cs, MadeOf(cs, raws)
    PROVE  BodiesCovered(cs, list)
<1> DEFINE bodies == Those(list, LAMBDA b : Strategy(b) # "heading_anchored")
           ChunksOf(b) == Those(cs, LAMBDA c : Contains(c.blocks, b))
           Parts(b) == [i \in DOMAIN ChunksOf(b) |-> Body(ChunksOf(b)[i])]
<1>1. /\ raws \in Seq(RawChunk) /\ cs \in Seq(ToSet(cs)) /\ Len(cs) = Len(raws)
  BY DEF ChunksOfSeen, MadeOf, IsList
<1>2. PICK n \in Nat : /\ n = Len(raws) /\ DOMAIN raws = 1..n /\ DOMAIN cs = 1..n
                       /\ \A i \in 1..n : raws[i] \in RawChunk
  BY <1>1, SeqIsFunction
<1>3. \A i \in 1..n : /\ cs[i].blocks = raws[i].blocks /\ cs[i].tokens = Len(raws[i].body)
                      /\ Body(cs[i]) = raws[i].body
  BY <1>2, ChunkBody
<1>4. bodies = Among(list, Bodies)
  <2> DEFINE S == ToSet(list)
             T == {b \in S : Strategy(b) # "heading_anchored"}
  <2>1. bodies = Among(list, T)
    BY DEF Those
  <2>2. \A b \in S : b \in Block
    <3>1. PICK m \in Nat : DOMAIN list = 1..m /\ \A i \in 1..m : list[i] \in Block
      BY SeqIsFunction
    <3> QED BY <3>1 DEF ToSet
  <2>3. \A b \in S : b \in T <=> b \in Bodies
    BY <2>2 DEF Bodies
  <2>4. list \in Seq(S)
    BY ListOf DEF IsList
  <2> HIDE DEF S, T, bodies
  <2> QED BY <2>1, <2>3, <2>4, AmongSame
<1> HIDE DEF bodies
<1>5. Distinct(FlattenSeq([i \in DOMAIN cs |-> cs[i].blocks])) = bodies
  <2>1. [i \in DOMAIN cs |-> cs[i].blocks] = [i \in DOMAIN raws |-> raws[i].blocks]
    BY <1>2, <1>3
  <2> QED BY <1>4, <2>1 DEF ChunksOfSeen, SourcesOf
<1>6. ASSUME NEW c \in ToSet(cs)
      PROVE  /\ c.tokens <= ChunkMax \/ IsStandalone(Head(c.blocks))
             /\ Len(c.blocks) > 1 => \A b \in ToSet(c.blocks) : Strategy(b) = "semantic_merge"
             /\ IsWindowed(Head(c.blocks)) \/ Body(c) = FlattenSeq(TextsOf(c.blocks))
  <2>1. PICK i \in 1..n : c = cs[i]
    BY <1>2 DEF ToSet
  <2>2. Fits(raws[i])
    BY <1>2 DEF RawChunk
  <2>3. c.blocks = raws[i].blocks /\ c.tokens = Len(raws[i].body) /\ Body(c) = raws[i].body
    BY <1>3, <2>1
  <2> QED BY <2>2, <2>3 DEF Fits
<1>7. ASSUME NEW b \in ToSet(bodies)
      PROVE  IF IsWindowed(b) THEN Covers(Parts(b), b.text) ELSE Len(ChunksOf(b)) = 1
  <2> DEFINE T == {c \in ToSet(cs) : Contains(c.blocks, b)}
             held == Among(raws, Holders(b))
             those == Among(cs, T)
             parts == OversizedParts(b)
  <2>1. b \in ToSet(list) /\ b \in Bodies /\ b \in Block
    <3>1. ToSet(bodies) = ToSet(list) \cap Bodies
      BY <1>4, AmongPicks
    <3> QED BY <3>1 DEF Bodies
  <2>2. Settled(held, b)
    BY <2>1 DEF ChunksOfSeen
  <2>3. ChunksOf(b) = those
    BY DEF Those
  <2>4. \A i \in 1..n : cs[i] \in T <=> raws[i] \in Holders(b)
    <3>1. \A i \in 1..n : cs[i] \in ToSet(cs)
      BY <1>2 DEF ToSet
    <3> QED BY <1>2, <1>3, <3>1 DEF Holders
  <2> HIDE DEF T
  <2>5. /\ Len(those) = Len(held)
        /\ \A k \in 1..Len(those) : \E i \in 1..n : those[k] = cs[i] /\ held[k] = raws[i]
    <3>1. \A i \in 1..Len(cs) : cs[i] \in T <=> raws[i] \in Holders(b)
      BY <1>1, <1>2, <2>4
    <3>2. Parallel(those, held, cs, raws)
      BY <1>1, <3>1, AmongParallel
    <3> HIDE DEF those, held
    <3> QED BY <1>1, <1>2, <3>2 DEF Parallel
  <2>6. those \in Seq(ToSet(cs))
    BY <1>1, AmongPicks
  <2> HIDE DEF those, held
  <2>7. PICK m \in Nat : m = Len(those) /\ DOMAIN those = 1..m
    BY <2>6, SeqIsFunction
  <2>8. CASE IsWindowed(b)
    <3>1. Len(parts) = m /\ \A k \in 1..m : held[k].body = parts[k]
      BY <2>2, <2>5, <2>7, <2>8 DEF Settled
    <3>2. parts \in Seq(Text) /\ Covers(parts, b.text)
      BY <2>1, PartsCover
    <3> HIDE DEF parts
    <3>3. \A k \in 1..m : Body(those[k]) = parts[k]
      <4> SUFFICES ASSUME NEW k \in 1..m PROVE Body(those[k]) = parts[k]
        OBVIOUS
      <4>1. PICK i \in 1..n : those[k] = cs[i] /\ held[k] = raws[i]
        BY <2>5, <2>7
      <4> QED BY <1>3, <3>1, <4>1
    <3>4. Parts(b) = [k \in 1..m |-> parts[k]]
      <4>1. Parts(b) = [k \in DOMAIN those |-> Body(those[k])]
        BY <2>3
      <4> HIDE DEF ChunksOf
      <4> QED BY <2>7, <3>3, <4>1
    <3>5. parts = [k \in 1..m |-> parts[k]]
      <4>1. DOMAIN parts = 1..m /\ parts = [k \in DOMAIN parts |-> parts[k]]
        BY <3>1, <3>2
      <4> QED BY <4>1
    <3>6. Parts(b) = parts
      <4> HIDE DEF Parts, ChunksOf
      <4> QED BY <3>4, <3>5
    <3> HIDE DEF Parts, ChunksOf
    <3> QED BY <2>8, <3>2, <3>6
  <2>9. CASE ~IsWindowed(b)
    <3>1. Len(those) = 1
      BY <2>2, <2>5, <2>9 DEF Settled
    <3> HIDE DEF Parts, ChunksOf
    <3> QED BY <2>3, <2>9, <3>1
  <2> QED BY <2>8, <2>9
<1> QED BY <1>5, <1>6, <1>7 DEF BodiesCovered, bodies


\* What ChunksCoverText says, of any chunks and blocks.
Covered(kind, cs, list) ==
    /\ IF kind = "fixed" THEN \A i \in DOMAIN cs : WindowAt(cs, list, i)
       ELSE BodiesCovered(cs, list)
    /\ \A i \in DOMAIN cs :
         /\ cs[i].previous = (IF i = 1 THEN <<>> ELSE <<cs[i - 1].id>>)
         /\ cs[i].pages = <<Min({b.page : b \in ToSet(cs[i].blocks)}),
                            Max({b.page : b \in ToSet(cs[i].blocks)})>>

\* Whichever chunker cuts them, the chunks cover the blocks, and are linked.
LEMMA ChunksCover ==
    ASSUME NEW kind, NEW list, Prepared(list)
    PROVE  Covered(kind, ChunkWith(kind, list), list)
<1> DEFINE cs == ChunkWith(kind, list)
           raws == Raws(kind, list)
<1>1. list \in Seq(Block) /\ \A b \in ToSet(list) : b.text # <<>>
  <2>1. list \in Seq(Block) /\ \A i \in 1..Len(list) : list[i].text # <<>>
    BY DEF Prepared
  <2>2. DOMAIN list = 1..Len(list)
    BY <2>1, SeqIsFunction
  <2> QED BY <2>1, <2>2 DEF ToSet
<1>2. raws = IF kind = "fixed" THEN FixedChunks(list) ELSE SemanticChunks(list)
  BY DEF Raws
<1>3. ChunksOfSeen(SemanticChunks(list), list)
  BY SemanticCuts
<1>4. Whole(raws)
  <2> HIDE DEF raws
  <2> QED BY <1>1, <1>2, <1>3, FixedCovers, PlannedAreWhole
<1>5. MadeOf(cs, raws)
  BY <1>1, <1>4, ChunksMade
<1> HIDE DEF raws, cs
<1>6. IF kind = "fixed" THEN \A i \in DOMAIN cs : WindowAt(cs, list, i)
      ELSE BodiesCovered(cs, list)
  <2>1. CASE kind = "fixed"
    BY <1>1, <1>2, <1>5, <2>1, FixedCovers
  <2>2. CASE kind # "fixed"
    <3>1. MadeOf(cs, SemanticChunks(list))
      BY <1>2, <1>5, <2>2
    <3>2. BodiesCovered(cs, list)
      BY <1>1, <1>3, <3>1, SemanticCovers
    <3> QED BY <2>2, <3>2
  <2> QED BY <2>1, <2>2
<1>7. ASSUME NEW i \in DOMAIN cs
      PROVE  /\ cs[i].previous = (IF i = 1 THEN <<>> ELSE <<cs[i - 1].id>>)
             /\ cs[i].pages = <<Min({b.page : b \in ToSet(cs[i].blocks)}),
                                Max({b.page : b \in ToSet(cs[i].blocks)})>>
  <2>1. i \in 1..Len(raws)
    BY <1>5, ListPlaces DEF MadeOf
  <2>2. MadeAs(cs, raws, i)
    BY <1>5, <2>1 DEF MadeOf
  <2> QED BY <2>2 DEF MadeAs
<1>8. Covered(kind, cs, list)
  BY <1>6, <1>7 DEF Covered
<1> QED BY <1>8 DEF cs

\* The chunks that are collected are what the chunker makes of prepared blocks.
ChunkedInv == pc = "collect" => Prepared(blocks) /\ made = ChunkWith(chunker, blocks)

\* Every step keeps that.
LEMMA ChunkedStep ==
    ASSUME CurationInv, ChunkedInv, [Next]_vars
    PROVE  ChunkedInv'
<1>1. CASE Chunk /\ UNCHANGED chunker
  <2>1. /\ blocks' = Prepare(blocks) /\ made' = ChunkWith(chunker, blocks') /\ pc = "chunk"
        /\ chunker' = chunker
    BY <1>1 DEF Chunk
  <2>2. blocks \in Seq(Block)
    <3>1. Normalize(report.blocks) \in Seq(Block) /\ blocks = Deduplicate(Normalize(report.blocks))
      BY <2>1, NormalizeTyped DEF CurationInv
    <3> QED BY <3>1, DeduplicateDistinct
  <2>3. Prepared(blocks')
    BY <2>1, <2>2, PrepareGives
  <2>4. made' = ChunkWith(chunker', blocks')
    BY <2>1
  <2> QED BY <2>3, <2>4 DEF ChunkedInv
<1>2. CASE pc' # "collect"
  BY <1>2 DEF ChunkedInv
<1>3. CASE UNCHANGED <<chunker, pc, blocks, made>>
  BY <1>3 DEF ChunkedInv
<1>4. ASSUME Stage
      PROVE  \/ Chunk /\ UNCHANGED chunker
             \/ pc' # "collect" \/ UNCHANGED <<chunker, pc, blocks, made>>
  BY <1>4 DEF Stage, ValidateFiles, TakeParser, Parse, NormalizeBlocks, DeduplicateBlocks, Collect,
       PrepareEmbeddings, TakeGenerator, LookupCache, EmbedBatch, Attach, DropDuplicates,
       IndexChunks, Audit, Raise, document
<1>5. ASSUME \/ IngestAgain \/ LeaveIt \/ StartClose \/ CloseParser \/ CloseGenerator \/ LoseFile
             \/ UNCHANGED vars
      PROVE  pc' # "collect" \/ UNCHANGED <<chunker, pc, blocks, made>>
  BY <1>5 DEF IngestAgain, LeaveIt, StartClose, CloseParser, CloseGenerator, LoseFile, vars, document
<1> QED BY <1>1, <1>2, <1>3, <1>4, <1>5 DEF Next

\* Chunking (FixedSizeChunker, BlockAwareSemanticPlanner, ChunkBuilder,
\* RecursiveTextSplitter, ChunkPostProcessor): of any blocks the parsers may
\* return and for any budget, no text is lost between the blocks and the chunks.
\* The windows lie one stride apart, reach the end and name exactly the blocks
\* whose tokens they hold; the semantic chunks hold every body whole, or in
\* pieces that overlap by no more than the overlap, in the order of the document
\* and within the maximum unless the block stands alone; and the chunks are
\* linked in their order and carry the pages of their blocks.
THEOREM ChunksCorrect == Spec => []ChunksCoverText
<1>1. Init => ChunkedInv
  BY DEF Init, ChunkedInv
<1>2. CurationInv /\ ChunkedInv /\ [Next]_vars => ChunkedInv'
  BY ChunkedStep
<1>3. ChunkedInv => ChunksCoverText
  <2> SUFFICES ASSUME ChunkedInv, pc = "collect" PROVE ChunksCoverText
    BY DEF ChunksCoverText
  <2>1. Prepared(blocks) /\ made = ChunkWith(chunker, blocks)
    BY DEF ChunkedInv
  <2>2. Covered(chunker, made, blocks)
    BY <2>1, ChunksCover
  <2>3. WindowsCover <=> \A i \in DOMAIN made : WindowAt(made, blocks, i)
    BY DEF WindowsCover, WindowAt
  <2>4. MergesCover <=> BodiesCovered(made, blocks)
    BY DEF MergesCover, BodiesCovered
  <2> QED BY <2>2, <2>3, <2>4 DEF ChunksCoverText, Covered
<1> QED BY <1>1, <1>2, <1>3, CurationInvariant, PTL DEF Spec

=============================================================================
