------------------------------ MODULE Chunking ------------------------------
(***************************************************************************)
(* How curated blocks become chunks: the fixed-size chunker (overlapping   *)
(* windows over the token stream of a document), the semantic chunker      *)
(* (planner and builder), the factory that turns raw chunks into chunks    *)
(* and the post-processor that links and scores them.                      *)
(***************************************************************************)
EXTENDS BlockCuration

CONSTANTS
    ChunkMin,        \* min_chunk_tokens
    ChunkTarget,     \* target_chunk_tokens
    ChunkMax,        \* max_chunk_tokens
    Overlap,         \* overlap_tokens
    MergeSimilarity, \* similarity_threshold
    Separators,      \* recursive_separators: sets of tokens a part may end with
    Oversized        \* oversized_chunk_strategy

ASSUME BudgetAssumption ==
    /\ ChunkMin \in Nat \ {0} /\ Overlap \in Nat
    /\ ChunkTarget \in Nat /\ ChunkMax \in Nat
    /\ ChunkMin <= ChunkTarget /\ ChunkTarget <= ChunkMax /\ Overlap < ChunkMax
    /\ MergeSimilarity \in 0..100
    /\ Separators \in Seq(ToSet(Separators)) /\ Separators # <<>>
    /\ Oversized \in {"recursive", "sliding"}

Code == {"code", "code_block"}
Visual == {"caption", "image", "image_caption", "table_caption"}

----------------------------------------------------------------------------
(* Windows over tokens *)

Stride(size) == Max({size - Overlap, 1})

\* Mutant: the tail shorter than the overlap gets no window.
DropsTail(tokens, size) ==
    LET n == Len(tokens)
        k == CHOOSE i \in 0..n : /\ i * Stride(size) + size + Overlap >= n
                                 /\ \A j \in 0..n : j * Stride(size) + size + Overlap >= n => i <= j
    IN IF n = 0 THEN <<>>
       ELSE [i \in 1..(k + 1) |->
                SubSeq(tokens, (i - 1) * Stride(size) + 1,
                               Min({(i - 1) * Stride(size) + size, n}))]

\* The windows start one stride apart; the first that reaches the end is last.
Windows(tokens, size) ==
    LET n == Len(tokens)
        k == CHOOSE i \in 0..n : /\ i * Stride(size) + size >= n
                                 /\ \A j \in 0..n : j * Stride(size) + size >= n => i <= j
    IN IF n = 0 THEN <<>>
       ELSE [i \in 1..(k + 1) |->
                SubSeq(tokens, (i - 1) * Stride(size) + 1,
                               Min({(i - 1) * Stride(size) + size, n}))]

----------------------------------------------------------------------------
(* FixedSizeChunker *)

TokenStream(blocks) ==
    FlattenSeq([i \in DOMAIN blocks |->
        [j \in DOMAIN blocks[i].text |-> [token |-> blocks[i].text[j], block |-> blocks[i]]]])

\* The blocks of a window, each once, in the order of their first token.
Distinct(s) == FoldLeft(LAMBDA acc, e : IF Contains(acc, e) THEN acc ELSE Append(acc, e),
                        <<>>, s)

SourceBlocks(stream, start, size) ==
    LET window == SubSeq(stream, start + 1, Min({start + size, Len(stream)})) IN
    Distinct([i \in DOMAIN window |-> window[i].block])

TypeOfWindow(blocks) ==
    LET types == {b.type : b \in ToSet(blocks)} IN
    IF "table" \in types THEN "table"
    ELSE IF types \cap Code # {} THEN "code" ELSE "paragraph"

\* The cursor over the stream moves by the stride of the windows, so that a
\* window and its source blocks stay together.
FixedChunks(blocks) ==
    LET stream == TokenStream(blocks)
        windows == Windows([i \in DOMAIN stream |-> stream[i].token], ChunkMax)
    IN [i \in DOMAIN windows |->
            LET sources == SourceBlocks(stream, (i - 1) * Stride(ChunkMax), Len(windows[i]))
            IN [text |-> windows[i], body |-> windows[i], blocks |-> sources,
                strategy |-> "fixed_token_window", type |-> TypeOfWindow(sources),
                anchor |-> <<>>]]

----------------------------------------------------------------------------
(* BlockAwareSemanticPlanner *)

\* A list block is planned like a heading.
Strategy(b) ==
    IF b.type \in {"heading", "list"} THEN "heading_anchored"
    ELSE IF b.type = "table" THEN "table_aware"
    ELSE IF b.type \in Code \cup Visual \cup {"definition"} THEN "standalone"
    ELSE IF Len(b.text) > ChunkMax THEN Oversized
    ELSE "semantic_merge"

IsStandalone(b) == Strategy(b) \in {"table_aware", "standalone"}
IsWindowed(b) == Strategy(b) \in {"recursive", "sliding"}

StartsSection(b) ==
    \/ Strategy(b) = "heading_anchored"
    \/ b.level # None
    \/ b.ocr /\ b.conf \notin {None, 0} /\ b.conf < 50

\* The normalizer leaves the path of the block's section as its anchor.
AnchorOf(b) ==
    LET path == IF b.type = "heading" THEN Append(b.parents, b.section)
                ELSE IF b.parents # <<>> THEN b.parents ELSE <<b.section>>
    IN Either(WordsOf(FlattenSeq(path)), <<"untitled", "section">>)

----------------------------------------------------------------------------
(* RecursiveTextSplitter *)

\* Cut text behind each separator.
CutAfter(text, separator) ==
    FoldLeft(LAMBDA acc, t :
                IF acc = <<>> \/ Last(Last(acc)) \in separator
                THEN Append(acc, <<t>>)
                ELSE [acc EXCEPT ![Len(acc)] = Append(@, t)],
             <<>>, text)

\* Parts within the maximum are left alone; the others are cut at the next
\* kind of separator, and by windows once there is none left.
SplitParts(text) ==
    LET Refine(parts, Cut(_)) ==
            FlattenSeq([i \in DOMAIN parts |->
                IF Len(parts[i]) <= ChunkMax THEN <<parts[i]>> ELSE Cut(parts[i])])
        cut == FoldLeft(LAMBDA parts, s : Refine(parts, LAMBDA p : CutAfter(p, s)),
                        <<text>>, Separators)
    IN Refine(cut, LAMBDA p : Windows(p, ChunkTarget))

\* Neighbouring parts grow up to the target, or up to the maximum while they
\* are below the minimum.
MergeParts(parts) ==
    LET Merges(buffer, part) ==
            \/ Len(buffer) + Len(part) <= ChunkTarget
            \/ Len(buffer) < ChunkMin /\ Len(buffer) + Len(part) <= ChunkMax
    IN FoldLeft(LAMBDA acc, part :
                    IF acc # <<>> /\ Merges(Last(acc), part)
                    THEN [acc EXCEPT ![Len(acc)] = @ \o part]
                    ELSE Append(acc, part),
                <<>>, parts)

----------------------------------------------------------------------------
(* ChunkBuilder *)

\* Multiset Jaccard similarity of two texts, as <<part, whole>>.
MergeRatio(s, t) ==
    LET tokens == ToSet(s) \cup ToSet(t)
        shared(x) == Min({CountIn(s, {x}), CountIn(t, {x})})
        part == MapThenSumSet(shared, tokens)
    IN <<part, Len(s) + Len(t) - part>>

TextsOf(blocks) == [i \in DOMAIN blocks |-> blocks[i].text]

ShouldFlush(buffer, b) ==
    LET held == Len(FlattenSeq(TextsOf(buffer)))
        ratio == MergeRatio(Last(buffer).text, b.text)
    IN /\ buffer # <<>>
       /\ \/ StartsSection(b)
          \/ held + Len(b.text) > ChunkMax
          \/ held >= ChunkMin /\ ~AtLeast(ratio[1], ratio[2], MergeSimilarity)

\* The heading a chunk shows: the innermost section of its first block whose
\* name says more than what the block is.
Placeholders == {<<>>, <<"caption">>, <<"footnote">>, <<"paragraph">>, <<"table">>, <<"text">>}

DisplayHeading(blocks, anchor) ==
    LET b == Head(blocks)
        labels == Those(<<b.section>> \o b.parents, LAMBDA s : s \notin Placeholders)
    IN IF labels = <<>> THEN anchor ELSE Last(labels)

\* The heading is not repeated when it is already the first part.
ComposeText(parts, blocks, anchor) ==
    LET title == DisplayHeading(blocks, anchor) IN
    IF parts # <<>> /\ title # <<>> /\ Head(parts) # title
    THEN title \o FlattenSeq(parts) ELSE FlattenSeq(parts)

TypeOfBlock(b) ==
    IF b.type \in Code THEN "code"
    ELSE IF b.type \in {"list", "definition", "table"} THEN b.type
    ELSE IF b.type \in Visual THEN "image" ELSE "paragraph"

TypeOfMerge(blocks) ==
    LET types == {TypeOfBlock(b) : b \in ToSet(blocks)} IN
    IF "table" \in types THEN "table" ELSE IF "code" \in types THEN "code"
    ELSE IF "list" \in types THEN "list" ELSE "paragraph"

Raw(parts, blocks, strategy, type, anchor) ==
    [text |-> ComposeText(parts, blocks, anchor), body |-> FlattenSeq(parts),
     blocks |-> blocks, strategy |-> strategy, type |-> type, anchor |-> anchor]

Flush(acc) ==
    IF acc.buffer = <<>> THEN acc
    ELSE [acc EXCEPT !.buffer = <<>>,
            !.raw = Append(@, Raw(TextsOf(acc.buffer), acc.buffer, "semantic_merge",
                                  TypeOfMerge(acc.buffer), acc.anchor))]

OversizedParts(b) ==
    IF Strategy(b) = "recursive" THEN MergeParts(SplitParts(b.text))
    ELSE Windows(b.text, ChunkTarget)

\* A heading only moves the anchor.
ApplyPlan(acc, b) ==
    LET flushed == Flush(acc)
        Emit(parts) == [flushed EXCEPT !.raw = @ \o [i \in DOMAIN parts |->
            Raw(<<parts[i]>>, <<b>>, Strategy(b), TypeOfBlock(b), acc.anchor)]]
        Buffer(from) == [from EXCEPT !.buffer = Append(@, b),
                                     !.anchor = Either(@, AnchorOf(b))]
    IN IF Strategy(b) = "heading_anchored" THEN [flushed EXCEPT !.anchor = AnchorOf(b)]
       ELSE IF IsWindowed(b) THEN Emit(OversizedParts(b))
       ELSE IF IsStandalone(b) THEN Emit(<<b.text>>)
       ELSE Buffer(IF ShouldFlush(acc.buffer, b) THEN flushed ELSE acc)

PlannedBlocks(blocks) == Those(blocks, LAMBDA b : b.text # <<>>)

SemanticChunks(blocks) ==
    Flush(FoldLeft(ApplyPlan, [raw |-> <<>>, buffer |-> <<>>, anchor |-> <<>>],
                   PlannedBlocks(blocks))).raw

----------------------------------------------------------------------------
(* ChunkModelFactory and ChunkPostProcessor *)

\* A chunk is identified by its source blocks and the head of its text.
CONSTANT IdPrefix    \* the 500 characters of the text in the id, in tokens

ChunkId(raw) ==
    [blocks |-> [i \in DOMAIN raw.blocks |-> raw.blocks[i].id],
     head |-> SubSeq(raw.text, 1, Min({IdPrefix, Len(raw.text)}))]

PagesOf(raw) == {b.page : b \in ToSet(raw.blocks)}

Known(values) == SelectSeq(values, LAMBDA v : v # None)

Mean(values) == IF values = <<>> THEN None
                ELSE FoldLeft(LAMBDA x, y : x + y, 0, values) \div Len(values)

SectionPath(b) == Append(b.parents, b.section)

SectionTitle(raw) ==
    Either(DisplayHeading(raw.blocks, raw.anchor), Head(raw.blocks).section)

\* The index and the total count the raw chunks, the empty ones included.
BuildChunk(raw, i, total) ==
    LET first == Head(raw.blocks)
        of(F(_)) == Known([j \in DOMAIN raw.blocks |-> F(raw.blocks[j])])
    IN [id |-> ChunkId(raw), doc |-> first.doc, text |-> raw.text, type |-> raw.type,
        strategy |-> raw.strategy, anchor |-> raw.anchor, blocks |-> raw.blocks,
        index |-> i - 1, total |-> Max({total, 1}), tokens |-> Len(raw.body),
        pages |-> <<Min(PagesOf(raw)), Max(PagesOf(raw))>>,
        path |-> SectionPath(first),
        title |-> SectionTitle(raw),
        ocr |-> \E b \in ToSet(raw.blocks) : b.ocr,
        fallback |-> \E b \in ToSet(raw.blocks) : b.fallback,
        parse |-> Mean(of(LAMBDA b : b.parse)),
        confidence |-> Mean(of(LAMBDA b : b.conf))]

BuildChunks(raws) ==
    LET chunks == [i \in DOMAIN raws |-> IF raws[i].text = <<>> \/ raws[i].blocks = <<>>
                                         THEN <<>>
                                         ELSE <<BuildChunk(raws[i], i, Len(raws))>>]
    IN FlattenSeq(chunks)

SharesEdge(s, t) ==
    \E n \in 1..Min({Len(s), Len(t), Max({Overlap, 1})}) :
        SubSeq(s, Len(s) - n + 1, Len(s)) = SubSeq(t, 1, n)

BudgetScore(n) ==
    IF n = 0 THEN 0
    ELSE IF n < ChunkMin THEN (100 * n) \div ChunkMin
    ELSE IF n > ChunkMax THEN (100 * ChunkMax) \div n ELSE 100

QualityScore(c) ==
    LET flag(p) == IF p THEN 100 ELSE 0
        parse == IF c.parse \notin {None, 0} THEN c.parse
                 ELSE IF c.confidence \notin {None, 0} THEN c.confidence ELSE 70
    IN (30 * parse + 20 * flag(c.anchor # <<>>) + 20 * BudgetScore(c.tokens)
        + 15 * flag(c.path # <<>>) + 15 * flag(~c.ocr)) \div 100

\* Links and overlap flags are set from the neighbours in the built list.
PostProcess(chunks) ==
    [i \in DOMAIN chunks |->
        LET c == chunks[i]
            linked(j) == j \in DOMAIN chunks
            link(j) == IF linked(j) THEN <<chunks[j].id>> ELSE <<>>
        IN Updated(c,
               [previous |-> link(i - 1), next |-> link(i + 1),
                overlap |-> <<linked(i - 1) /\ SharesEdge(chunks[i - 1].text, c.text),
                              linked(i + 1) /\ SharesEdge(c.text, chunks[i + 1].text)>>,
                quality |-> QualityScore(c)])]

ChunkWith(kind, blocks) ==
    PostProcess(BuildChunks(IF kind = "fixed" THEN FixedChunks(blocks)
                            ELSE SemanticChunks(blocks)))

=============================================================================
