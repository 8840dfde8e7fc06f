----------------------------- MODULE RagPipeline -----------------------------
(***************************************************************************)
(* RAGPipeline: one thread ingests a batch of files, and may ingest it     *)
(* again, while another closes the pipeline and the files themselves may   *)
(* disappear.  Every stage is one step; the embedding model is called one  *)
(* batch and one attempt at a time.  The parser and the embedding          *)
(* generator are managed resources: their handles are taken in one step    *)
(* and used in later ones.  The write of the index is the subject of       *)
(* CoordinatedIndexWriter; here it succeeds or raises.                     *)
(***************************************************************************)
EXTENDS ParserChain, Embedding, ManagedResource

CONSTANTS
    Batches,    \* the batches of files an ingest may be given
    Chunkers,   \* the chunkers the pipeline may be built with
    Quirks,     \* what an injected primary parser may do
    Disturbed,  \* bound: the first files of the batches that are ingested again,
                \*   or closed upon, or lose a file; any other runs alone
    MaxCalls,   \* bound: calls of ingest
    MaxLosses,  \* bound: files that disappear
    MaxCloses   \* bound: calls of close

FileFields == {"path", "stem", "ext", "legal", "found", "link", "rooted", "size", "hash",
               "content", "magic", "damaged", "locked", "pages", "chars", "images", "scan",
               "layer", "items"}

DocumentItem == [label : STRING, text : Seq(STRING), level : Int, page : Int, ocr : BOOLEAN,
                 conf : Int]

IsFile(f) ==
    /\ DOMAIN f = FileFields
    /\ f.stem \in STRING /\ f.found \in BOOLEAN /\ f.legal \in BOOLEAN
    /\ f.pages \in Int /\ f.items \in Seq(DocumentItem)

\* A path names one file, however often it is given.
ASSUME PipelineAssumption ==
    /\ MaxCalls \in Nat \ {0} /\ MaxCloses \in Nat
    /\ \A batch \in Batches :
        /\ batch \in Seq(ToSet(batch)) /\ \A f \in ToSet(batch) : IsFile(f)
        /\ \A f, g \in ToSet(batch) : f.path = g.path => f = g

VARIABLES
    chunker, files,  \* the chunker, and the batch: a sequence of files
    calls, pc,       \* calls of ingest, and the stage the current one is at
    todo,            \* the accepted files that are still to be parsed
    report,          \* the parse result of the current file
    blocks, made,    \* its blocks, and the chunks made of them
    chunks,          \* the chunks of the files before it
    vectors, attempt,\* the vectors so far, and the attempt at the next batch
    cache,           \* the vectors the current generator remembers
    parser, generator, using,  \* the two resources, and the handles in use
    closing, closes, \* the thread that closes, and its calls
    events           \* how often an audit found an invalid chunk

document == <<todo, report, blocks, made>>
embedding == <<vectors, attempt, cache>>
resources == <<parser, generator, using>>
closer == <<closing, closes>>
vars == <<chunker, files, calls, pc, document, chunks, embedding, resources, closer, events>>

NoReport == [attempts |-> <<>>, blocks |-> <<>>, selection |-> None, used |-> "",
             fallback |-> "", ocr |-> "", manual |-> FALSE]

Empty == [t \in {} |-> t]

Init ==
    /\ chunker \in Chunkers /\ files \in Batches
    /\ calls = 1 /\ pc = "validate"
    /\ todo = <<>> /\ report = NoReport /\ blocks = <<>> /\ made = <<>> /\ chunks = <<>>
    /\ vectors = <<>> /\ attempt = 1 /\ cache = Empty
    /\ parser = Unloaded /\ generator = Unloaded
    /\ using = [parser |-> 0, generator |-> 0]
    /\ closing = "" /\ closes = 0 /\ events = 0

IsDisturbed == files[1].path \in Disturbed

FileAt(path) == CHOOSE f \in ToSet(files) : f.path = path

Ended == {"returned", "raised"}

\* An exception ends the call and leaves nothing but the cache behind.
Raise ==
    /\ pc' = "raised"
    /\ todo' = <<>> /\ report' = NoReport /\ blocks' = <<>> /\ made' = <<>> /\ chunks' = <<>>
    /\ vectors' = <<>> /\ attempt' = 1
    /\ using' = [parser |-> 0, generator |-> 0]

----------------------------------------------------------------------------
(* Files to chunks *)

\* The batch is validated as one; rejected files are left out in silence.
ValidateFiles ==
    /\ pc = "validate"
    /\ IF ValidationRaises(files) THEN Raise
       ELSE /\ todo' = ValidPaths(files)
            /\ pc' = IF todo' = <<>> THEN "prepare" ELSE "take_parser"
            /\ UNCHANGED <<report, blocks, made, chunks, vectors, attempt, using>>
    /\ UNCHANGED <<cache, parser, generator, events>>

TakeParser ==
    /\ pc = "take_parser"
    /\ \/ /\ parser' = Load(parser)
          /\ using' = [using EXCEPT !.parser = parser'.current]
          /\ pc' = "parse"
          /\ UNCHANGED <<document, chunks, vectors, attempt>>
       \/ ~IsLoaded(parser) /\ Raise /\ UNCHANGED parser
    /\ UNCHANGED <<cache, generator, events>>

\* What each parser makes of the file when the parsers in broken are not
\* installed or fail, and the first of the chain has been injected.
Results(f, broken, quirk) ==
    LET primary == Select(f).primary
        Clauses(result) ==
            [blocks |-> [i \in DOMAIN result.blocks |-> [result.blocks[i] EXCEPT !.type = "clause"]],
             error  |-> result.error]
    IN
    [p \in ToSet(Select(f).order) |->
        IF p = primary /\ quirk = "times_out" THEN Raises("TimeoutError", "timed out")
        ELSE IF p = primary /\ quirk = "returns_nothing" THEN Blocks(<<>>)
        ELSE IF p \in broken
        THEN Raises("RuntimeError", IF p = "unstructured" THEN "not installed" ELSE "failed")
        ELSE IF p = primary /\ quirk = "names_clauses" THEN Clauses(ParserResult(p, f))
        ELSE ParserResult(p, f)]

\* The file is loaded again: it may be gone.  A chain without a usable parser
\* asks for manual recovery, and blocks that are not blocks are not caught.
Parse ==
    /\ pc = "parse"
    /\ \E broken \in SUBSET ToSet(Select(FileAt(Head(todo))).order), quirk \in Quirks :
        LET f == FileAt(Head(todo))
            result == ParseFile(f, Results(f, broken, quirk))
        IN IF ResolveError(f) # "" \/ ~LoadFile(f).ready
              \/ quirk = "malformed" \/ result.manual
           THEN Raise
           ELSE /\ report' = result /\ blocks' = result.blocks
                /\ using' = [using EXCEPT !.parser = 0]
                /\ pc' = "normalize"
                /\ UNCHANGED <<todo, made, chunks, vectors, attempt>>
    /\ UNCHANGED <<cache, parser, generator, events>>

NormalizeBlocks ==
    /\ pc = "normalize"
    /\ blocks' = Normalize(blocks)
    /\ pc' = "deduplicate"
    /\ UNCHANGED <<todo, report, made, chunks, embedding, resources, events>>

DeduplicateBlocks ==
    /\ pc = "deduplicate"
    /\ blocks' = Deduplicate(blocks)
    /\ pc' = "chunk"
    /\ UNCHANGED <<todo, report, made, chunks, embedding, resources, events>>

\* The chunker prepares the blocks again before it cuts them.
Chunk ==
    /\ pc = "chunk"
    /\ blocks' = Prepare(blocks)
    /\ made' = ChunkWith(chunker, blocks')
    /\ pc' = "collect"
    /\ UNCHANGED <<todo, report, chunks, embedding, resources, events>>

Collect ==
    /\ pc = "collect"
    /\ chunks' = chunks \o made
    /\ todo' = Tail(todo) /\ report' = NoReport /\ blocks' = <<>> /\ made' = <<>>
    /\ pc' = IF todo' = <<>> THEN "prepare" ELSE "take_parser"
    /\ UNCHANGED <<embedding, resources, events>>

----------------------------------------------------------------------------
(* Chunks to vectors *)

PrepareEmbeddings ==
    /\ pc = "prepare"
    /\ IF PreparationRaises(chunks) THEN Raise
       ELSE /\ chunks' = PrepareChunks(chunks)
            /\ pc' = "take_generator"
            /\ UNCHANGED <<document, vectors, attempt, using>>
    /\ UNCHANGED <<cache, parser, generator, events>>

\* A generator that is loaded anew has an empty cache.
TakeGenerator ==
    /\ pc = "take_generator"
    /\ \/ /\ generator' = Load(generator)
          /\ using' = [using EXCEPT !.generator = generator'.current]
          /\ cache' = IF IsLoaded(generator) THEN cache ELSE Empty
          /\ pc' = "lookup"
          /\ UNCHANGED <<document, chunks, vectors, attempt>>
       \/ ~IsLoaded(generator) /\ Raise /\ UNCHANGED <<generator, cache>>
    /\ UNCHANGED <<parser, events>>

Texts == [i \in DOMAIN chunks |-> chunks[i].embedding]

LookupCache ==
    /\ pc = "lookup"
    /\ vectors' = CachedVectors(Texts, cache)
    /\ pc' = "embed"
    /\ UNCHANGED <<document, chunks, attempt, cache, resources, events>>

\* One attempt at the next batch.  A call that raises and an answer with a
\* vector of the wrong size are tried again, an answer that is too short is not.
EmbedBatch ==
    /\ pc = "embed" /\ Missing(vectors) # <<>>
    /\ LET batch == NextBatch(vectors)
           texts == TextsAt(Texts, batch)
           Retry == IF HasAttemptsLeft(attempt)
                    THEN /\ attempt' = attempt + 1
                         /\ UNCHANGED <<pc, document, chunks, vectors, cache, using>>
                    ELSE Raise /\ UNCHANGED cache
       IN \/ Retry
          \/ \E answer \in Answers(texts) :
                IF ~IsValidAnswer(answer) THEN Retry
                ELSE /\ cache' = CacheWith(cache, Texts, batch, answer)
                     /\ IF Len(answer) < Len(batch) THEN Raise
                        ELSE /\ vectors' = Fill(vectors, batch, answer)
                             /\ attempt' = 1
                             /\ UNCHANGED <<pc, document, chunks, using>>
    /\ UNCHANGED <<parser, generator, events>>

\* The vectors are zipped with the chunks in order.
Attach ==
    /\ pc = "embed" /\ Missing(vectors) = <<>>
    /\ chunks' = AttachVectors(chunks, vectors)
    /\ vectors' = <<>> /\ using' = [using EXCEPT !.generator = 0]
    /\ pc' = "deduplicate_vectors"
    /\ UNCHANGED <<document, attempt, cache, parser, generator, events>>

DropDuplicates ==
    /\ pc = "deduplicate_vectors"
    /\ chunks' = DeduplicateVectors(chunks)
    /\ pc' = "index"
    /\ UNCHANGED <<document, embedding, resources, events>>

IndexChunks ==
    /\ pc = "index"
    /\ \/ Raise
       \/ pc' = "audit" /\ UNCHANGED <<document, chunks, vectors, attempt, using>>
    /\ UNCHANGED <<cache, parser, generator, events>>

\* No stage sets the ingestion timestamp the audit requires of every chunk.
AuditIssues(c) ==
    {"document_version", "ingestion_timestamp"}
    \cup (IF c.anchor = <<>> THEN {"heading_anchor"} ELSE {})
    \cup (IF c.parse = None THEN {"parse_confidence"} ELSE {})

Audit ==
    /\ pc = "audit"
    /\ events' = IF \E c \in ToSet(chunks) : AuditIssues(c) # {} THEN events + 1 ELSE events
    /\ pc' = "returned"
    /\ UNCHANGED <<document, chunks, embedding, resources>>

----------------------------------------------------------------------------

\* The caller ingests the batch again.
IngestAgain ==
    /\ pc \in Ended /\ calls < MaxCalls /\ IsDisturbed
    /\ calls' = calls + 1 /\ pc' = "validate" /\ chunks' = <<>>
    /\ UNCHANGED <<chunker, files, document, embedding, resources, closer, events>>

Stage ==
    /\ \/ ValidateFiles \/ TakeParser \/ Parse \/ NormalizeBlocks \/ DeduplicateBlocks
       \/ Chunk \/ Collect \/ PrepareEmbeddings \/ TakeGenerator \/ LookupCache
       \/ EmbedBatch \/ Attach \/ DropDuplicates \/ IndexChunks \/ Audit
    /\ UNCHANGED <<chunker, files, calls, closer>>

----------------------------------------------------------------------------
(* The other thread and the disk *)

\* RAGPipeline.close closes the parser and then the generator; a finaliser
\* that raises ends it.
StartClose ==
    /\ closing = "" /\ closes < MaxCloses /\ IsDisturbed
    /\ closing' = "parser" /\ closes' = closes + 1
    /\ UNCHANGED <<chunker, files, calls, pc, document, chunks, embedding, resources, events>>

CloseParser ==
    /\ closing = "parser"
    /\ \E raises \in BOOLEAN :
        /\ raises => IsLoaded(parser)
        /\ parser' = Close(parser, raises)
        /\ closing' = IF raises THEN "" ELSE "generator"
    /\ UNCHANGED <<chunker, files, calls, pc, document, chunks, embedding, generator, using,
                   closes, events>>

CloseGenerator ==
    /\ closing = "generator"
    /\ \E raises \in BOOLEAN :
        /\ raises => IsLoaded(generator)
        /\ generator' = Close(generator, raises)
    /\ closing' = ""
    /\ UNCHANGED <<chunker, files, calls, pc, document, chunks, embedding, parser, using,
                   closes, events>>

\* A file that is still to be read disappears from the disk.
LoseFile ==
    /\ IsDisturbed /\ Cardinality({f \in ToSet(files) : ~f.found}) < MaxLosses
    /\ \E f \in ToSet(files) :
        /\ f.found /\ (pc = "validate" \/ Contains(todo, f.path))
        /\ files' = [i \in DOMAIN files |->
                        IF files[i].path = f.path THEN [files[i] EXCEPT !.found = FALSE]
                        ELSE files[i]]
    /\ UNCHANGED <<chunker, calls, pc, document, chunks, embedding, resources, closer, events>>

\* The callers may leave it at that.
LeaveIt == pc \in Ended /\ closing = "" /\ UNCHANGED vars

Next == \/ Stage \/ IngestAgain \/ LeaveIt
        \/ StartClose \/ CloseParser \/ CloseGenerator \/ LoseFile

Spec == Init /\ [][Next]_vars

----------------------------------------------------------------------------
(* Properties *)

Stages == {"validate", "take_parser", "parse", "normalize", "deduplicate", "chunk", "collect",
           "prepare", "take_generator", "lookup", "embed", "deduplicate_vectors", "index",
           "audit"} \cup Ended

ResourceOK(r) == r.loads \in Nat /\ r.current \in 0..r.loads /\ r.finalised \subseteq 1..r.loads

\* The state keeps its type: the attempt at a batch never exceeds max_retries,
\* a handle is one that was loaded, nothing survives the call it belongs to.
TypeOK ==
    /\ chunker \in Chunkers /\ pc \in Stages /\ calls \in 1..MaxCalls
    /\ attempt \in 1..MaxRetries
    /\ ResourceOK(parser) /\ ResourceOK(generator)
    /\ using.parser \in 0..parser.loads /\ using.generator \in 0..generator.loads
    /\ closing \in {"", "parser", "generator"} /\ closes \in 0..MaxCloses
    /\ ToSet(todo) \subseteq {f.path : f \in ToSet(files)}
    /\ pc \in {"validate"} \cup Ended =>
            todo = <<>> /\ blocks = <<>> /\ made = <<>> /\ vectors = <<>>

\* Validation (FileValidationService.validate_many, FileLoadService): no two
\* accepted files have the same bytes, and loading a directory answers for
\* every entry, in order, as if the entries that do not resolve were not there.
AcceptedFilesDistinct ==
    /\ \A i, j \in DOMAIN todo : FileAt(todo[i]).hash = FileAt(todo[j]).hash => i = j
    /\ pc = "validate" =>
        LET loaded == LoadCandidates(files)
            Resolves(i) == ResolveError(files[i]) = ""
        IN \A i \in DOMAIN files :
            /\ loaded[i].path = files[i].path
            /\ loaded[i].ready <=>
                /\ Resolves(i) /\ ValidateOne(files[i]).valid
                /\ \A j \in 1..(i - 1) : Resolves(j) => files[j].hash # files[i].hash

\* Parsing (ParserChainExecutor, ParserProvenanceAnnotator): the result is that
\* of the first parser of the route that returned blocks, every one before it
\* failed and left its attempt, the blocks say whether a fallback made them, and
\* the reason they carry is that of the first failure if it was an error the
\* parser raised in time.  A timeout and an empty result are left out: the code
\* reports them as parse errors, although _fallback_reason_code promises "the
\* first failure reason that forced fallback execution".
FirstUsableParser ==
    pc = "normalize" =>
        LET f == FileAt(Head(todo))
            attempts == report.attempts
            n == Len(attempts)
        IN /\ [i \in 1..n |-> attempts[i].parser] = SubSeq(Select(f).order, 1, n)
           /\ \A i \in 1..n : attempts[i].ok <=> i = n
           /\ report.used = attempts[n].parser
           /\ report.ocr # "" <=> report.used = "ocr_only"
           /\ \A b \in ToSet(blocks) :
                b.fallback = (n > 1) /\ b.doc = f.stem /\ b.parse = Head(blocks).parse
           /\ n > 1 /\ attempts[1].reason \notin {"primary_timeout", "primary_empty_output"}
                => FallbackReason(attempts) = attempts[1].reason

\* Normalisation (SectionPathNormalizer): the parents of every block are the
\* headings that enclose it, whatever happened to the blocks of those headings
\* afterwards.  A heading encloses what follows it up to the next heading at its
\* level or above.
SectionsAreAncestors ==
    pc = "deduplicate" =>
        LET raw == [i \in DOMAIN report.blocks |->
                        NormalizeHeading(CleanArtifacts(report.blocks[i]))]
            IsHeading(i) == raw[i].type = "heading"
            Closes(k, j) == IsHeading(k) /\ raw[k].level <= raw[j].level
            Encloses(j, i) == /\ IsHeading(j) /\ j < i
                              /\ \A k \in (j + 1)..i : ~Closes(k, j)
            Parents(i) == LET above == Those([j \in 1..(i - 1) |-> j], LAMBDA j : Encloses(j, i))
                          IN [k \in DOMAIN above |-> raw[above[k]].section]
        IN \A b \in ToSet(blocks) :
            \E i \in DOMAIN raw : raw[i].id = b.id /\ b.parents = Parents(i)

\* Deduplication (BlockDeduplicator): the chunker's second pass changes nothing.
\* Of two kept blocks the later is no near duplicate of the earlier, unless it is
\* a clause of a legal document that is less than almost equal to any such.  What
\* is dropped is near a block that was kept before it, and named by the report,
\* or its text is on several pages.  That near duplicates go at all is what the
\* code does: docs/architecture.md has them reviewed, where others are dropped.
CuratedUnlike ==
    pc = "chunk" =>
        LET before == Normalize(report.blocks)
            decisions == DeduplicateReport(before).decisions
            Earlier(i) == {before[j] : j \in {k \in 1..(i - 1) : decisions[k].method = "kept"}}
        IN /\ Deduplicate(blocks) = blocks
           /\ \A i \in DOMAIN before :
                CASE decisions[i].method = "kept" ->
                        \A k \in Earlier(i) :
                            Alike(before[i], k, NearDuplicate) => BypassesAsLegal(before[i], k)
                  [] decisions[i].method \in {"exact_hash", "near_duplicate"} ->
                        \E k \in Earlier(i) :
                            /\ k.id = decisions[i].of
                            /\ k.text = before[i].text \/ Alike(before[i], k, NearDuplicate)
                  [] OTHER ->
                        \E b, c \in ToSet(before) : b.text = before[i].text
                            /\ c.text = b.text /\ b.page # c.page

\* Where the tokens of each block of a list lie in its token stream.
Offset(list, i) == Len(FlattenSeq(TextsOf(SubSeq(list, 1, i - 1))))
Span(list, i) == (Offset(list, i) + 1)..(Offset(list, i) + Len(list[i].text))

\* Chunking: no text is lost between the blocks and the chunks.  The windows of
\* the fixed chunker (FixedSizeChunker) lie one stride apart, reach the end, and
\* name exactly the blocks whose tokens they hold.
WindowsCover ==
    \A i \in DOMAIN made :
        LET stream == FlattenSeq(TextsOf(blocks))
            start  == (i - 1) * Stride(ChunkMax)
            stop   == start + Len(made[i].text)
        IN /\ made[i].text = SubSeq(stream, start + 1, stop)
           /\ Len(made[i].text) <= ChunkMax
           /\ i = Len(made) => stop = Len(stream)
           /\ ToSet(made[i].blocks) =
                {blocks[k] : k \in {m \in DOMAIN blocks :
                                        Span(blocks, m) \cap (start + 1)..stop # {}}}

\* The semantic chunker puts the text of every block that is no heading whole
\* into one chunk, or cuts it into overlapping chunks of its own, in the order
\* of the document; only a table or another standalone block is longer
\* than the maximum.
\* The parts are the text, cut into pieces that overlap at most by Overlap.
Covers(parts, text) ==
    \E start \in [DOMAIN parts -> 0..Len(text)] :
        LET Stop(i) == start[i] + Len(parts[i]) IN
        /\ start[1] = 0 /\ Stop(Len(parts)) = Len(text)
        /\ \A i \in DOMAIN parts :
            /\ parts[i] = SubSeq(text, start[i] + 1, Stop(i))
            /\ i > 1 => start[i] \in (Stop(i - 1) - Overlap)..Stop(i - 1)

Body(c) == SubSeq(c.text, Len(c.text) - c.tokens + 1, Len(c.text))

MergesCover ==
    LET bodies == Those(blocks, LAMBDA b : Strategy(b) # "heading_anchored")
        ChunksOf(b) == Those(made, LAMBDA c : Contains(c.blocks, b))
        Parts(b) == [i \in DOMAIN ChunksOf(b) |-> Body(ChunksOf(b)[i])]
    IN /\ Distinct(FlattenSeq([i \in DOMAIN made |-> made[i].blocks])) = bodies
       /\ \A c \in ToSet(made) :
            /\ c.tokens <= ChunkMax \/ IsStandalone(Head(c.blocks))
            /\ Len(c.blocks) > 1 => \A b \in ToSet(c.blocks) : Strategy(b) = "semantic_merge"
            /\ IsWindowed(Head(c.blocks)) \/ Body(c) = FlattenSeq(TextsOf(c.blocks))
       /\ \A b \in ToSet(bodies) :
            IF IsWindowed(b) THEN Covers(Parts(b), b.text) ELSE Len(ChunksOf(b)) = 1

ChunksCoverText ==
    pc = "collect" =>
        /\ IF chunker = "fixed" THEN WindowsCover ELSE MergesCover
        /\ \A i \in DOMAIN made :
            /\ made[i].previous = (IF i = 1 THEN <<>> ELSE <<made[i - 1].id>>)
            /\ made[i].pages = <<Min({b.page : b \in ToSet(made[i].blocks)}),
                                 Max({b.page : b \in ToSet(made[i].blocks)})>>

\* Embedding (EmbeddingGenerator, EmbeddingService): whatever the model answers
\* and however often a batch is tried, a vector only ever belongs to the text it
\* was made of, in the cache and on the chunks, and no chunk that is indexed
\* repeats one before it.
EmbeddingsOwnText ==
    /\ \A t \in DOMAIN cache : cache[t] = VectorOf(t)
    /\ pc = "embed" => \A i \in DOMAIN vectors : vectors[i] \in {NoVector, VectorOf(Texts[i])}
    /\ pc \in {"deduplicate_vectors", "index", "audit", "returned"} =>
            \A c \in ToSet(chunks) : c.vector = VectorOf(c.embedding)
    /\ pc \in {"index", "audit", "returned"} =>
            \A i, j \in DOMAIN chunks : i < j => ~SuppressedBy(chunks[j], chunks[i])

\* Resources (ManagedResource): of the parsers and of the generators that were
\* loaded at most one is alive, and it is the one the next close finalises,
\* whatever a finaliser raised.
OneLiveResource == NothingLeaks(parser) /\ NothingLeaks(generator)

\* Every ingest comes to an end (RAGPipeline.ingest): each step of it ends it,
\* goes on to a later stage, or has one file less to chunk, fewer texts to
\* embed, or fewer attempts left, whatever the model answers.
Position ==
    [validate |-> 1, take_parser |-> 2, parse |-> 3, normalize |-> 4, deduplicate |-> 5,
     chunk |-> 6, collect |-> 7, prepare |-> 8, take_generator |-> 9, lookup |-> 10, embed |-> 11,
     deduplicate_vectors |-> 12, index |-> 13, audit |-> 14, returned |-> 15, raised |-> 15]

IngestAdvances ==
    [][calls' = calls /\ closing' = closing /\ files' = files =>
        \/ pc' \in Ended
        \/ Position[pc'] > Position[pc]
        \/ pc = "collect" /\ Len(todo') < Len(todo)
        \/ /\ pc = "embed" /\ pc' = pc
           /\ \/ Len(Missing(vectors')) < Len(Missing(vectors))
              \/ vectors' = vectors /\ attempt' > attempt]_vars

=============================================================================
