# LexRAG: specifications, model checking and proofs

LexRAG ingests documents (validate, parse, normalise, chunk, embed, index) into a
dense and a sparse store, and answers questions from them (retrieve, build a context
window, generate, validate citations). This directory holds TLA+ specifications of
its code, TLC configurations that check them on small instances, and TLAPS proofs of
the properties that matter most for instances of any size. Paths below are
relative to the repository.

Contents: [inventory](#inventory), [modules](#modules-and-their-code),
[runs](#runs), [bounds](#bounds), [fairness](#fairness), [proofs](#proofs),
[disagreements found](#where-code-and-documentation-disagree),
[what is left out](#what-is-not-modelled).

## Inventory

`lexrag/` has two entry points. The HTTP server (`serving/`) runs one
`LexRAGApplication` in one uvicorn process; the SDK (`pipeline/rag_pipeline.py`)
is called from any thread. Both end in the same stores.

    HTTP request                                SDK call
         |                                          |
    ASGI app: authorizer,                    RAGPipeline.ingest / close
    rate limiter, dispatch                          |
         |                                  file validation -> parser chain
         |-> ingest / replay -> IngestJobManager    -> normalizer -> deduplicator
         |        (one JSON file per job)           -> chunker -> embedding service
         |             |                            -> vector deduplicator -> audit
         |        IngestPipeline                    |
         |        (parser, chunker, embedder)       |
         |             |                            |
         |             +---> CoordinatedIndexWriter <
         |                      |            |
         |                 QdrantStore   BM25Store
         |                      |            |
         +-> query -> hybrid retriever (two threads)
                      -> context builder -> generator -> answer validator

| component | state it keeps | operations | hard behaviour | what makes it correct |
|---|---|---|---|---|
| index writer (`indexing/coordinated_index_writer.py`) | two snapshots per document, on the stack | `index_chunks` | a document is written to two stores in up to eight backend calls, any of which may raise; no lock spans two calls | both stores hold one version of a document; a failed write is undone; a later write repairs what a crash left |
| dense store (`vector/qdrant_store.py`) | collection, `optimization_report` | `upsert_chunks`, `restore_document_chunks`, `search`, `list_chunks` | stale ids planned before the upsert and deleted after it; own undo | nothing stale stays, nothing live goes |
| sparse store (`indexing/bm25_store.py`) | index | `replace_document_chunks`, `restore_document_chunks`, `search` | delete and index are two bulk requests that may apply in part | a document is replaced completely |
| deduplicator, planner (`vector/vector_deduplicator.py`, `reindex_planner.py`) | none | `deduplicate`, `plan_document_reindex` | order of the batch, versions that are unknown | every suppressed chunk has a stored duplicate |
| backends (`indexing/backends/`) | rows | upsert, list, delete | count of deletions differs between backends; listing limit | |
| ingest jobs (`ingestion/jobs/`) | one record file per job | `start`, `complete`, `fail`, lookups | crash while running; saves that raise; retries of keyed calls; replays of replays | one job per key; ended records settle; a report never runs ahead of the index; a replay makes good what was lost |
| application (`serving/lexrag_application.py`) | none of its own | `ingest`, `replay_ingest_job`, `query` | exceptions between the record and its end | as above |
| ingest pipeline (`ingestion/pipeline.py`) | locals | `ingest_documents` | parse failures are outcomes, later failures end the call | every document is accounted for |
| ASGI app, authorizer, rate limiter (`serving/`) | windows per key | `_handle_http`, `authorize`, `allow` | requests interleave at every await; window boundaries; errors while an error is written | a bounded burst; a refused request has no effect; every request is answered |
| managed resources (`runtime/`, `services/`) | a cached runtime, under a lock | `load`, `get`, `close` | a loader or finalizer that raises; close while a handle is out | at most one instance is alive, and it is the one the next close finalises |
| SDK pipeline (`pipeline/rag_pipeline.py`) | its services | `ingest`, `close` | a file that disappears between validation and parsing; close from another thread; repeated ingests share resources and cache | every ingest ends; each stage hands on what it kept, and nothing of another file |
| file ingestion (`ingestion/file_ingestion/`) | none | `validate_many`, `load`, directory listing | equal files, the first of which may itself be refused | exactly the first of equal files passes |
| parser chain and backends (`ingestion/parser/`) | lazy backends, `last_result` | `parse_with_report` | fallback order, failures of routing and of block building | the first usable parser wins; the blocks say that a fallback made them, and why if the first parser raised in time ([5](#where-code-and-documentation-disagree)) |
| normalizer, block quality, block deduplicator | per-run statistics | `normalize`, `validate`, `deduplicate` | a stack of open sections; decisions that depend on earlier decisions | parents are the enclosing headings; what goes equals or resembles a block that stays ([6](#where-code-and-documentation-disagree)), or recurs on several pages |
| chunker (`ingestion/chunker/`) | none | `chunk` | window arithmetic at the edges | every token of a body is in a chunk; the semantic chunker makes no chunk of a heading, nor of a block of type `list`: it names the chunks below |
| embedding (`ingestion/embeddings/`) | cache of vectors | `embed_texts`, `embed_chunks` | blanks, batches, retries, short answers | each chunk gets its own vector |
| retrieval (`retrieval/`) | none | `retrieve_hits`, `fuse`, `rerank` | two threads read stores that change | fusion follows the ranks of both branches |
| context window, citation, generation | none | `build`, `resolve`, `validate` | removal loop; ids given before sources are dropped | no query term loses its last source; every accepted citation can be traced |
| shared models, audit, eval, config, observability | little or none | | I/O and arithmetic | |

The hazards of this code, at their lines, are listed in `PROJECT.json` with the
properties that cover them. Six have none, each with its reason there: the limit of
10,000 rows of a listing, the race of two processes on one idempotency key, an
operation that blocks the event loop, a second budget for another spelling of an
authorization header, a handle used after another thread closed its resource, and
filters applied after the pool of candidates was cut. In none of them does the
repository promise something the code could keep.

## Modules and their code

Each state machine has a module for itself, an MC module with its instances, and for
a module of proofs; the refinement and the content of the writer's stores have
proofs of their own. The pure algorithms of a pipeline are operators in modules of
their own, one per package, that the state machine extends.

| module | models |
|---|---|
| `IndexChunks` | chunks, the stores as sets of chunks, what list, delete and upsert do, deduplication and the stale set, as operators |
| `CoordinatedIndexWriter` | `index_chunks` with everything it calls in `QdrantStore` and `BM25Store`, one action per backend call |
| `AtomicIndex` | the promise: a document is indexed in both stores in one step, or not at all |
| `IngestJobs` | `ingest` and `replay_ingest_job` over the job records, with the control of the ingest pipeline |
| `Lists` | what Python has a phrase for: comprehensions, stable sorts, slices, merged dicts |
| `FileIntake` | resolving, detecting, validating and loading files (`file_ingestion/`) |
| `ParsedBlocks`, `ParserBackends` | blocks, and what PyMuPDF, Docling, OCR and the other wrappers make of a file's pages and items |
| `ParserChain` | routing, the fallback chain, provenance (`parser/orchestration/`) |
| `BlockCuration` | normalisation, section paths, OCR policy, block deduplication, block quality |
| `Chunking` | the fixed-size and the semantic chunker, chunk fields, post-processing |
| `ManagedResource` | `load`, `get` and `close` of a cached runtime |
| `Embedding` | preparation of texts, cache, batches, answers of the model, vector deduplication |
| `RagPipeline` | `RAGPipeline.ingest` and `close`, composing the eight modules above |
| `Retrieval` | filters, what a search may return, fusion, reranking |
| `ContextWindow` | sources, citations, deduplication, order, compression, conflicts, validation of an answer |
| `Query` | `LexRAGApplication.query` while a document is indexed again, composing the two above |
| `Serving` | authorization, rate limit, dispatch and error mapping of the ASGI application |
| `MCIndexWriter`, `MCIngestJobs`, `MCRagPipeline`, `MCQuery`, `MCServing` | the instances for TLC |
| `SequenceFolds` | what a loop over a sequence keeps, selects and inserts, for every sequence: the induction the proofs about `Query` and `RagPipeline` rest on |
| `CoordinatedIndexWriter_proofs`, `IngestJobs_proofs`, `RagPipeline_proofs`, `Query_proofs`, `Serving_proofs` | the theorems |
| `Chunking_proofs`, `ChunkCoverage_proofs` | what the chunkers compute, and that no body is lost on the way from blocks to chunks |

**Index writer.** A *writer* is one thread inside `index_chunks`. `pc[w]` is its
place in the code, `job[w]` its locals: the documents still `waiting`, the `batch`
of the current one, the two snapshots, the chunks `kept` by deduplication and the
`stale` list last computed. `before`, `alone` and `cause` are bookkeeping for
properties: what the document held when its turn came, whether any other writer
was at the document meanwhile, and which call raised. The actions follow the code
from top to bottom:

- `Begin`, `NextDocument`, `Return`: the loop of `index_chunks`;
- `SnapshotDense`, `SnapshotSparse`: the two `list_chunks` of `_index_document`;
- `Deduplicate`, `PlanReindex`, `DenseUpsert`, `DeleteStale`, `UndoNew`,
  `UndoStale`, `EnsureOptimized`: `QdrantStore.upsert_chunks`, with
  `_write_document`, `_finalize_document_replace`, its rollback, and the lazy
  optimisation. The in-memory backend reports how many ids it deleted, the service
  backend reports the number it was given (`CountsDeletes`); a difference starts
  the undo although nothing raised;
- `ListSparse`, `DeleteSparse`, `IndexSparse`: `BM25Store.replace_document_chunks`,
  the only part inside the `try`;
- `ListDense` to `RestoreSparse`: `_rollback_document`;
- `Crash`: the process dies; stores stay, calls and `optimization_report` go.

Each backend call may raise at a site in `FaultSites`, before or after it took
effect; a bulk request of the sparse service may also apply any subset of its
actions. Embeddings are classes, and `Near` says which classes reach the
similarity threshold. A version is a label; the unversioned label is separate,
because the planner never calls anything stale for it.

**Refinement.** `ImplementsAtomicIndex` maps the stores of the writer to those of
`AtomicIndex` by showing, for each document that is being written, what it held
before, until the writer reaches `indexed`. A failure that is rolled back is then a
stutter, a success is one atomic step. It holds for failures in the reads, the
stale cleanup and the sparse replacement; it cannot hold for the dense upsert and
the optimisation, which are outside the `try` (see the findings).

**Ingest jobs.** A *server* is a thread inside the application; `jobs` are the
record files in the order of their creation, `indexed` the documents the stores
have. `request`, `attempt`, `mine`, `outcome` and `written` are the locals of the
call. `Submit` and `Replay` are the calls, `Lookup` the idempotency check with its
three exits (answered by an earlier record, refused, started), `NumberAttempt` and
`Open` the two file accesses of `IngestJobManager.start`, `Parse`, `Embed` and
`Index` the stages of `ingest_documents`, `Complete` and `Fail` the two ends.
`Complete` is outside the `try` of the caller, so a failing save there leaves the
record running, and the model does the same. A document is a name, and the
parser's verdict on it a choice between completed, failed and quarantined. Indexing
a document is one step here, and may fail after other documents of the call are in:
that is what the writer above shows of itself between two documents.

**SDK pipeline.** `RagPipeline` has one thread inside `RAGPipeline.ingest`, which may
be called again when it has ended, and a second thread inside `RAGPipeline.close`.
`pc` is the stage, `todo` the accepted files not yet chunked, `report` the result of
the parser chain, `blocks`, `made` and `chunks` what the stages hand on, `vectors`
and `attempt` the locals of `embed_texts`; `parser` and `generator` are the two
managed resources, `using` the handles taken of them, `cache` the cache of the
embedding generator. An action is a stage (`ValidateFiles`, `TakeParser`, `Parse`,
`NormalizeBlocks`, `DeduplicateBlocks`, `Chunk`, `Collect`, `PrepareEmbeddings`,
`TakeGenerator`, `LookupCache`, `Attach`, `DropDuplicates`, `IndexChunks`, `Audit`) or
one attempt at one batch (`EmbedBatch`). `StartClose`, `CloseParser` and
`CloseGenerator` are the other thread, whose finalisers may raise and end the close;
`LoseFile` is the disk. Parsing chooses which parsers of the route fail, whether the
first times out, returns nothing or returns what cannot be turned into blocks. The
index write is one step that succeeds or raises: the writer above shows what it does.
Every chunker prepares its blocks once more with `NormalizedBlockPipeline`, a module
that the repository imports and does not contain: `Prepare` models it from its use
(`ingestion/chunker/strategies/base_chunker.py`) and is marked external.

A text is a short sequence of words, and a token is a word, so that thresholds,
windows and overlaps are real arithmetic over small numbers. A vector is the text it
was made of, which makes "this is the vector of that text" an equation; similarity is
the overlap of the words. Scores in the code are fractions; the model has percent.

**Query.** `Query` has the thread of the call, the two threads of the hybrid
retriever and the writer. `denseBranch` and `sparseBranch` are the two futures:
`SearchDense` and `SearchSparse` read their store in one step each, in any order, and
`FuseBranches` waits for both and raises the dense error first. `Write` is the four
steps of a write that does not fail (upsert and stale cleanup of the dense store,
delete and index of the sparse store) and may fall between the two readings. A search
returns any ranking the store's scores allow (`Searches`, `TextSearches`): the
arithmetic of BM25 and of cosine similarity is left open. `BuildContext` is the whole
context builder, `Generate` the model with any of the given answers, or a failure,
and the validation. A caller may put the reranker between the two (`RerankChunks`);
the application does not.

**Serving.** A request is a coroutine of the one event loop, and what it does between
two awaits is one step: `Accept` is everything from the authorization to the first
await, `ReceivePart` and `Disconnect` are the two messages a body can bring, `Send`
is the response. An application operation is part of the step that dispatches it,
since it blocks the loop, and ends with any status or error `IngestJobs` and `Query`
can end with. `windows` are the limiter's windows; `admitted` and `ran` are history
for the properties. `Escapes` is an exception that leaves `__call__`: the details of
a validation error from a validator of the schema hold the exception itself, and
encoding them raises outside the `try`, so the request gets no response.

## Runs

| run | instance | shows |
|---|---|---|
| `index_faults` | 1 writer, 2 documents, 2 failures at any call | types and the proof's invariant on a small instance; rollback and stale rollback restore; success replaces, unifies and covers, whatever an earlier call left; the dense store is never emptied on the way; every call returns or raises, also when its undo or its rollback fails |
| `index_two_writers` | 2 writers on different documents, 1 failure | refinement of `AtomicIndex`; writers keep to their document; idle documents have one version |
| `index_interleaved` | 2 writers on one document, no failure, counting backend | a later call that is alone repairs any interleaving in both stores |
| `ingest_jobs` | 1 server, 2 documents, 1 key, 3 jobs, 2 failures or crashes | one job per key; reports only what is indexed; replays recover; numbers rise |
| `ingest_jobs_two` | 2 servers, 1 failure of the pipeline | records settle; every job ends; reports and replays stay right when jobs overlap |
| `rag_pipeline` | 66 documents of one to three items, 19 files that are routed or refused differently, 10 batches, both chunkers, parsers that time out, return nothing, name every block a clause or return malformed blocks; two of the batches are disturbed by a second call, a close and a file that disappears | of equal files the first passes; the first usable parser wins, and the blocks report the first failure when it was an error raised in time; parents are the enclosing headings; a block is dropped only for an equal or similar one kept before it, or because its text is on several pages, and a legal clause that is similar but not almost equal stays; no token of a body is lost between blocks and chunks; vectors belong to their texts; one live instance of each resource; every step brings the ingest nearer to its end |
| `query` | 5 corpora, with and without an update, 10 requests, 7 answers, failures of either branch and the model | fusion follows both branches although they read different versions; a valid answer's citations can be traced from the response; trimming never loses a word of the question |
| `serving` | two requests of 18 kinds, bursts of four, 3 server settings, limit 2, window 2 | an interval as long as a window admits at most twice the limit less one for each key; a request without the right token or over the limit has no effect, and an authorized one is told 401 only by a file its operation could not open; every request is answered, except one that is lost while its error is written |
| `unchanged_chunk` | violation | an unchanged chunk is deleted from the dense store on re-ingestion |
| `dense_failure` | violation | a failure of the dense write or of the optimisation is not rolled back |
| `interleaved_versions` | violation | two writers of one document leave two versions |
| `attempt_numbers` | violation | one attempt number twice in a lineage |

Every property of a passing run has a mutant, a definition of the same module that
changes one action the way a plausible bug would; TLC finds the property violated
with it.

## Bounds

- Two documents are enough to tell "this document" from "another"; two versions
  and an unversioned document give every case of the planner and of the
  suppression scope; batches of up to three chunks contain a duplicate inside the
  batch and one of a stored chunk.
- `MaxFaults = 2`: a failure, and a second one in its rollback or in the next call.
- Two writers: the writer keeps no state that relates three.
- `MaxJobs = 3`: a job, its replay and a repeated call or replay of either; 4 where
  the lineage needs a replay of a replay and a second replay of the first job.
- The number of calls is not bounded in the writer: the state space is finite.
- The documents of `rag_pipeline` are the lists of one and two items over seven
  kinds (a heading OCR cannot read only comes first), which meets every pair of
  neighbours the section stack, the deduplicator and the chunkers tell apart, and
  longer ones made for one rule each (a chain of near duplicates, a heading OCR
  rejects, a page header). The chunk budgets (2, 3, 4 tokens with an overlap of 1)
  cut documents of up to ten tokens into as many as three windows. `BatchSize = 2`
  and `MaxRetries = 2` give a full and a short batch, and a last attempt. Only the
  batches that hold the file `one` are disturbed (`MaxCalls`, `MaxLosses`,
  `MaxCloses`): ingests share nothing but the resources and the cache.
- The corpora of `query` are sets of three or four chunks of two documents, with `Prefetch`
  and `topK` at or below that number, so that branches and fusion leave some out; the update changes one chunk
  in place, drops one and adds one.
- The clock of `serving` goes to 3 with windows of 2: a window, its boundary and the
  next. Bursts of four reach the bound `2 * 2 - 1` and would exceed it by one. Requests
  only share the windows, so two of different kinds meet every interleaving.

The proofs below have none of these bounds.

## Fairness

`FairSpec` of the writer is weak fairness of `Step(w)`: nothing in `index_chunks`
waits for another thread, each backend call returns or raises, so a call that has
begun goes on. It does not say that a call ever begins, and leaves failures and
crashes to chance. `FairSpec` of `IngestJobs` is the same for a server. There the
liveness run has no crash and no failing save, since the code does nothing after
either: a record then stays `running` until an operator replays it, which is the
case `ReplayRecovers` covers.

`FairSpec` of `Serving` is weak fairness of `Resume(c)` for each request: the event
loop resumes every coroutine that can go on, and the ASGI server goes on handing over
the messages of a body or the client's leaving. No request has to arrive, and the
clock may stop.

`RagPipeline` states no fairness. That an ingest ends is shown by `IngestAdvances`:
each step ends it, goes to a later stage, or lowers one of three counts (files to
chunk, texts to embed, attempts left), whatever the model answers. `Query` has no loop,
and states none either.

## Proofs

| module | theorem | statement |
|---|---|---|
| `CoordinatedIndexWriter_proofs` | `TypeCorrect` | `Spec => []TypeOK` |
| | `WriterInvariant` | `Spec => []WriterInv` |
| | `RollbackCorrect` | `Spec => []RollbackRestores` |
| | `StaleRollbackCorrect` | `Spec => []StaleRollbackRestores` |
| | `ReplacementCorrect` | `Spec => []SuccessReplacesSparse` |
| | `VersionCorrect` | `Spec => []SuccessUnifiesDense` |
| | `ChangesLocal` | `Spec => OnlyCurrentDocument` |
| | `RefinementInvariant` | `Refinable` implies `Spec => []RefinementInv` |
| | `ImplementationCorrect` | `Refinable` implies `Spec => ImplementsAtomicIndex` |
| | `ContentInvariant` | `Spec => []ContentInv` |
| | `NeverEmptied` | `IdsPerVersion` implies `Spec => []DenseNeverEmptied` |
| | `IncomingCovered` | `IdsPerVersion`, `IdsFixDuplicates`, `ConsistentVersions` imply `Spec => []SuccessCoversIncoming` |
| | `VersionsAgree` | `Refinable`, `IdsPerVersion` imply `Spec => []IdleVersionsAgree` |
| `IngestJobs_proofs` | `TypeCorrect` | `Spec => []TypeOK` |
| | `JobsCorrect` | `Spec => [](JobsInv /\ NumbersBounded)` |
| | `ReportsCorrect` | `Spec => []ReportsOnlyIndexed` |
| | `ReplayCorrect` | `Spec => []ReplayRecovers` |
| | `EndedCorrect` | `Spec => EndedForever` |
| | `IdempotencyCorrect` | `OneServer` implies `Spec => []OneJobPerKey` |
| | `NumberingCorrect` | `OneServer` implies `Spec => []ReplaysNumbered` |
| `RagPipeline_proofs` | `ResourcesCorrect` | `Spec => []OneLiveResource` |
| | `PipelineTypes` | `Spec => []TypeOK` |
| | `AcceptedDistinct` | `Spec => []AcceptedFilesDistinct` |
| | `FirstUsableParserWins` | `Spec => []FirstUsableParser` |
| | `SectionsCorrect` | `Spec => []SectionsAreAncestors` |
| | `CuratedAreUnlike` | `Spec => []CuratedUnlike` |
| | `EmbeddingsCorrect` | `Spec => []EmbeddingsOwnText` |
| | `IngestsAdvance` | `Spec => IngestAdvances` |
| `ChunkCoverage_proofs` | `ChunksCorrect` | `Spec => []ChunksCoverText` |
| `SequenceFolds` | `FoldInduction` | a property of the accumulator that each turn of a loop keeps holds at its end |
| | `FoldSelects`, `FoldFilters`, `FoldInserts` | what a comprehension, a filter and an insertion sort return |
| | `FoldAppends` | a loop over one element more is one turn more |
| `Query_proofs` | `BuildWindowOK` | the window of any retrieved chunks has distinct, traceable sources and covers the question |
| | `QueryInvariant` | `Spec => []QueryInv` |
| | `QueryTypes` | `Spec => []TypeOK` |
| | `AnswersTraceable` | `Spec => []ValidAnswersTraceable` |
| | `CoverageKept` | `Spec => []TrimmingKeepsCoverage` |
| | `FusionCorrect` | `Spec => []FusionFollowsBranches` |
| `Serving_proofs` | `TypeCorrect` | `Spec => []TypeOK` |
| | `LimiterCorrect` | `Spec => []LimiterInv` |
| | `RateBoundCorrect` | `Spec => []RateBound` |
| | `RequestsCorrect` | `Spec => []CallsInv` |
| | `RefusalCorrect` | `Spec => []RefusedWithoutEffect` |

**Index writer.** The theorems hold for any sets of writers, documents, ids, versions
and batches, any failure sites and any number of failures. They rest on
`ChunkAssumption` (an id belongs to one document; the unversioned label is not a
version) and `WriterAssumption` (a batch is a non-empty sequence of chunks of one
document and version, without repeated ids). Both are evaluated by TLC in every run of
the writer.

The properties speak of the end of a call and are not inductive. `WriterInv` adds
what is true on the way:

- `OwnLocals`: whatever a writer keeps belongs to its document, so that a write
  for one document cannot touch another (`WriteElsewhere`);
- `AloneApart`: while a writer is in `alone`, nobody else is at its document. This
  is kept by `NextDocument`, which removes both writers when they meet;
- and for each writer in `alone`, `DocumentInv`: which store is still, or again, as
  it was before (`StoresAsBefore`); that a document is empty before it is written
  again (`ClearedFirst`); that the undo list of a one-version document is the whole
  document (`UndoComplete`); that every chunk of another version is in the stale
  list until it is deleted (`StaleComplete`).

A step of another writer leaves the document of `w` alone by the first two parts
(`DocumentInvFrame`); a step of `w` itself is one of eighteen actions, each with its
own case in `DocumentInvStep`. The condition that the document had one version, in
`StaleRollbackRestores`, is needed: from two versions the undo puts back only the
stale ones. The condition on `kept` in `SuccessUnifiesDense` is needed because a
batch whose chunks are all suppressed never reaches the planner.

**Refinement.** `ImplementationCorrect` holds under `Refinable`: calls do not overlap
on a document, failures are in the reads, the stale cleanup and the sparse
replacement, the backend does not count deletions, and a document has a version in
each of its batches or in none. Each part is needed. Overlapping calls mix versions
(`interleaved_versions`); the dense upsert, the optimisation, a failing rollback and a
crash leave a part of the write (`dense_failure`); with a counting backend the
undo of a stale cleanup raises when a new chunk kept the id of a stale one and is gone
already; and a document with versioned and unversioned chunks has two kinds of rows, of
which the undo puts one back. `RefinementInv` adds to `WriterInv` that claims are disjoint
(`ClaimsApart`), so that every writer is in `alone`; how far the dense store of a document
has come as a function of what it held and of the chunks kept (`Progress`); and that a
document nobody writes has one version (`IdleUniform`), which makes the undo complete.
`ViewCommitted` says what the mapped stores show of each document. A step of a writer then
changes what is shown of no document (`ViewWorking`, `ViewTurning`), or is the last write
of one, which is the abstract step with the chunks deduplication kept (`FinishIsAtomic`).

**What the stores hold.** Three properties of the writer are false for some batches
(`unchanged_chunk` shows one), so their theorems say for which they hold.
`IdsPerVersion`: a chunk id is written under one version only. The id is a digest of
the block ids and of the first 500 characters (`chunk_model_factory.py:205`), so this
is what it takes to keep the planner from deleting what it has just written.
`IdsFixDuplicates`: chunks with one id are near duplicates of the same chunks; a long
chunk may change after its first 500 characters without a new id, so an id does not
fix the embedding, only roughly. `ConsistentVersions`: a document has a version in all
of its batches or in none. The instances of `index_faults` satisfy all three; without
`IdsPerVersion` TLC refutes `SuccessCoversIncoming`. `ContentInv` holds
without any of them, for any failures and interleavings: the stores and everything a
call keeps are chunks of the batches (`FromBatches`), a call is in a handler only with
a cause (`Handling`), and a call that is alone knows how far the dense store has come
(`ProgressStep`, of the refinement's proof). `NeverEmptied` then follows because the
chunks written are not among the stale ones; `IncomingCovered` because what
deduplication suppressed is a duplicate of a chunk that stays, of the same version or
of none. `VersionsAgree` is proved of `AtomicIndex` first, where a document is written
in one step, and carried to the writer by the refinement.

**Ingest jobs.** The theorems hold for any finite set of servers, any documents and
keys, any failures, and any number of records (`JobAssumption`). A report is right
because of what a call carries from stage to stage, so `JobsInv` says of each call:
the record it works on is running and repeats what it was asked for (`OwnsJob`), no
other call works on the same record, what it has written is in the index and what it
has results for is among its documents (`ResultsOK`), and what a replay leaves out of
the job it replays is in the index already (`LeavesOutIndexed`). The last holds of
every record too, and with "a completed result is in the index" it carries
`ReplayRecovers` through any chain of replays. `EndedForever` needs only that no two
calls have one record. `NumbersBounded` says that the attempt numbers in use are
bounded, so that the maximum `NextAttempt` takes exists. `TypeOK` bounds the number of records, for
which `RoomLeft` counts the calls that are about to open one.

`OneJobPerKey` and `ReplaysNumbered` are false with two servers, which look keys and
numbers up before either has saved its record, and true under `OneServer`: between its
lookup and its record nobody else starts one (`KeysFree`), and the number a call has
taken is still above all others (`NumbersHigh`).

**Rate limit.** `RateBound` relates any two requests that were let through, and the
limiter only remembers the current window. `LimiterInv` ties the two together for each
key: the times are in order and in the past; the window's count is the number of times
since it opened (`Counts`); and all but the last `RateLimit - 1` times before it opened
are a window's length or more before it (`LeavesOne`). A window opens with the request
that finds the old one over, so the request that opened the old window is that far
away: an interval of a window's length that reaches into the new window holds at most
`RateLimit - 1` requests before it and `RateLimit` in it, which is `2 * RateLimit - 1`
and not one more (`Bounded`).
`CallsInv` is what a request carries through its awaits: one that reads a body, or
for which an operation ran, was authorized; one without the right token has read
nothing, run nothing and no status of success; an authorized one answered 429 has read
and run nothing, and one answered 401 has run its operation; and a response that waits
to be sent has a status. The theorems hold for any limit, window, settings and
requests that satisfy `ServingAssumption`, and for every bound of the clock.

**Resources.** `Sound` says that the instance a resource holds is the last one loaded
or none, and that exactly the others were finalised. `Load` and `Close` keep it
(`LoadSound`, `CloseSound`), every stage leaves a resource alone or loads it
(`StageLoads`), and the other thread leaves it alone or closes it (`CloserCloses`).

**Ingest.** `Control` says what each stage of an ingest finds: what a file record holds,
lost or not (`FilesInv`); how far the counters are and which handles were taken
(`Counters`, `Handles`); and what a stage keeps from the ones before it (`Kept`).
`DistinctTodo` is what makes the accepted files distinct: the paths still to be parsed
are those of results that validation accepted, in rising order, and a file that was lost
since keeps the hash it was compared by. That needs an assumption: within a batch a path
names one file (`PipelineAssumption`). `ReportInv` holds between the parse of a file and
its curation. The parsers are proved to return blocks of the file and of the types the
later stages expect, whatever an injected parser adds (`ParsersReturnBlocks`); the chain
tries the parsers of the route in turn, so that what it returns is what the first one
whose attempt succeeds returned (`FirstFailure`, `ChainReports`); the annotator gives
every block the same origin (`AnnotatedBlocks`); and the report stays right of a file
that is lost before it is used (`ReportStays`).

**Curation.** The blocks of a stage are a function of the parse report (`CurationInv`), so
that its two properties are facts about pure code. For `SectionsAreAncestors` the loop
invariant is that the stack of the normalizer holds the headings that enclose the next
block and no other (`StackEncloses`, `StackGrows`), in rising order of their levels, of
which there is one list only (`RisingIsUnique`, `EnclosingAre`); the names on it are then
the parents of the block (`NamesAreParents`). For `CuratedUnlike` each decision of the
deduplicator is justified by a block that was kept before (`DecisionCases`,
`DedupTurnKeeps`), where the nearest of them exists because fractions are ordered
(`FractionsOrdered`, `GreatestFraction`). A legal clause is compared with the nearest
alone, and that is enough: what is less alike than it stays below the threshold of the
bypass too (`LessAlike`); a block that was kept is kept again by the
second pass (`StillKept`, `DeduplicateAgain`), since it meets fewer blocks, and of fewer
blocks fewer texts recur at the top of pages (`FewerRecur`).

**Chunking.** `ChunkedInv` says that after the chunker the chunks are those it makes of
prepared blocks, which have a text and no text twice (`PrepareGives`); `ChunksCoverText`
is then a fact about the chunkers (`ChunksCover`), for any budget that satisfies
`BudgetAssumption`. The fixed chunker reads the tokens of all blocks as one stream, in
which each block has its span (`StreamIs`). All windows but the last are full, each
starts one stride after the one before, and the last ends with the stream (`WindowsAre`),
so that a window names exactly the blocks whose spans it meets (`SourcesAre`,
`FixedCovers`). The semantic chunker plans while it reads. Its invariant
(`PlannedFor`) is stated of the plan with its buffer flushed: a flush now would leave
chunks of the blocks seen so far in which each body is settled (`ChunksOfSeen`), and the
buffer fits into one chunk (`Buffered`). A block is put in the buffer, ends it, or stands
for itself (`PlanStep`), and each time the chunks gain the block's own, or the last of them
grows (`ChunksAdded`, `ChunkMerged`). The invariant speaks of prefixes of the blocks, so
that a block no earlier one has the text of is new to every chunk (`FreshBlock`). An
oversized block is cut on its own: with the separators in turn or by windows. Either way
the pieces are laid out along the text, each beginning where the one before ends or no more
than the overlap earlier, and they reach its end (`Laid`, `Tiles`, `SplitTiles`); merging
small pieces keeps that (`MergedTile`), and so does cutting a piece again
(`TilesMany`). From the raw chunks to the chunks the fields are copied, and the
post-processor links them (`ChunksMade`).

**Embedding.** `VectorsInv` says that a vector belongs to the text at its place in the
batch (`Owned`), to its key in the cache (`RightCache`) and, once it is attached, to its
chunk. The places of a batch are distinct and have no vector (`MissingAre`, `BatchIs`); an
answer that passes the check of the sizes is right as far as it goes
(`ValidAnswerIsRight`), so that what is filled in and cached is right (`FillKeeps`,
`CacheStaysRight`). Of the chunks themselves nothing is needed but that they are a list,
whatever the chunkers put in it (`ChunksAreList`). `FillKeeps` also counts the empty places,
which a whole answer leaves fewer of; with the retries, which are bounded, that is the
measure of `IngestsAdvance` (`EmbedTries`, `StageAdvances`), and the steps of the other
thread and of the disk show in `closing` and `files` (`OthersShow`).

**Loops.** The query side is loops over lists: filters, stable sorts, deduplication, the
removal loop of the compressor. In the model each is a fold over a sequence, so that
`SequenceFolds` can say once what a loop does: its constant `Op` is the body of the loop,
and `INSTANCE` gives it the body of each. The induction is over the set of turns at which
the claim fails, whose least element would contradict its predecessor
(`NatSetInduction`); no step needs a theorem that takes an operator. `FoldInduction` is
the rule of loop invariants, and `FoldClosed` the case of one invariant for all turns; `FoldSelects`, `FoldFilters` and `FoldInserts` are what it
gives for the comprehension, the filter that looks at what was kept, and the sort. Where
a loop is proved over every list that the next block may end, `FoldAppends` gives its next
turn and `ListInduction` the induction.

**Query.** `QueryInv` says what each stage hands to the next: the stores are finite
sets of chunks (`StoresInv`, any mixture of the two versions while the other thread
writes); the hits of a branch are within its limit and numbered (`BranchInv`); the
chunks fused and reranked have ids of their own, at most as many as were asked for; the
window was built of exactly those chunks, and the response lists them (`CallInv`). The
properties speak of the end and name only the window, so the stages in between have to be
in the invariant. `BuildWindowOK` is the algorithm: the source with number `n` is made
of the `n`-th chunk (`SourcesAreNumbered`), deduplication and order keep sources, and
the compressor drops one source at a time that shares each of its words of the question
with another (`RemovalCovers`), until the budget is met or none is left to drop. The
theorems assume that corpora are finite sets of chunks with ids of their own, and that
updates and the filters of a request are finite lists (`QueryAssumption`).

For `FusionFollowsBranches` the stages before matter too: a store never holds two chunks
of one id, since an upsert replaces by id and keeps the last of equal ids
(`LastOfEachKeyed`, `UpsertKeys`), so a branch names an id at most once and an id earns
from a branch one share or none (`HitsOfOne`, `EarnedIs`). The denominators of the shares
are `RrfK + rank`; the model counts in units of one over their product, which each of them
divides (`DenominatorDivides`), so a share falls strictly as the rank grows
(`ShareFalls`) and an id that both branches rank at least as well and one better earns
strictly more (`BetterEarns`). `FuseFollows` puts this together with the sort
(`SortFalls`), which has a permutation of the ids as its result, and with the cut at
`topK` (`AboveScoresMore`). The split of the filters is a fold too: each filter in force
is either one the store compares or one the retriever compares after it (`FiltersHold`).
A filter is in force if no later one names the same field: `page` and `page_start` are one
field to `filtering.py`, which keeps its filters in dicts, and the later replaces the
earlier; one of the requests of `MCQuery` asks by both names.

Only model-checked:

- liveness (`EveryCallReturns`, `EveryJobEnds`, `EveryRequestAnswered`), which is out
  of the prover's reach: it needs fairness and ENABLED.

Every invariant and every action property that a passing run checks is proved. The provers
know of no literal that it is a string, nor what `SelectSeq` and `ToString` return: the
types of the parsers' blocks therefore name the words they may contain (`Token`), and a
filter that a proof follows is written with `Those`, a fold.

## Where code and documentation disagree

The first four have a run that shows the counterexample. The last two have none: the
property named there leaves out exactly the case, and states the rest.

1. `unchanged_chunk`: `docs/architecture.md:914` lets unchanged chunks keep their
   ids, but `QdrantStore._write_document` deletes the ids it planned as stale after
   it has written them again.
2. `dense_failure`: `docs/architecture.md:654` rolls back on a failure mid-upsert;
   `_index_document` calls the dense upsert, and through it the lazy optimisation,
   before its `try`.
3. `interleaved_versions`: the writer says it keeps the stores consistent per
   document; two threads on one document leave them with different versions. In
   the shipped server calls do not overlap, in the SDK they may.
4. `attempt_numbers`: `next_attempt_number` promises the next number of a lineage
   and looks at one generation of it.
5. `ParserProvenanceAnnotator._fallback_reason_code`
   (`parser_provenance_annotator.py:115`) promises "the first failure reason that forced
   fallback execution". It classifies the stored message again as a `RuntimeError`,
   which a timeout is not and the message of an empty result does not say, so both are
   reported as `primary_parse_error`, although the attempt itself holds the right
   reason. `FirstUsableParser` keeps what is true: the reason of a failure of any other
   kind is the one reported.
6. `docs/architecture.md:382` sends near duplicates to review, where the lines for
   exact duplicates, boilerplate and OCR regions drop. `BlockDeduplicator` drops near
   duplicates too (`block_deduplicator.py:139`), unless they are clauses of a legal
   document, and nothing reviews them. It compares sets of words: a text with the same
   words in another order is lost at any threshold. `CuratedUnlike` keeps what is true:
   what was dropped for a block is near it.

One thing the code does and no document speaks of: `_permission_denied` reads the
status off the text of a `PermissionError`. A document that the process may not open
and whose path holds the word `authorization` is answered 401 by a request that was
authorized and whose operation ran. `Serving` has it (`FileErrors`), and
`RefusedWithoutEffect` says of 401 only what is left.

Two things the properties do not say. `RateBound` is about a key, and a key is the
header as it was sent, so a caller who spells it in two ways has two budgets.
`ValidAnswersTraceable` follows a citation to a chunk the search returned; when the two
branches read two versions of a document, it does not say of which version that chunk
is.

## What is not modelled

- **Numbers of the stores.** BM25 and cosine scores are left open: a search may return
  any ranking that fits the texts. The 10,000-row limit of listings, payload formats,
  timestamps and error texts are left out, and so is a call that names one document
  twice.
- **The race of two processes on one idempotency key**, which the shipped server
  cannot meet.
- **Third parties.** PyMuPDF, Docling, Tesseract, language models, Qdrant and
  Elasticsearch appear only through what the code does with their answers.
- **Code nothing calls**: the query decomposer (`retrieval/query_decomposer.py`), the
  retry helper (`utils/retry.py`), and `LoadedDocumentParserPipeline`, which the SDK
  does not use.
- **What has no state to get wrong**: the page enricher fills defaults; the shared
  model registry loads an entry once under one lock and never drops it; evaluation and
  metrics are arithmetic; configuration and observability format what they are given.
- **Wording**: excerpts, titles, prompts, and the rewriting of characters in the
  normalizer.
