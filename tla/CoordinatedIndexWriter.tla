----------------------- MODULE CoordinatedIndexWriter -----------------------
(***************************************************************************)
(* CoordinatedIndexWriter.index_chunks and what it calls in QdrantStore    *)
(* and BM25Store, one action per call of a storage backend.  A writer is   *)
(* one thread of execution inside index_chunks; the stores are shared and  *)
(* no lock covers more than one backend call.                              *)
(*                                                                         *)
(* For each document of a call the writer takes a snapshot of both stores, *)
(* writes the dense store (deduplicate, plan, upsert, delete stale), then  *)
(* replaces the document in the sparse store; an exception of the sparse   *)
(* replacement restores both snapshots.  Documents written earlier in the  *)
(* call stay, documents still waiting are never written.                   *)
(*                                                                         *)
(* A backend call may raise, before or after it took effect, at the sites  *)
(* in FaultSites; a crash ends every call and leaves the stores as they    *)
(* are.  MaxFaults bounds how often that happens in a behaviour.           *)
(***************************************************************************)
EXTENDS IndexChunks

CONSTANTS
    Writers,        \* the threads that index
    Batches,        \* the document batches they may be given
    FaultSites,     \* the kinds of backend call that may fail, and "crash"
    MaxFaults,      \* bound on failures in one behaviour
    CountsDeletes,  \* delete_chunks returns how many ids it really removed
    Serialised,     \* the callers never index one document twice at a time
    SizeConfigured  \* the store is optimised on construction, not on first write

Sites == {"read", "dense", "stale", "optimize", "sparse", "rollback", "crash"}

ASSUME WriterAssumption ==
    /\ \A b \in Batches : IsBatch(b)
    /\ FaultSites \subseteq Sites
    /\ MaxFaults \in Nat
    /\ CountsDeletes \in BOOLEAN
    /\ Serialised \in BOOLEAN
    /\ SizeConfigured \in BOOLEAN

VARIABLES
    dense,      \* the chunks of the dense store
    sparse,     \* the chunks of the sparse store
    optimized,  \* QdrantStore.optimization_report is not None
    pc,         \* where each writer is
    cause,      \* the site of the exception each writer is handling
    alone,      \* the writers that no other writer met at their document
    job,        \* the locals of each writer
    faults      \* the failures so far

stores == <<dense, sparse>>
vars == <<dense, sparse, optimized, pc, cause, alone, job, faults>>

Labels == {"idle", "start", "snapshotDense", "snapshotSparse", "dedup", "plan",
           "upsert", "deleteStale", "undoNew", "undoStale", "optimize",
           "listSparse", "deleteSparse", "indexSparse", "indexed",
           "listDense", "clearDense", "restoreDense",
           "relistSparse", "clearSparse", "restoreSparse", "raised"}

\* before is what the document held in each store when its turn came.  It, alone
\* and cause only serve properties.
Job == [waiting : SUBSET Batches,
        batch : Batches \cup {<< >>},
        before : [dense : SUBSET Chunk, sparse : SUBSET Chunk],
        denseSnapshot : SUBSET Chunk,
        sparseSnapshot : SUBSET Chunk,
        kept : SUBSET Chunk,
        stale : SUBSET Chunk]

NoJob == [waiting |-> {}, batch |-> << >>,
          before |-> [dense |-> {}, sparse |-> {}],
          denseSnapshot |-> {}, sparseSnapshot |-> {},
          kept |-> {}, stale |-> {}]

Init ==
    /\ dense = {} /\ sparse = {}
    /\ optimized = SizeConfigured
    /\ pc = [w \in Writers |-> "idle"]
    /\ cause = [w \in Writers |-> "none"]
    /\ alone = {}
    /\ job = [w \in Writers |-> NoJob]
    /\ faults = 0

-----------------------------------------------------------------------------
At(w, label) == pc[w] = label
Doc(w) == BatchDoc(job[w].batch)
Incoming(w) == BatchChunks(job[w].batch)

\* What the stores hold for the document of w.
DenseOf(w) == ListDocument(dense, Doc(w))
SparseOf(w) == ListDocument(sparse, Doc(w))

\* Writer w alone moves on.
Move(w, label) == pc' = [pc EXCEPT ![w] = label] /\ UNCHANGED <<cause, alone>>

Goto(w, label) == Move(w, label) /\ UNCHANGED job

\* A backend call at this site raises.
Fault(site) ==
    /\ site \in FaultSites
    /\ faults < MaxFaults
    /\ faults' = faults + 1

\* The exception reaches a handler of this call, which continues at label.
Handle(w, site, label) ==
    /\ pc' = [pc EXCEPT ![w] = label]
    /\ cause' = [cause EXCEPT ![w] = site]
    /\ UNCHANGED <<alone, job>>

\* The exception leaves index_chunks.
Raise(w, site) == Handle(w, site, "raised")

AtDocument(w, d) == job[w].batch # << >> /\ Doc(w) = d

\* The documents a writer is working on or has still to do.
Claimed(w) == {d \in Docs : AtDocument(w, d) \/ \E b \in job[w].waiting : BatchDoc(b) = d}

-----------------------------------------------------------------------------
(* index_chunks: the documents of the call, one after the other. *)

\* Mutant: the loop over the documents is entered in the middle.
BeginInside(w, group) ==
    /\ At(w, "idle") /\ group # {}
    /\ Move(w, "snapshotDense")
    /\ job' = [job EXCEPT ![w].waiting = group]
    /\ UNCHANGED <<dense, sparse, optimized, faults>>

Begin(w, group) ==
    /\ At(w, "idle")
    /\ group # {}
    /\ \A a, b \in group : BatchDoc(a) = BatchDoc(b) => a = b
    /\ Serialised => \A v \in Writers \ {w} : \A b \in group : BatchDoc(b) \notin Claimed(v)
    /\ Move(w, "start")
    /\ job' = [job EXCEPT ![w].waiting = group]
    /\ UNCHANGED <<dense, sparse, optimized, faults>>

\* What a writer knows when it turns to batch b.
StartOf(w, b) ==
    [NoJob EXCEPT !.waiting = job[w].waiting \ {b},
                  !.batch = b,
                  !.before = [dense |-> ListDocument(dense, BatchDoc(b)),
                              sparse |-> ListDocument(sparse, BatchDoc(b))]]

NextDocument(w) ==
    /\ pc[w] \in {"start", "indexed"}
    /\ \E b \in job[w].waiting :
          LET others == {v \in Writers \ {w} : AtDocument(v, BatchDoc(b))} IN
          /\ job' = [job EXCEPT ![w] = StartOf(w, b)]
          /\ alone' = IF others = {} THEN alone \cup {w} ELSE alone \ (others \cup {w})
    /\ pc' = [pc EXCEPT ![w] = "snapshotDense"]
    /\ UNCHANGED <<dense, sparse, optimized, cause, faults>>

\* The call is over: every document is indexed, or an exception left it.
Return(w) ==
    /\ \/ At(w, "indexed") /\ job[w].waiting = {}
       \/ At(w, "raised")
    /\ pc' = [pc EXCEPT ![w] = "idle"]
    /\ cause' = [cause EXCEPT ![w] = "none"]
    /\ alone' = alone \ {w}
    /\ job' = [job EXCEPT ![w] = NoJob]
    /\ UNCHANGED <<dense, sparse, optimized, faults>>

SnapshotDense(w) ==
    /\ At(w, "snapshotDense")
    /\ \/ /\ Move(w, "snapshotSparse")
          /\ job' = [job EXCEPT ![w].denseSnapshot = DenseOf(w)]
          /\ UNCHANGED faults
       \/ Fault("read") /\ Raise(w, "read")
    /\ UNCHANGED <<dense, sparse, optimized>>

SnapshotSparse(w) ==
    /\ At(w, "snapshotSparse")
    /\ \/ /\ Move(w, "dedup")
          /\ job' = [job EXCEPT ![w].sparseSnapshot = SparseOf(w)]
          /\ UNCHANGED faults
       \/ Fault("read") /\ Raise(w, "read")
    /\ UNCHANGED <<dense, sparse, optimized>>

-----------------------------------------------------------------------------
(* QdrantStore.upsert_chunks *)

\* The candidates of other documents never suppress, so the baseline is what
\* the document holds; nothing is written when nothing survives.
Deduplicate(w) ==
    /\ At(w, "dedup")
    /\ \/ /\ \E K \in SUBSET DOMAIN job[w].batch :
                /\ IsKept(job[w].batch, DenseOf(w), K)
                /\ Move(w, IF K = {} THEN "optimize" ELSE "plan")
                /\ job' = [job EXCEPT ![w].kept = {job[w].batch[i] : i \in K}]
          /\ UNCHANGED faults
       \/ Fault("read") /\ Raise(w, "read")
    /\ UNCHANGED <<dense, sparse, optimized>>

\* Mutant: the stale chunks go before the new ones are written.
PlanDeleteFirst(w) ==
    /\ At(w, "plan")
    /\ dense' = DeleteChunks(dense, IdsOf(StaleChunks(DenseOf(w), BatchVersion(job[w].batch))))
    /\ Goto(w, "upsert")
    /\ UNCHANGED <<sparse, optimized, faults>>

PlanReindex(w) ==
    /\ At(w, "plan")
    /\ \/ /\ Move(w, "upsert")
          /\ job' = [job EXCEPT ![w].stale = StaleChunks(DenseOf(w), BatchVersion(job[w].batch))]
          /\ UNCHANGED faults
       \/ Fault("read") /\ Raise(w, "read")
    /\ UNCHANGED <<dense, sparse, optimized>>

\* backend.upsert_chunks of the surviving chunks
DenseUpsert(w) ==
    /\ At(w, "upsert")
    /\ \/ /\ dense' = UpsertChunks(dense, job[w].kept)
          /\ Goto(w, IF job[w].stale = {} THEN "optimize" ELSE "deleteStale")
          /\ UNCHANGED faults
       \/ /\ Fault("dense") /\ Raise(w, "dense")
          /\ dense' \in {dense, UpsertChunks(dense, job[w].kept)}
    /\ UNCHANGED <<sparse, optimized>>

\* delete_chunks(ids) leaves dense' and reports whether it removed them all.
DenseDelete(ids, complete) ==
    /\ dense' = DeleteChunks(dense, ids)
    /\ complete <=> (CountsDeletes => ids \subseteq IdsOf(dense))

DeleteStale(w) ==
    /\ At(w, "deleteStale")
    /\ \/ /\ DenseDelete(IdsOf(job[w].stale), TRUE)
          /\ Goto(w, "optimize")
          /\ UNCHANGED faults
       \/ /\ DenseDelete(IdsOf(job[w].stale), FALSE)
          /\ Handle(w, "stale", "undoNew")
          /\ UNCHANGED faults
       \/ /\ Fault("stale") /\ Handle(w, "stale", "undoNew")
          /\ dense' \in {dense, DeleteChunks(dense, IdsOf(job[w].stale))}
    /\ UNCHANGED <<sparse, optimized>>

\* Mutant: the undo only puts the stale chunks back.
UndoSkipsNew(w) ==
    /\ At(w, "undoNew")
    /\ Goto(w, "undoStale")
    /\ UNCHANGED <<dense, sparse, optimized, faults>>

\* _delete_new_chunks
UndoNew(w) ==
    /\ At(w, "undoNew")
    /\ \/ /\ DenseDelete(IdsOf(job[w].kept), TRUE)
          /\ Goto(w, "undoStale")
          /\ UNCHANGED faults
       \/ /\ DenseDelete(IdsOf(job[w].kept), FALSE)
          /\ Raise(w, "rollback")
          /\ UNCHANGED faults
       \/ /\ Fault("rollback") /\ Raise(w, "rollback")
          /\ dense' \in {dense, DeleteChunks(dense, IdsOf(job[w].kept))}
    /\ UNCHANGED <<sparse, optimized>>

UndoStale(w) ==
    /\ At(w, "undoStale")
    /\ \/ /\ dense' = UpsertChunks(dense, job[w].stale)
          /\ Goto(w, "raised")
          /\ UNCHANGED faults
       \/ /\ Fault("rollback") /\ Raise(w, "rollback")
          /\ dense' \in {dense, UpsertChunks(dense, job[w].stale)}
    /\ UNCHANGED <<sparse, optimized>>

\* _ensure_backend_optimized, after the documents are written
EnsureOptimized(w) ==
    /\ At(w, "optimize")
    /\ \/ /\ optimized' = TRUE
          /\ Goto(w, "listSparse")
          /\ UNCHANGED faults
       \/ /\ ~optimized /\ Fault("optimize") /\ Raise(w, "optimize")
          /\ UNCHANGED optimized
    /\ UNCHANGED stores

-----------------------------------------------------------------------------
(* BM25Store.replace_document_chunks, inside the try of _index_document.  A  *)
(* bulk request that raises may have applied any part of its actions.        *)

\* Mutant: only the ids that are written again are cleared.
ListOverwritten(w) ==
    /\ At(w, "listSparse")
    /\ Move(w, "deleteSparse")
    /\ job' = [job EXCEPT ![w].stale = {c \in SparseOf(w) : c.id \in IdsOf(Incoming(w))}]
    /\ UNCHANGED <<dense, sparse, optimized, faults>>

ListSparse(w) ==
    /\ At(w, "listSparse")
    /\ \/ /\ Move(w, IF SparseOf(w) = {} THEN "indexSparse" ELSE "deleteSparse")
          /\ job' = [job EXCEPT ![w].stale = SparseOf(w)]
          /\ UNCHANGED faults
       \/ Fault("sparse") /\ Handle(w, "sparse", "listDense")
    /\ UNCHANGED <<dense, sparse, optimized>>

DeleteSparse(w) ==
    /\ At(w, "deleteSparse")
    /\ \/ /\ sparse' = DeleteChunks(sparse, IdsOf(job[w].stale))
          /\ Goto(w, "indexSparse")
          /\ UNCHANGED faults
       \/ /\ Fault("sparse") /\ Handle(w, "sparse", "listDense")
          /\ \E done \in SUBSET job[w].stale :
                sparse' = DeleteChunks(sparse, IdsOf(done))
    /\ UNCHANGED <<dense, optimized>>

\* Mutant: only what deduplication kept is indexed.
IndexSparseKept(w) ==
    /\ At(w, "indexSparse")
    /\ sparse' = UpsertChunks(sparse, job[w].kept)
    /\ Goto(w, "indexed")
    /\ UNCHANGED <<dense, optimized, faults>>

\* Mutant: a failing bulk request is not rolled back.
IndexSparseUnprotected(w) ==
    /\ At(w, "indexSparse")
    /\ \/ /\ sparse' = UpsertChunks(sparse, Incoming(w))
          /\ Goto(w, "indexed")
          /\ UNCHANGED faults
       \/ /\ Fault("sparse") /\ Raise(w, "sparse")
          /\ \E done \in SUBSET Incoming(w) : sparse' = UpsertChunks(sparse, done)
    /\ UNCHANGED <<dense, optimized>>

IndexSparse(w) ==
    /\ At(w, "indexSparse")
    /\ \/ /\ sparse' = UpsertChunks(sparse, Incoming(w))
          /\ Goto(w, "indexed")
          /\ UNCHANGED faults
       \/ /\ Fault("sparse") /\ Handle(w, "sparse", "listDense")
          /\ \E done \in SUBSET Incoming(w) : sparse' = UpsertChunks(sparse, done)
    /\ UNCHANGED <<dense, optimized>>

-----------------------------------------------------------------------------
(* _rollback_document: QdrantStore.restore_document_chunks, then             *)
(* BM25Store.restore_document_chunks.  An exception here replaces the first. *)

\* Mutant: the chunks the call wrote are not cleared.
ListDenseNothing(w) ==
    /\ At(w, "listDense")
    /\ Goto(w, "restoreDense")
    /\ UNCHANGED <<dense, sparse, optimized, faults>>

ListDense(w) ==
    /\ At(w, "listDense")
    /\ \/ /\ Move(w, IF DenseOf(w) = {} THEN "restoreDense" ELSE "clearDense")
          /\ job' = [job EXCEPT ![w].stale = DenseOf(w)]
          /\ UNCHANGED faults
       \/ Fault("rollback") /\ Raise(w, "rollback")
    /\ UNCHANGED <<dense, sparse, optimized>>

ClearDense(w) ==
    /\ At(w, "clearDense")
    /\ \/ /\ dense' = DeleteChunks(dense, IdsOf(job[w].stale))
          /\ Goto(w, "restoreDense")
          /\ UNCHANGED faults
       \/ /\ Fault("rollback") /\ Raise(w, "rollback")
          /\ dense' \in {dense, DeleteChunks(dense, IdsOf(job[w].stale))}
    /\ UNCHANGED <<sparse, optimized>>

\* Mutant: the dense store is restored until the document has no chunk in it.
RestoreDenseAgain(w) ==
    /\ At(w, "restoreDense")
    /\ dense' = UpsertChunks(dense, job[w].denseSnapshot)
    /\ Goto(w, IF job[w].denseSnapshot = {} THEN "relistSparse" ELSE "listDense")
    /\ UNCHANGED <<sparse, optimized, faults>>

RestoreDense(w) ==
    /\ At(w, "restoreDense")
    /\ \/ /\ dense' = UpsertChunks(dense, job[w].denseSnapshot)
          /\ Goto(w, "relistSparse")
          /\ UNCHANGED faults
       \/ /\ job[w].denseSnapshot # {}
          /\ Fault("rollback") /\ Raise(w, "rollback")
          /\ dense' \in {dense, UpsertChunks(dense, job[w].denseSnapshot)}
    /\ UNCHANGED <<sparse, optimized>>

RelistSparse(w) ==
    /\ At(w, "relistSparse")
    /\ \/ /\ Move(w, IF SparseOf(w) = {} THEN "restoreSparse" ELSE "clearSparse")
          /\ job' = [job EXCEPT ![w].stale = SparseOf(w)]
          /\ UNCHANGED faults
       \/ Fault("rollback") /\ Raise(w, "rollback")
    /\ UNCHANGED <<dense, sparse, optimized>>

ClearSparse(w) ==
    /\ At(w, "clearSparse")
    /\ \/ /\ sparse' = DeleteChunks(sparse, IdsOf(job[w].stale))
          /\ Goto(w, "restoreSparse")
          /\ UNCHANGED faults
       \/ /\ Fault("rollback") /\ Raise(w, "rollback")
          /\ \E done \in SUBSET job[w].stale :
                sparse' = DeleteChunks(sparse, IdsOf(done))
    /\ UNCHANGED <<dense, optimized>>

RestoreSparse(w) ==
    /\ At(w, "restoreSparse")
    /\ \/ /\ sparse' = UpsertChunks(sparse, job[w].sparseSnapshot)
          /\ Goto(w, "raised")
          /\ UNCHANGED faults
       \/ /\ job[w].sparseSnapshot # {}
          /\ Fault("rollback") /\ Raise(w, "rollback")
          /\ \E done \in SUBSET job[w].sparseSnapshot :
                sparse' = UpsertChunks(sparse, done)
    /\ UNCHANGED <<dense, optimized>>

-----------------------------------------------------------------------------
\* The process dies and is started again; nothing of its calls survives.
Crash ==
    /\ \E w \in Writers : ~ At(w, "idle")
    /\ Fault("crash")
    /\ pc' = [w \in Writers |-> "idle"]
    /\ cause' = [w \in Writers |-> "none"]
    /\ alone' = {}
    /\ job' = [w \in Writers |-> NoJob]
    /\ optimized' = SizeConfigured
    /\ UNCHANGED stores

DenseStep(w) ==
    \/ Deduplicate(w) \/ PlanReindex(w) \/ DenseUpsert(w)
    \/ DeleteStale(w) \/ UndoNew(w) \/ UndoStale(w) \/ EnsureOptimized(w)

SparseStep(w) == ListSparse(w) \/ DeleteSparse(w) \/ IndexSparse(w)

RollbackStep(w) ==
    \/ ListDense(w) \/ ClearDense(w) \/ RestoreDense(w)
    \/ RelistSparse(w) \/ ClearSparse(w) \/ RestoreSparse(w)

\* What a running call does next by itself.
Step(w) ==
    \/ NextDocument(w) \/ Return(w) \/ SnapshotDense(w) \/ SnapshotSparse(w)
    \/ DenseStep(w) \/ SparseStep(w) \/ RollbackStep(w)

Next ==
    \/ \E w \in Writers, group \in SUBSET Batches : Begin(w, group)
    \/ \E w \in Writers : Step(w)
    \/ Crash

Spec == Init /\ [][Next]_vars

\* A thread inside index_chunks keeps running: nothing in it waits for another.
FairSpec == Spec /\ \A w \in Writers : WF_vars(Step(w))

-----------------------------------------------------------------------------
(* Properties *)

SingleVersion(chunks) == \A c, e \in chunks : c.ver = e.ver

\* Every variable has its type, and an active writer has a document.
TypeOK ==
    /\ dense \subseteq Chunk
    /\ sparse \subseteq Chunk
    /\ optimized \in BOOLEAN
    /\ pc \in [Writers -> Labels]
    /\ cause \in [Writers -> Sites \cup {"none"}]
    /\ alone \subseteq Writers
    /\ job \in [Writers -> Job]
    /\ \A w \in Writers : job[w].batch = << >> <=> pc[w] \in {"idle", "start"}
    /\ faults \in 0..MaxFaults

\* When the sparse replacement failed, in whatever state it left the sparse
\* index, and the exception reaches the caller with the rollback done, both
\* stores hold for the document exactly what they held when its turn came.
\* Failures while the stores are only read leave them alone as well.
RollbackRestores ==
    \A w \in Writers :
        At(w, "raised") /\ w \in alone /\ cause[w] \in {"sparse", "read"} =>
            /\ DenseOf(w) = job[w].before.dense
            /\ SparseOf(w) = job[w].before.sparse

\* When the cleanup of stale dense chunks fails, the dense store is put back as
\* it was and the sparse store was not touched, provided the document had one
\* version in the dense store.
StaleRollbackRestores ==
    \A w \in Writers :
        /\ At(w, "raised") /\ w \in alone /\ cause[w] = "stale"
        /\ SingleVersion(job[w].before.dense)
        => /\ DenseOf(w) = job[w].before.dense
           /\ SparseOf(w) = job[w].before.sparse

\* Once a document is indexed the sparse index holds its incoming chunks and no
\* other chunk of it, also when an earlier call crashed half way or failed to
\* roll back.
SuccessReplacesSparse ==
    \A w \in Writers : At(w, "indexed") /\ w \in alone => SparseOf(w) = Incoming(w)

\* Once a document is indexed under a version, and any of its chunks survived
\* deduplication, its dense chunks all have that version, also after an earlier
\* call left two versions behind.
SuccessUnifiesDense ==
    \A w \in Writers :
        LET v == BatchVersion(job[w].batch) IN
        At(w, "indexed") /\ w \in alone /\ v # NoVersion /\ job[w].kept # {} =>
            \A c \in DenseOf(w) : c.ver = v

\* Once a document is indexed, each incoming chunk is found by dense search: the
\* store has it, or has a near duplicate of it in the same document.
Covers(chunks, c) ==
    \E e \in chunks : e.id = c.id \/ <<c.vec, e.vec>> \in Near

SuccessCoversIncoming ==
    \A w \in Writers :
        At(w, "indexed") /\ w \in alone =>
            \A c \in Incoming(w) : Covers(DenseOf(w), c)

\* A document that was searchable stays searchable in the dense store until the
\* write is over: the new chunks are there before the old ones are deleted.
DenseNeverEmptied ==
    \A w \in Writers :
        /\ w \in alone /\ cause[w] = "none" /\ job[w].before.dense # {}
        => DenseOf(w) # {}

\* While no writer is at a document, both stores hold the same versions of it: a
\* failing replacement does not leave a mixed-version index behind.
VersionsOf(chunks) == {c.ver : c \in chunks}

IdleVersionsAgree ==
    \A d \in Docs :
        (\A w \in Writers : ~ AtDocument(w, d)) =>
            VersionsOf(ListDocument(dense, d)) = VersionsOf(ListDocument(sparse, d))

\* A call that raises, for whatever reason but a failing rollback, leaves the
\* document as it was in both stores.
FailureRestores ==
    \A w \in Writers :
        At(w, "raised") /\ w \in alone /\ cause[w] # "rollback" =>
            /\ DenseOf(w) = job[w].before.dense
            /\ SparseOf(w) = job[w].before.sparse

\* A step changes the stored chunks of a document only as part of a call that
\* has come to that document, so a failure leaves the documents of the call
\* that are done, and those of other calls, as they are.
ChangesCurrentDocument ==
    \A d \in Docs :
        \/ /\ ListDocument(dense', d) = ListDocument(dense, d)
           /\ ListDocument(sparse', d) = ListDocument(sparse, d)
        \/ \E w \in Writers : AtDocument(w, d) /\ pc[w] \notin {"indexed", "raised"}

OnlyCurrentDocument == [][ChangesCurrentDocument]_vars

\* Every call of index_chunks returns or raises, whatever fails on the way.
EveryCallReturns ==
    \A w \in Writers : At(w, "start") ~> At(w, "idle")

-----------------------------------------------------------------------------
(* The inductive invariant behind the safety properties. *)

\* What a writer keeps in its locals belongs to its document.
Own(w, chunks) == \A c \in chunks : DocOf[c.id] = Doc(w)

OwnLocals ==
    \A w \in Writers :
        job[w].batch # << >> =>
            /\ job[w].kept \subseteq Incoming(w)
            /\ Own(w, job[w].stale)
            /\ Own(w, job[w].denseSnapshot)
            /\ Own(w, job[w].sparseSnapshot)

\* A writer in alone has its document for itself.
AloneApart ==
    \A w \in alone :
        job[w].batch # << >> /\ \A v \in Writers \ {w} : ~ AtDocument(v, Doc(w))

DenseAsBefore == {"snapshotDense", "snapshotSparse", "dedup", "plan", "upsert",
                  "relistSparse", "clearSparse", "restoreSparse"}

SparseAsBefore == {"snapshotDense", "snapshotSparse", "dedup", "plan", "upsert",
                   "deleteStale", "undoNew", "undoStale", "optimize", "listSparse",
                   "deleteSparse"}

\* The writer has its snapshots, and knows what the document held before.
SnapshotsKnown(w) ==
    /\ pc[w] \notin {"snapshotDense", "raised"} => job[w].denseSnapshot = job[w].before.dense
    /\ pc[w] \notin {"snapshotDense", "snapshotSparse", "raised"} =>
           job[w].sparseSnapshot = job[w].before.sparse

\* Up to the first write, and again after the rollback, a store is as before.
StoresAsBefore(w) ==
    /\ pc[w] \in DenseAsBefore => DenseOf(w) = job[w].before.dense
    /\ pc[w] \in SparseAsBefore => SparseOf(w) = job[w].before.sparse
    /\ At(w, "raised") /\ cause[w] \in {"sparse", "read"} =>
           DenseOf(w) = job[w].before.dense /\ SparseOf(w) = job[w].before.sparse

\* A document is cleared completely before its chunks are written again.
ClearedFirst(w) ==
    /\ At(w, "deleteSparse") \/ At(w, "clearSparse") => job[w].stale = SparseOf(w)
    /\ At(w, "indexSparse") \/ At(w, "restoreSparse") => SparseOf(w) = {}
    /\ At(w, "indexed") => SparseOf(w) = Incoming(w)
    /\ At(w, "clearDense") => job[w].stale = DenseOf(w)
    /\ At(w, "restoreDense") => DenseOf(w) = {}

\* The undo of the stale cleanup knows every chunk the document had, when these
\* had one version.
UndoComplete(w) ==
    LET before == job[w].before.dense IN
    /\ At(w, "undoNew") \/ At(w, "undoStale") => cause[w] = "stale"
    /\ SingleVersion(before) =>
           /\ At(w, "upsert") => job[w].stale \in {{}, before}
           /\ At(w, "deleteStale") \/ At(w, "undoNew") =>
                  job[w].stale = before /\ DenseOf(w) \subseteq before \cup job[w].kept
           /\ At(w, "undoStale") => job[w].stale = before /\ DenseOf(w) \subseteq before
           /\ At(w, "raised") /\ cause[w] = "stale" =>
                  DenseOf(w) = before /\ SparseOf(w) = job[w].before.sparse

\* The chunks of other versions are the stale ones until they are deleted.
StaleComplete(w) ==
    LET v == BatchVersion(job[w].batch)
        others == {c \in DenseOf(w) : c.ver # v}
    IN  v # NoVersion =>
            /\ At(w, "upsert") \/ At(w, "deleteStale") => others \subseteq job[w].stale
            /\ /\ pc[w] \in {"optimize", "listSparse", "deleteSparse", "indexSparse", "indexed"}
               /\ job[w].kept # {}
               => others = {}

DocumentInv(w) ==
    /\ SnapshotsKnown(w)
    /\ StoresAsBefore(w)
    /\ ClearedFirst(w)
    /\ UndoComplete(w)
    /\ StaleComplete(w)

WriterInv == OwnLocals /\ AloneApart /\ \A w \in alone : DocumentInv(w)

-----------------------------------------------------------------------------
(* Refinement of AtomicIndex: until the document of a writer is indexed, the *)
(* index still shows what the document held when its turn came.              *)

Uncommitted(w) == job[w].batch # << >> /\ ~ At(w, "indexed")

Committed(store, before) ==
    {c \in store : \A w \in Writers : Uncommitted(w) => Doc(w) # DocOf[c.id]}
        \cup UNION {before[w] : w \in {v \in Writers : Uncommitted(v)}}

CommittedDense == Committed(dense, [w \in Writers |-> job[w].before.dense])
CommittedSparse == Committed(sparse, [w \in Writers |-> job[w].before.sparse])

Atomic == INSTANCE AtomicIndex WITH dense <- CommittedDense, sparse <- CommittedSparse

\* Readers who saw only committed documents could not tell the writer from one
\* that indexes each document in a single step or not at all, when calls fail
\* in the reads, in the stale cleanup and in the sparse replacement.
ImplementsAtomicIndex == Atomic!Spec
=============================================================================
