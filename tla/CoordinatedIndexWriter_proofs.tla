-------------------- MODULE CoordinatedIndexWriter_proofs --------------------
(***************************************************************************)
(* Proofs about CoordinatedIndexWriter for any documents, chunk ids,       *)
(* batches, number of writers, set of failing sites and bound on failures. *)
(***************************************************************************)
EXTENDS CoordinatedIndexWriter, TLAPS

-----------------------------------------------------------------------------
(* Batches and stores. *)

\* A batch is made of chunks of one document, and is not empty.
LEMMA BatchFacts ==
    ASSUME NEW b \in Batches
    PROVE  /\ b # << >>
           /\ BatchChunks(b) \subseteq Chunk
           /\ BatchDoc(b) \in Docs
           /\ \A i \in DOMAIN b : b[i] \in Chunk /\ DocOf[b[i].id] = BatchDoc(b)
<1>1. IsBatch(b)
  BY WriterAssumption
<1>2. b \in Seq(Chunk) /\ b # << >>
  BY <1>1 DEF IsBatch
<1>3. \A i \in DOMAIN b : b[i] \in Chunk
  BY <1>2
<1>4. 1 \in DOMAIN b
  BY <1>2
<1>5. BatchDoc(b) \in Docs
  BY <1>3, <1>4, ChunkAssumption DEF BatchDoc, Chunk
<1>6. \A i \in DOMAIN b : DocOf[b[i].id] = BatchDoc(b)
  BY <1>1 DEF IsBatch, BatchDoc
<1>7. BatchChunks(b) \subseteq Chunk
  BY <1>3 DEF BatchChunks
<1> QED
  BY <1>2, <1>3, <1>5, <1>6, <1>7

\* The storage operations keep stores inside Chunk.
LEMMA StoreTypes ==
    ASSUME NEW store, NEW chunks, store \subseteq Chunk, chunks \subseteq Chunk
    PROVE  /\ UpsertChunks(store, chunks) \subseteq Chunk
           /\ \A ids : DeleteChunks(store, ids) \subseteq Chunk
           /\ \A d : ListDocument(store, d) \subseteq Chunk
           /\ \A v : StaleChunks(store, v) \subseteq Chunk
BY DEF UpsertChunks, DeleteChunks, ListDocument, StaleChunks

-----------------------------------------------------------------------------
(* Type correctness *)

\* The locals of a writer, and its document once it has one.
LEMMA JobFacts ==
    ASSUME TypeOK, NEW w \in Writers
    PROVE  /\ job[w] \in Job
           /\ job[w].waiting \subseteq Batches
           /\ {job[w].kept, job[w].stale, job[w].denseSnapshot, job[w].sparseSnapshot,
               job[w].before.dense, job[w].before.sparse} \subseteq SUBSET Chunk
           /\ job[w].batch # << >> => /\ job[w].batch \in Batches
                                      /\ Incoming(w) \subseteq Chunk
                                      /\ Doc(w) \in Docs
           /\ job[w].batch = << >> <=> pc[w] \in {"idle", "start"}
<1>1. job[w] \in Job
  BY DEF TypeOK
<1>2. job[w].batch # << >> => job[w].batch \in Batches
  BY <1>1 DEF Job
<1> QED
  BY <1>1, <1>2, BatchFacts DEF TypeOK, Job, Incoming, Doc

\* What a writer reads and computes from the stores for its document.
LEMMA HeldFacts ==
    ASSUME TypeOK, NEW w \in Writers
    PROVE  /\ DenseOf(w) \in SUBSET Chunk
           /\ SparseOf(w) \in SUBSET Chunk
           /\ StaleChunks(DenseOf(w), BatchVersion(job[w].batch)) \in SUBSET Chunk
           /\ job[w].batch # << >> =>
                \A K \in SUBSET DOMAIN job[w].batch : {job[w].batch[i] : i \in K} \in SUBSET Chunk
<1>1. DenseOf(w) \in SUBSET Chunk /\ SparseOf(w) \in SUBSET Chunk
  BY StoreTypes DEF TypeOK, DenseOf, SparseOf
<1>2. StaleChunks(DenseOf(w), BatchVersion(job[w].batch)) \in SUBSET Chunk
  BY <1>1, StoreTypes
<1>3. job[w].batch # << >> =>
        \A K \in SUBSET DOMAIN job[w].batch : {job[w].batch[i] : i \in K} \in SUBSET Chunk
  BY JobFacts, BatchFacts
<1> QED
  BY <1>1, <1>2, <1>3

\* Beginning a call, taking its next document and returning keep the types.
LEMMA StartTypes ==
    ASSUME TypeOK, NEW w \in Writers, NEW b \in Batches
    PROVE  NoJob \in Job /\ StartOf(w, b) \in Job
<1>1. job[w].waiting \ {b} \in SUBSET Batches
  BY JobFacts
<1>2. ListDocument(dense, BatchDoc(b)) \in SUBSET Chunk
  BY StoreTypes DEF TypeOK
<1>3. ListDocument(sparse, BatchDoc(b)) \in SUBSET Chunk
  BY StoreTypes DEF TypeOK
<1> QED
  BY <1>1, <1>2, <1>3 DEF Job, StartOf, NoJob

\* The writer at a document goes on with it, and assigns at most one local.
WorksOn(w) ==
    /\ pc[w] \notin {"idle", "start"}
    /\ \E l \in Labels \ {"idle", "start"} : pc' = [pc EXCEPT ![w] = l]
    /\ \/ UNCHANGED cause
       \/ \E s \in Sites : cause' = [cause EXCEPT ![w] = s]
    /\ UNCHANGED alone
    /\ \/ UNCHANGED job
       \/ \E c \in SUBSET Chunk : \/ job' = [job EXCEPT ![w].denseSnapshot = c]
                                  \/ job' = [job EXCEPT ![w].sparseSnapshot = c]
                                  \/ job' = [job EXCEPT ![w].kept = c]
                                  \/ job' = [job EXCEPT ![w].stale = c]
    /\ \/ UNCHANGED faults
       \/ faults < MaxFaults /\ faults' = faults + 1

\* Every step of a writer but the ones that begin and end a call or a document.
DocumentStep(w) ==
    SnapshotDense(w) \/ SnapshotSparse(w) \/ DenseStep(w) \/ SparseStep(w) \/ RollbackStep(w)

\* A step at a document reads and writes only what WorksOn says.
LEMMA DocumentStepWorks ==
    ASSUME TypeOK, NEW w \in Writers, DocumentStep(w)
    PROVE  WorksOn(w)
<1> USE JobFacts, HeldFacts
        DEF WorksOn, Move, Goto, Raise, Handle, Fault, At, Labels, Sites
<1>1. CASE SnapshotDense(w)
  BY <1>1 DEF SnapshotDense
<1>2. CASE SnapshotSparse(w)
  BY <1>2 DEF SnapshotSparse
<1>3. CASE Deduplicate(w)
  BY <1>3 DEF Deduplicate
<1>4. CASE PlanReindex(w)
  BY <1>4 DEF PlanReindex
<1>5. CASE DenseUpsert(w)
  BY <1>5 DEF DenseUpsert
<1>6. CASE DeleteStale(w)
  BY <1>6 DEF DeleteStale
<1>7. CASE UndoNew(w)
  BY <1>7 DEF UndoNew
<1>8. CASE UndoStale(w)
  BY <1>8 DEF UndoStale
<1>9. CASE EnsureOptimized(w)
  BY <1>9 DEF EnsureOptimized
<1>10. CASE ListSparse(w)
  BY <1>10 DEF ListSparse
<1>11. CASE DeleteSparse(w)
  BY <1>11 DEF DeleteSparse
<1>12. CASE IndexSparse(w)
  BY <1>12 DEF IndexSparse
<1>13. CASE ListDense(w)
  BY <1>13 DEF ListDense
<1>14. CASE ClearDense(w)
  BY <1>14 DEF ClearDense
<1>15. CASE RestoreDense(w)
  BY <1>15 DEF RestoreDense
<1>16. CASE RelistSparse(w)
  BY <1>16 DEF RelistSparse
<1>17. CASE ClearSparse(w)
  BY <1>17 DEF ClearSparse
<1>18. CASE RestoreSparse(w)
  BY <1>18 DEF RestoreSparse
<1> QED
  BY <1>1, <1>2, <1>3, <1>4, <1>5, <1>6, <1>7, <1>8, <1>9,
     <1>10, <1>11, <1>12, <1>13, <1>14, <1>15, <1>16, <1>17, <1>18
     DEF DocumentStep, DenseStep, SparseStep, RollbackStep

\* A step at a document keeps the stores inside Chunk.
LEMMA DocumentStepStores ==
    ASSUME TypeOK, NEW w \in Writers, DocumentStep(w)
    PROVE  dense' \subseteq Chunk /\ sparse' \subseteq Chunk /\ optimized' \in BOOLEAN
<1> USE JobFacts, StoreTypes DEF TypeOK, DenseDelete, stores, At
<1>1. CASE SnapshotDense(w)
  BY <1>1 DEF SnapshotDense
<1>2. CASE SnapshotSparse(w)
  BY <1>2 DEF SnapshotSparse
<1>3. CASE Deduplicate(w)
  BY <1>3 DEF Deduplicate
<1>4. CASE PlanReindex(w)
  BY <1>4 DEF PlanReindex
<1>5. CASE DenseUpsert(w)
  BY <1>5 DEF DenseUpsert
<1>6. CASE DeleteStale(w)
  BY <1>6 DEF DeleteStale
<1>7. CASE UndoNew(w)
  BY <1>7 DEF UndoNew
<1>8. CASE UndoStale(w)
  BY <1>8 DEF UndoStale
<1>9. CASE EnsureOptimized(w)
  BY <1>9 DEF EnsureOptimized
<1>10. CASE ListSparse(w)
  BY <1>10 DEF ListSparse
<1>11. CASE DeleteSparse(w)
  BY <1>11 DEF DeleteSparse
<1>12. CASE IndexSparse(w)
  BY <1>12 DEF IndexSparse
<1>13. CASE ListDense(w)
  BY <1>13 DEF ListDense
<1>14. CASE ClearDense(w)
  BY <1>14 DEF ClearDense
<1>15. CASE RestoreDense(w)
  BY <1>15 DEF RestoreDense
<1>16. CASE RelistSparse(w)
  BY <1>16 DEF RelistSparse
<1>17. CASE ClearSparse(w)
  BY <1>17 DEF ClearSparse
<1>18. CASE RestoreSparse(w)
  BY <1>18 DEF RestoreSparse
<1> QED
  BY <1>1, <1>2, <1>3, <1>4, <1>5, <1>6, <1>7, <1>8, <1>9,
     <1>10, <1>11, <1>12, <1>13, <1>14, <1>15, <1>16, <1>17, <1>18
     DEF DocumentStep, DenseStep, SparseStep, RollbackStep

\* What WorksOn allows keeps the types.
LEMMA WorksOnTyped ==
    ASSUME TypeOK, NEW w \in Writers, WorksOn(w),
           dense' \subseteq Chunk, sparse' \subseteq Chunk, optimized' \in BOOLEAN
    PROVE  TypeOK'
<1>1. pc' \in [Writers -> Labels] /\ cause' \in [Writers -> Sites \cup {"none"}]
  BY DEF WorksOn, TypeOK
<1>2. faults' \in 0..MaxFaults
  BY WriterAssumption DEF WorksOn, TypeOK
<1>3. job' \in [Writers -> Job]
  <2>1. job \in [Writers -> Job]
    BY DEF TypeOK
  <2>2. CASE UNCHANGED job
    BY <2>1, <2>2
  <2>3. ASSUME NEW c \in SUBSET Chunk, job' = [job EXCEPT ![w].denseSnapshot = c]
        PROVE  job' \in [Writers -> Job]
    BY <2>1, <2>3 DEF Job
  <2>4. ASSUME NEW c \in SUBSET Chunk, job' = [job EXCEPT ![w].sparseSnapshot = c]
        PROVE  job' \in [Writers -> Job]
    BY <2>1, <2>4 DEF Job
  <2>5. ASSUME NEW c \in SUBSET Chunk, job' = [job EXCEPT ![w].kept = c]
        PROVE  job' \in [Writers -> Job]
    BY <2>1, <2>5 DEF Job
  <2>6. ASSUME NEW c \in SUBSET Chunk, job' = [job EXCEPT ![w].stale = c]
        PROVE  job' \in [Writers -> Job]
    BY <2>1, <2>6 DEF Job
  <2> QED
    BY <2>2, <2>3, <2>4, <2>5, <2>6 DEF WorksOn
<1>4. \A v \in Writers : job'[v].batch = job[v].batch
  BY DEF WorksOn, TypeOK, Job
<1>5. \A v \in Writers : job'[v].batch = << >> <=> pc'[v] \in {"idle", "start"}
  BY <1>4 DEF WorksOn, TypeOK
<1> QED
  BY <1>1, <1>2, <1>3, <1>5 DEF WorksOn, TypeOK

\* The stores and the locals of the writers keep their types, and exactly the
\* writers between two documents have none.
THEOREM TypeCorrect == Spec => []TypeOK
<1>1. Init => TypeOK
  BY WriterAssumption DEF Init, TypeOK, Job, NoJob, Labels
<1>2. TypeOK /\ [Next]_vars => TypeOK'
  <2> SUFFICES ASSUME TypeOK, [Next]_vars
               PROVE  TypeOK'
    OBVIOUS
  <2>1. ASSUME NEW w \in Writers, NEW group \in SUBSET Batches, Begin(w, group)
        PROVE  TypeOK'
    <3>1. job' \in [Writers -> Job]
      BY <2>1, SMTT(30) DEF Begin, TypeOK, Job
    <3>2. \A v \in Writers : job'[v].batch = job[v].batch
      BY <2>1 DEF Begin, TypeOK, Job
    <3> QED
      BY <2>1, <3>1, <3>2 DEF Begin, Move, At, TypeOK, Labels
  <2>2. ASSUME NEW w \in Writers, NextDocument(w)
        PROVE  TypeOK'
    <3>1. PICK b \in Batches : job' = [job EXCEPT ![w] = StartOf(w, b)]
      BY <2>2, JobFacts DEF NextDocument
    <3>2. StartOf(w, b) \in Job /\ StartOf(w, b).batch = b /\ b # << >>
      BY StartTypes, BatchFacts DEF StartOf, NoJob
    <3>3. job' \in [Writers -> Job]
      BY <3>1, <3>2 DEF TypeOK
    <3>4. \A v \in Writers : job'[v].batch = << >> <=> pc'[v] \in {"idle", "start"}
      BY <2>2, <3>1, <3>2 DEF NextDocument, TypeOK
    <3> QED
      BY <2>2, <3>3, <3>4 DEF NextDocument, TypeOK, Labels
  <2>3. ASSUME NEW w \in Writers, Return(w)
        PROVE  TypeOK'
    <3>1. NoJob \in Job /\ NoJob.batch = << >>
      BY DEF NoJob, Job
    <3> QED
      BY <2>3, <3>1 DEF Return, TypeOK, Labels
  <2>4. ASSUME NEW w \in Writers, DocumentStep(w)
        PROVE  TypeOK'
    BY <2>4, DocumentStepWorks, DocumentStepStores, WorksOnTyped
  <2>5. CASE Crash
    <3>1. NoJob \in Job /\ NoJob.batch = << >>
      BY DEF NoJob, Job
    <3> QED
      BY <2>5, <3>1, WriterAssumption DEF Crash, Fault, TypeOK, Labels, stores
  <2>6. CASE UNCHANGED vars
    BY <2>6 DEF vars, TypeOK
  <2> QED
    BY <2>1, <2>2, <2>3, <2>4, <2>5, <2>6 DEF Next, Step, DocumentStep
<1> QED
  BY <1>1, <1>2, PTL DEF Spec

-----------------------------------------------------------------------------
(* What a write does to one document. *)

\* A write of chunks of one document leaves the other documents alone.
LEMMA WriteElsewhere ==
    ASSUME NEW store, NEW chunks, NEW d, \A c \in chunks : DocOf[c.id] # d
    PROVE  /\ ListDocument(UpsertChunks(store, chunks), d) = ListDocument(store, d)
           /\ ListDocument(DeleteChunks(store, IdsOf(chunks)), d) = ListDocument(store, d)
BY DEF ListDocument, UpsertChunks, DeleteChunks, IdsOf

\* A write to a document acts on what the document held.
LEMMA WriteHere ==
    ASSUME NEW store, NEW chunks, NEW d, \A c \in chunks : DocOf[c.id] = d
    PROVE  /\ ListDocument(UpsertChunks(store, chunks), d)
                = UpsertChunks(ListDocument(store, d), chunks)
           /\ ListDocument(DeleteChunks(store, IdsOf(chunks)), d)
                = DeleteChunks(ListDocument(store, d), IdsOf(chunks))
BY DEF ListDocument, UpsertChunks, DeleteChunks, IdsOf

\* Clearing what is there leaves nothing, and writing there leaves what is written.
LEMMA ClearAndWrite ==
    ASSUME NEW chunks, NEW held, held \subseteq chunks
    PROVE  /\ DeleteChunks(held, IdsOf(chunks)) = {}
           /\ UpsertChunks(held, chunks) = chunks
BY DEF UpsertChunks, DeleteChunks, IdsOf

\* What a writer writes or deletes belongs to its document.
LEMMA OwnFacts ==
    ASSUME TypeOK, OwnLocals, NEW w \in Writers, pc[w] \notin {"idle", "start"}
    PROVE  /\ \A c \in job[w].kept : DocOf[c.id] = Doc(w)
           /\ \A c \in job[w].stale : DocOf[c.id] = Doc(w)
           /\ \A c \in job[w].denseSnapshot : DocOf[c.id] = Doc(w)
           /\ \A c \in job[w].sparseSnapshot : DocOf[c.id] = Doc(w)
           /\ \A c \in Incoming(w) : DocOf[c.id] = Doc(w)
           /\ job[w].kept \subseteq Incoming(w)
<1>1. job[w].batch # << >> /\ job[w].batch \in Batches
  BY JobFacts
<1>2. \A c \in Incoming(w) : DocOf[c.id] = Doc(w)
  BY <1>1, BatchFacts DEF Incoming, BatchChunks, Doc
<1> QED
  BY <1>1, <1>2 DEF OwnLocals, Own

\* A step at a document is taken by a writer that has not finished with it.
LEMMA DocumentStepPlace ==
    ASSUME TypeOK, NEW w \in Writers, DocumentStep(w)
    PROVE  AtDocument(w, Doc(w)) /\ pc[w] \notin {"indexed", "raised"}
<1>1. AtDocument(w, Doc(w))
  BY DocumentStepWorks, JobFacts DEF WorksOn, AtDocument
<1>2. pc[w] \notin {"indexed", "raised"}
  BY DEF DocumentStep, DenseStep, SparseStep, RollbackStep, At,
         SnapshotDense, SnapshotSparse, Deduplicate, PlanReindex, DenseUpsert,
         DeleteStale, UndoNew, UndoStale, EnsureOptimized, ListSparse,
         DeleteSparse, IndexSparse, ListDense, ClearDense, RestoreDense,
         RelistSparse, ClearSparse, RestoreSparse
<1> QED
  BY <1>1, <1>2

\* A step at a document changes that document only.
LEMMA DocumentStepLocal ==
    ASSUME TypeOK, OwnLocals, NEW w \in Writers, DocumentStep(w), NEW d, d # Doc(w)
    PROVE  /\ ListDocument(dense', d) = ListDocument(dense, d)
           /\ ListDocument(sparse', d) = ListDocument(sparse, d)
<1>1. pc[w] \notin {"idle", "start"}
  BY DocumentStepWorks DEF WorksOn
<1>2. /\ \A c \in job[w].kept : DocOf[c.id] # d
      /\ \A c \in job[w].stale : DocOf[c.id] # d
      /\ \A c \in job[w].denseSnapshot : DocOf[c.id] # d
      /\ \A c \in job[w].sparseSnapshot : DocOf[c.id] # d
      /\ \A c \in Incoming(w) : DocOf[c.id] # d
  BY <1>1, OwnFacts
<1> USE <1>1, <1>2, WriteElsewhere DEF DenseDelete, stores, At
<1>3. CASE SnapshotDense(w)
  BY <1>3 DEF SnapshotDense
<1>4. CASE SnapshotSparse(w)
  BY <1>4 DEF SnapshotSparse
<1>5. CASE Deduplicate(w)
  BY <1>5 DEF Deduplicate
<1>6. CASE PlanReindex(w)
  BY <1>6 DEF PlanReindex
<1>7. CASE DenseUpsert(w)
  BY <1>7 DEF DenseUpsert
<1>8. CASE DeleteStale(w)
  BY <1>8 DEF DeleteStale
<1>9. CASE UndoNew(w)
  BY <1>9 DEF UndoNew
<1>10. CASE UndoStale(w)
  BY <1>10 DEF UndoStale
<1>11. CASE EnsureOptimized(w)
  BY <1>11 DEF EnsureOptimized
<1>12. CASE ListSparse(w)
  BY <1>12 DEF ListSparse
<1>13. CASE DeleteSparse(w)
  BY <1>13 DEF DeleteSparse
<1>14. CASE IndexSparse(w)
  BY <1>14 DEF IndexSparse
<1>15. CASE ListDense(w)
  BY <1>15 DEF ListDense
<1>16. CASE ClearDense(w)
  BY <1>16 DEF ClearDense
<1>17. CASE RestoreDense(w)
  BY <1>17 DEF RestoreDense
<1>18. CASE RelistSparse(w)
  BY <1>18 DEF RelistSparse
<1>19. CASE ClearSparse(w)
  BY <1>19 DEF ClearSparse
<1>20. CASE RestoreSparse(w)
  BY <1>20 DEF RestoreSparse
<1> QED
  BY <1>3, <1>4, <1>5, <1>6, <1>7, <1>8, <1>9, <1>10, <1>11,
     <1>12, <1>13, <1>14, <1>15, <1>16, <1>17, <1>18, <1>19, <1>20
     DEF DocumentStep, DenseStep, SparseStep, RollbackStep

-----------------------------------------------------------------------------
(* The conjuncts of WriterInv about locals and about writers at one document. *)

\* What the writer at a document assigns to its locals.
LEMMA DocumentStepLocals ==
    ASSUME TypeOK, NEW w \in Writers, DocumentStep(w)
    PROVE  \/ UNCHANGED job
           \/ job' = [job EXCEPT ![w].denseSnapshot = DenseOf(w)]
           \/ job' = [job EXCEPT ![w].sparseSnapshot = SparseOf(w)]
           \/ \E K \in SUBSET DOMAIN job[w].batch :
                 job' = [job EXCEPT ![w].kept = {job[w].batch[i] : i \in K}]
           \/ job' = [job EXCEPT ![w].stale = StaleChunks(DenseOf(w), BatchVersion(job[w].batch))]
           \/ job' = [job EXCEPT ![w].stale = DenseOf(w)]
           \/ job' = [job EXCEPT ![w].stale = SparseOf(w)]
<1> USE DEF Goto, Raise, Handle
<1>1. CASE SnapshotDense(w)
  BY <1>1 DEF SnapshotDense
<1>2. CASE SnapshotSparse(w)
  BY <1>2 DEF SnapshotSparse
<1>3. CASE Deduplicate(w)
  BY <1>3 DEF Deduplicate
<1>4. CASE PlanReindex(w)
  BY <1>4 DEF PlanReindex
<1>5. CASE DenseUpsert(w)
  BY <1>5 DEF DenseUpsert
<1>6. CASE DeleteStale(w)
  BY <1>6 DEF DeleteStale
<1>7. CASE UndoNew(w)
  BY <1>7 DEF UndoNew
<1>8. CASE UndoStale(w)
  BY <1>8 DEF UndoStale
<1>9. CASE EnsureOptimized(w)
  BY <1>9 DEF EnsureOptimized
<1>10. CASE ListSparse(w)
  BY <1>10 DEF ListSparse
<1>11. CASE DeleteSparse(w)
  BY <1>11 DEF DeleteSparse
<1>12. CASE IndexSparse(w)
  BY <1>12 DEF IndexSparse
<1>13. CASE ListDense(w)
  BY <1>13 DEF ListDense
<1>14. CASE ClearDense(w)
  BY <1>14 DEF ClearDense
<1>15. CASE RestoreDense(w)
  BY <1>15 DEF RestoreDense
<1>16. CASE RelistSparse(w)
  BY <1>16 DEF RelistSparse
<1>17. CASE ClearSparse(w)
  BY <1>17 DEF ClearSparse
<1>18. CASE RestoreSparse(w)
  BY <1>18 DEF RestoreSparse
<1> QED
  BY <1>1, <1>2, <1>3, <1>4, <1>5, <1>6, <1>7, <1>8, <1>9,
     <1>10, <1>11, <1>12, <1>13, <1>14, <1>15, <1>16, <1>17, <1>18
     DEF DocumentStep, DenseStep, SparseStep, RollbackStep

\* Every step keeps the locals of a writer inside its document.
LEMMA OwnLocalsStep ==
    ASSUME TypeOK, OwnLocals, [Next]_vars
    PROVE  OwnLocals'
<1>1. ASSUME NEW w \in Writers, NEW group \in SUBSET Batches, Begin(w, group)
      PROVE  OwnLocals'
  <2>1. \A v \in Writers : v # w => job'[v] = job[v]
    BY <1>1 DEF Begin, TypeOK
  <2>2. job'[w].batch = << >>
    BY <1>1, JobFacts DEF Begin, TypeOK, Job, At
  <2> QED
    BY <2>1, <2>2 DEF OwnLocals, Own, Incoming, Doc
<1>2. ASSUME NEW w \in Writers, NextDocument(w)
      PROVE  OwnLocals'
  <2>1. PICK b \in Batches : job' = [job EXCEPT ![w] = StartOf(w, b)]
    BY <1>2, JobFacts DEF NextDocument
  <2>2. \A v \in Writers : v # w => job'[v] = job[v]
    BY <2>1 DEF TypeOK
  <2>3. job'[w].kept = {} /\ job'[w].stale = {}
        /\ job'[w].denseSnapshot = {} /\ job'[w].sparseSnapshot = {}
    BY <2>1 DEF TypeOK, StartOf, NoJob
  <2> QED
    BY <2>2, <2>3 DEF OwnLocals, Own, Incoming, Doc
<1>3. ASSUME NEW w \in Writers, Return(w)
      PROVE  OwnLocals'
  <2>1. \A v \in Writers : v # w => job'[v] = job[v]
    BY <1>3 DEF Return, TypeOK
  <2>2. job'[w].batch = << >>
    BY <1>3 DEF Return, TypeOK, NoJob
  <2> QED
    BY <2>1, <2>2 DEF OwnLocals, Own, Incoming, Doc
<1>4. ASSUME NEW w \in Writers, DocumentStep(w)
      PROVE  OwnLocals'
  <2>1. job[w].batch # << >>
    BY <1>4, DocumentStepWorks, JobFacts DEF WorksOn
  <2>2. Own(w, DenseOf(w)) /\ Own(w, SparseOf(w))
        /\ Own(w, StaleChunks(DenseOf(w), BatchVersion(job[w].batch)))
    BY DEF Own, DenseOf, SparseOf, ListDocument, StaleChunks
  <2>3. \A K \in SUBSET DOMAIN job[w].batch : {job[w].batch[i] : i \in K} \subseteq Incoming(w)
    BY DEF Incoming, BatchChunks
  <2> USE <2>1, <2>2, <2>3 DEF TypeOK, Job, OwnLocals, Own, Incoming, Doc
  <2>4. CASE UNCHANGED job
    BY <2>4
  <2>5. CASE job' = [job EXCEPT ![w].denseSnapshot = DenseOf(w)]
    BY <2>5
  <2>6. CASE job' = [job EXCEPT ![w].sparseSnapshot = SparseOf(w)]
    BY <2>6
  <2>7. CASE \E K \in SUBSET DOMAIN job[w].batch :
                job' = [job EXCEPT ![w].kept = {job[w].batch[i] : i \in K}]
    BY <2>7
  <2>8. CASE job' = [job EXCEPT ![w].stale = StaleChunks(DenseOf(w), BatchVersion(job[w].batch))]
    BY <2>8
  <2>9. CASE job' = [job EXCEPT ![w].stale = DenseOf(w)]
    BY <2>9
  <2>10. CASE job' = [job EXCEPT ![w].stale = SparseOf(w)]
    BY <2>10
  <2> QED
    BY <1>4, <2>4, <2>5, <2>6, <2>7, <2>8, <2>9, <2>10, DocumentStepLocals
<1>5. CASE Crash
  BY <1>5 DEF Crash, OwnLocals, NoJob
<1>6. CASE UNCHANGED vars
  BY <1>6 DEF vars, OwnLocals, Own, Incoming, Doc
<1> QED
  BY <1>1, <1>2, <1>3, <1>4, <1>5, <1>6 DEF Next, Step, DocumentStep

\* Every step keeps a writer that is alone apart from the others: nobody enters
\* its document.
LEMMA AloneApartStep ==
    ASSUME TypeOK, AloneApart, [Next]_vars
    PROVE  AloneApart'
<1>1. ASSUME NEW w \in Writers, NEW group \in SUBSET Batches, Begin(w, group)
      PROVE  AloneApart'
  <2>1. \A v \in Writers : job'[v].batch = job[v].batch
    BY <1>1 DEF Begin, TypeOK, Job
  <2> QED
    BY <1>1, <2>1 DEF Begin, Move, AloneApart, AtDocument, Doc, TypeOK
<1>2. ASSUME NEW w \in Writers, NextDocument(w)
      PROVE  AloneApart'
  <2> DEFINE others(b) == {v \in Writers \ {w} : AtDocument(v, BatchDoc(b))}
  <2>1. PICK b \in Batches :
          /\ job' = [job EXCEPT ![w] = StartOf(w, b)]
          /\ alone' = IF others(b) = {} THEN alone \cup {w} ELSE alone \ (others(b) \cup {w})
    BY <1>2, JobFacts DEF NextDocument
  <2>2. \A v \in Writers : v # w => job'[v] = job[v]
    BY <2>1 DEF TypeOK
  <2>3. job'[w].batch = b /\ b # << >>
    BY <2>1, BatchFacts DEF TypeOK, StartOf, NoJob
  <2>4. ASSUME NEW u \in alone'
        PROVE  job'[u].batch # << >> /\ \A v \in Writers \ {u} : ~ AtDocument(v, Doc(u))'
    <3>1. CASE u = w
      BY <2>1, <2>2, <2>3, <3>1 DEF AtDocument, Doc
    <3>2. CASE u # w
      <4>1. u \in alone /\ u \notin others(b)
        BY <2>1, <3>2
      <4>2. job[u].batch # << >> /\ BatchDoc(b) # Doc(u)
        BY <3>2, <4>1 DEF AloneApart, AtDocument, TypeOK
      <4> QED
        BY <2>2, <2>3, <3>2, <4>1, <4>2 DEF AloneApart, AtDocument, Doc, TypeOK
    <3> QED
      BY <3>1, <3>2
  <2> QED
    BY <2>4 DEF AloneApart
<1>3. ASSUME NEW w \in Writers, Return(w)
      PROVE  AloneApart'
  BY <1>3 DEF Return, NoJob, AloneApart, AtDocument, Doc, TypeOK
<1>4. ASSUME NEW w \in Writers, DocumentStep(w)
      PROVE  AloneApart'
  <2>1. WorksOn(w)
    BY <1>4, DocumentStepWorks
  <2>2. \A v \in Writers : job'[v].batch = job[v].batch
    BY <2>1 DEF WorksOn, TypeOK, Job
  <2> QED
    BY <2>1, <2>2 DEF WorksOn, AloneApart, AtDocument, Doc, TypeOK
<1>5. CASE Crash
  BY <1>5 DEF Crash, AloneApart
<1>6. CASE UNCHANGED vars
  BY <1>6 DEF vars, AloneApart, AtDocument, Doc
<1> QED
  BY <1>1, <1>2, <1>3, <1>4, <1>5, <1>6 DEF Next, Step, DocumentStep

-----------------------------------------------------------------------------
(* The conjuncts of WriterInv about a writer that has its document for itself. *)

\* Of one version, all chunks are stale or none; the stale ones are those of other
\* versions.
LEMMA StaleFacts ==
    ASSUME NEW held, NEW v
    PROVE  /\ SingleVersion(held) => StaleChunks(held, v) \in {{}, held}
           /\ v # NoVersion => StaleChunks(held, v) = {c \in held : c.ver # v}
BY DEF SingleVersion, StaleChunks

\* The chunks of a batch carry the version of the batch.
LEMMA IncomingVersion ==
    ASSUME TypeOK, NEW w \in Writers, job[w].batch # << >>
    PROVE  \A c \in Incoming(w) : c.ver = BatchVersion(job[w].batch)
<1>1. IsBatch(job[w].batch)
  BY JobFacts, WriterAssumption, SMTT(30)
<1> QED
  BY <1>1 DEF IsBatch, Incoming, BatchChunks, BatchVersion

\* A step of a writer at its document keeps what the invariant says about it.
LEMMA DocumentInvStep ==
    ASSUME TypeOK, OwnLocals, NEW w \in alone, DocumentInv(w), DocumentStep(w)
    PROVE  DocumentInv(w)'
<1>1. w \in Writers /\ pc[w] \notin {"idle", "start"}
  BY DocumentStepWorks DEF TypeOK, WorksOn
<1>2. job'[w].batch = job[w].batch /\ job'[w].before = job[w].before
  BY <1>1, DocumentStepWorks DEF WorksOn, TypeOK, Job
<1>3. /\ DenseOf(w)' = ListDocument(dense', Doc(w))
      /\ SparseOf(w)' = ListDocument(sparse', Doc(w))
      /\ Incoming(w)' = Incoming(w)
  BY <1>2 DEF DenseOf, SparseOf, Incoming, Doc
<1> USE <1>1, <1>2, <1>3, OwnFacts, WriteHere, ClearAndWrite
    DEF DocumentInv, SnapshotsKnown, StoresAsBefore, ClearedFirst, UndoComplete, StaleComplete,
        Move, Goto, Raise, Handle, At, DenseAsBefore, SparseAsBefore, DenseOf, SparseOf, TypeOK, Job, stores
<1>4. CASE SnapshotDense(w)
  BY <1>4 DEF SnapshotDense
<1>5. CASE SnapshotSparse(w)
  BY <1>5 DEF SnapshotSparse
<1>6. CASE Deduplicate(w)
  BY <1>6 DEF Deduplicate
<1>7. CASE PlanReindex(w)
  <2>1. SnapshotsKnown(w)'
    BY <1>7 DEF PlanReindex
  <2>2. StoresAsBefore(w)'
    BY <1>7 DEF PlanReindex
  <2>3. ClearedFirst(w)'
    BY <1>7 DEF PlanReindex
  <2>4. UndoComplete(w)'
    <3>1. UNCHANGED dense /\ pc'[w] \in {"upsert", "raised"}
      BY <1>7 DEF PlanReindex
    <3>2. pc'[w] = "upsert" =>
            job'[w].stale = StaleChunks(job[w].before.dense, BatchVersion(job[w].batch))
      BY <1>7 DEF PlanReindex
    <3>3. pc'[w] = "raised" => cause'[w] = "read"
      BY <1>7 DEF PlanReindex
    <3> QED
      BY <3>1, <3>2, <3>3, StaleFacts
  <2>5. StaleComplete(w)'
    <3>1. UNCHANGED dense /\ pc'[w] \in {"upsert", "raised"}
      BY <1>7 DEF PlanReindex
    <3>2. pc'[w] = "upsert" =>
            job'[w].stale = StaleChunks(DenseOf(w), BatchVersion(job[w].batch))
      BY <1>7 DEF PlanReindex
    <3> QED
      BY <3>1, <3>2, StaleFacts
  <2> QED
    BY <2>1, <2>2, <2>3, <2>4, <2>5
<1>8. CASE DenseUpsert(w)
  <2>1. SnapshotsKnown(w)'
    BY <1>8 DEF DenseUpsert
  <2>2. StoresAsBefore(w)'
    BY <1>8 DEF DenseUpsert
  <2>3. ClearedFirst(w)'
    BY <1>8 DEF DenseUpsert
  <2>4. UndoComplete(w)'
    <3>1. UNCHANGED job /\ pc'[w] \in {"optimize", "deleteStale", "raised"}
      BY <1>8 DEF DenseUpsert
    <3>2. pc'[w] = "deleteStale" =>
            job[w].stale # {} /\ DenseOf(w)' = UpsertChunks(DenseOf(w), job[w].kept)
      BY <1>8 DEF DenseUpsert
    <3>3. UpsertChunks(DenseOf(w), job[w].kept) \subseteq job[w].before.dense \cup job[w].kept
      BY <1>8 DEF DenseUpsert, UpsertChunks, DeleteChunks
    <3>4. pc'[w] = "raised" => cause'[w] = "dense"
      BY <1>8 DEF DenseUpsert
    <3>5. SingleVersion(job[w].before.dense) => job[w].stale \in {{}, job[w].before.dense}
      BY <1>8 DEF DenseUpsert
    <3> QED
      BY <3>1, <3>2, <3>3, <3>4, <3>5
  <2>5. StaleComplete(w)'
    <3> DEFINE v == BatchVersion(job[w].batch)
    <3>1. UNCHANGED job /\ pc'[w] \in {"optimize", "deleteStale", "raised"}
      BY <1>8 DEF DenseUpsert
    <3>2. pc'[w] # "raised" => DenseOf(w)' = UpsertChunks(DenseOf(w), job[w].kept)
      BY <1>8 DEF DenseUpsert
    <3>3. pc'[w] = "optimize" => job[w].stale = {}
      BY <1>8 DEF DenseUpsert
    <3>4. \A c \in job[w].kept : c.ver = v
      BY IncomingVersion, JobFacts
    <3>5. {c \in UpsertChunks(DenseOf(w), job[w].kept) : c.ver # v}
            \subseteq {c \in DenseOf(w) : c.ver # v}
      BY <3>4 DEF UpsertChunks, DeleteChunks
    <3>6. v # NoVersion => {c \in DenseOf(w) : c.ver # v} \subseteq job[w].stale
      BY <1>8 DEF DenseUpsert
    <3> QED
      BY <3>1, <3>2, <3>3, <3>5, <3>6
  <2> QED
    BY <2>1, <2>2, <2>3, <2>4, <2>5
<1>9. CASE DeleteStale(w)
  <2>1. SnapshotsKnown(w)'
    BY <1>9 DEF DeleteStale
  <2>2. StoresAsBefore(w)'
    BY <1>9 DEF DeleteStale
  <2>3. ClearedFirst(w)'
    BY <1>9 DEF DeleteStale
  <2>4. UndoComplete(w)'
    <3>1. /\ UNCHANGED job /\ pc'[w] \in {"optimize", "undoNew"}
          /\ pc'[w] = "undoNew" => cause'[w] = "stale"
      BY <1>9 DEF DeleteStale
    <3>2. DenseOf(w)' \subseteq DenseOf(w)
      BY <1>9 DEF DeleteStale, DenseDelete, DeleteChunks, ListDocument
    <3>3. SingleVersion(job[w].before.dense) =>
            /\ job[w].stale = job[w].before.dense
            /\ DenseOf(w) \subseteq job[w].before.dense \cup job[w].kept
      BY <1>9 DEF DeleteStale
    <3> QED
      BY <3>1, <3>2, <3>3
  <2>5. StaleComplete(w)'
    <3> DEFINE v == BatchVersion(job[w].batch)
    <3>1. UNCHANGED job /\ pc'[w] \in {"optimize", "undoNew"}
      BY <1>9 DEF DeleteStale
    <3>2. pc'[w] = "optimize" => DenseOf(w)' = DeleteChunks(DenseOf(w), IdsOf(job[w].stale))
      BY <1>9 DEF DeleteStale, DenseDelete
    <3>3. v # NoVersion => {c \in DenseOf(w) : c.ver # v} \subseteq job[w].stale
      BY <1>9 DEF DeleteStale
    <3>4. v # NoVersion =>
            {c \in DeleteChunks(DenseOf(w), IdsOf(job[w].stale)) : c.ver # v} = {}
      BY <3>3 DEF DeleteChunks, IdsOf
    <3> QED
      BY <3>1, <3>2, <3>4
  <2> QED
    BY <2>1, <2>2, <2>3, <2>4, <2>5
<1>10. CASE UndoNew(w)
  <2>1. SnapshotsKnown(w)'
    BY <1>10 DEF UndoNew
  <2>2. StoresAsBefore(w)'
    BY <1>10 DEF UndoNew
  <2>3. ClearedFirst(w)'
    BY <1>10 DEF UndoNew
  <2>4. UndoComplete(w)'
    <3>1. /\ UNCHANGED job /\ pc'[w] \in {"undoStale", "raised"}
          /\ pc'[w] = "undoStale" => cause'[w] = "stale"
          /\ pc'[w] = "raised" => cause'[w] = "rollback"
      BY <1>10 DEF UndoNew
    <3>2. pc'[w] = "undoStale" => DenseOf(w)' = DeleteChunks(DenseOf(w), IdsOf(job[w].kept))
      BY <1>10 DEF UndoNew, DenseDelete
    <3>3. SingleVersion(job[w].before.dense) =>
            /\ job[w].stale = job[w].before.dense
            /\ DenseOf(w) \subseteq job[w].before.dense \cup job[w].kept
      BY <1>10 DEF UndoNew
    <3>4. SingleVersion(job[w].before.dense) =>
            DeleteChunks(DenseOf(w), IdsOf(job[w].kept)) \subseteq job[w].before.dense
      BY <3>3 DEF DeleteChunks, IdsOf
    <3> QED
      BY <3>1, <3>2, <3>3, <3>4
  <2>5. StaleComplete(w)'
    BY <1>10 DEF UndoNew
  <2> QED
    BY <2>1, <2>2, <2>3, <2>4, <2>5
<1>11. CASE UndoStale(w)
  <2>1. SnapshotsKnown(w)'
    BY <1>11 DEF UndoStale
  <2>2. StoresAsBefore(w)'
    BY <1>11 DEF UndoStale
  <2>3. ClearedFirst(w)'
    BY <1>11 DEF UndoStale
  <2>4. UndoComplete(w)'
    <3>1. /\ UNCHANGED <<job, sparse>> /\ pc'[w] = "raised"
          /\ cause'[w] \in {"stale", "rollback"}
      BY <1>11 DEF UndoStale
    <3>2. cause'[w] = "stale" => DenseOf(w)' = UpsertChunks(DenseOf(w), job[w].stale)
      BY <1>11 DEF UndoStale
    <3>3. SparseOf(w)' = job[w].before.sparse
      BY <1>11 DEF UndoStale
    <3>4. SingleVersion(job[w].before.dense) =>
            job[w].stale = job[w].before.dense /\ DenseOf(w) \subseteq job[w].stale
      BY <1>11 DEF UndoStale
    <3> QED
      BY <3>1, <3>2, <3>3, <3>4
  <2>5. StaleComplete(w)'
    BY <1>11 DEF UndoStale
  <2> QED
    BY <2>1, <2>2, <2>3, <2>4, <2>5
<1>12. CASE EnsureOptimized(w)
  <2>1. SnapshotsKnown(w)'
    BY <1>12 DEF EnsureOptimized
  <2>2. StoresAsBefore(w)'
    BY <1>12 DEF EnsureOptimized
  <2>3. ClearedFirst(w)'
    BY <1>12 DEF EnsureOptimized
  <2>4. UndoComplete(w)'
    BY <1>12 DEF EnsureOptimized
  <2>5. StaleComplete(w)'
    BY <1>12 DEF EnsureOptimized
  <2> QED
    BY <2>1, <2>2, <2>3, <2>4, <2>5
<1>13. CASE ListSparse(w)
  BY <1>13, SMTT(30) DEF ListSparse
<1>14. CASE DeleteSparse(w)
  BY <1>14 DEF DeleteSparse
<1>15. CASE IndexSparse(w)
  BY <1>15 DEF IndexSparse
<1>16. CASE ListDense(w)
  BY <1>16 DEF ListDense
<1>17. CASE ClearDense(w)
  BY <1>17, SMTT(30) DEF ClearDense
<1>18. CASE RestoreDense(w)
  BY <1>18, SMTT(30) DEF RestoreDense
<1>19. CASE RelistSparse(w)
  BY <1>19 DEF RelistSparse
<1>20. CASE ClearSparse(w)
  BY <1>20 DEF ClearSparse
<1>21. CASE RestoreSparse(w)
  BY <1>21, SMTT(30) DEF RestoreSparse
<1> QED
  BY <1>4, <1>5, <1>6, <1>7, <1>8, <1>9, <1>10, <1>11, <1>12,
     <1>13, <1>14, <1>15, <1>16, <1>17, <1>18, <1>19, <1>20, <1>21
     DEF DocumentStep, DenseStep, SparseStep, RollbackStep

\* A writer that keeps its locals and sees its document unchanged keeps its facts.
LEMMA DocumentInvFrame ==
    ASSUME TypeOK, NEW w \in Writers, DocumentInv(w),
           job'[w] = job[w], pc'[w] = pc[w], cause'[w] = cause[w],
           ListDocument(dense', Doc(w)) = DenseOf(w),
           ListDocument(sparse', Doc(w)) = SparseOf(w)
    PROVE  DocumentInv(w)'
<1>1. Doc(w)' = Doc(w) /\ Incoming(w)' = Incoming(w)
  BY DEF Doc, Incoming
<1>2. DenseOf(w)' = DenseOf(w) /\ SparseOf(w)' = SparseOf(w)
  BY <1>1 DEF DenseOf, SparseOf
<1> QED
  BY <1>1, <1>2 DEF DocumentInv, SnapshotsKnown, StoresAsBefore, ClearedFirst, UndoComplete,
                    StaleComplete, At

\* The invariant is inductive.
LEMMA WriterInvStep ==
    ASSUME TypeOK, WriterInv, [Next]_vars
    PROVE  WriterInv'
<1>1. OwnLocals' /\ AloneApart'
  BY OwnLocalsStep, AloneApartStep DEF WriterInv
<1>2. ASSUME NEW w \in Writers, NEW group \in SUBSET Batches, Begin(w, group),
             NEW u \in alone'
      PROVE  DocumentInv(u)'
  <2>1. u \in alone /\ u \in Writers /\ u # w
    BY <1>2, JobFacts DEF Begin, Move, At, WriterInv, AloneApart, TypeOK
  <2>2. job'[u] = job[u] /\ pc'[u] = pc[u] /\ cause'[u] = cause[u]
    BY <1>2, <2>1 DEF Begin, Move, TypeOK
  <2> QED
    BY <1>2, <2>1, <2>2, DocumentInvFrame DEF Begin, WriterInv, DenseOf, SparseOf
<1>3. ASSUME NEW w \in Writers, NextDocument(w), NEW u \in alone'
      PROVE  DocumentInv(u)'
  <2>1. PICK b \in Batches : job' = [job EXCEPT ![w] = StartOf(w, b)]
    BY <1>3, JobFacts DEF NextDocument
  <2>2. CASE u = w
    <3>1. /\ job'[w].batch = b
          /\ job'[w].before = [dense |-> ListDocument(dense, BatchDoc(b)),
                               sparse |-> ListDocument(sparse, BatchDoc(b))]
      BY <1>3, <2>1 DEF TypeOK, StartOf, NoJob
    <3>2. DenseOf(w)' = job'[w].before.dense /\ SparseOf(w)' = job'[w].before.sparse
      BY <1>3, <3>1 DEF NextDocument, DenseOf, SparseOf, Doc
    <3>3. pc'[w] = "snapshotDense"
      BY <1>3 DEF NextDocument, TypeOK
    <3> QED
      BY <2>2, <3>2, <3>3 DEF DocumentInv, SnapshotsKnown, StoresAsBefore, ClearedFirst,
                              UndoComplete, StaleComplete, At
  <2>3. CASE u # w
    <3>1. u \in alone /\ u \in Writers
      BY <1>3, <2>3 DEF NextDocument, TypeOK
    <3>2. job'[u] = job[u] /\ pc'[u] = pc[u] /\ cause'[u] = cause[u]
      BY <1>3, <2>1, <2>3, <3>1 DEF NextDocument, TypeOK
    <3> QED
      BY <1>3, <3>1, <3>2, DocumentInvFrame DEF NextDocument, WriterInv, DenseOf, SparseOf
  <2> QED
    BY <2>2, <2>3
<1>4. ASSUME NEW w \in Writers, Return(w), NEW u \in alone'
      PROVE  DocumentInv(u)'
  <2>1. u \in alone /\ u \in Writers /\ u # w
    BY <1>4 DEF Return, TypeOK
  <2>2. job'[u] = job[u] /\ pc'[u] = pc[u] /\ cause'[u] = cause[u]
    BY <1>4, <2>1 DEF Return, TypeOK
  <2> QED
    BY <1>4, <2>1, <2>2, DocumentInvFrame DEF Return, WriterInv, DenseOf, SparseOf
<1>5. ASSUME NEW w \in Writers, DocumentStep(w), NEW u \in alone'
      PROVE  DocumentInv(u)'
  <2>1. WorksOn(w) /\ u \in alone /\ u \in Writers
    BY <1>5, DocumentStepWorks DEF WorksOn, TypeOK
  <2>2. CASE u = w
    BY <1>5, <2>1, <2>2, DocumentInvStep DEF WriterInv
  <2>3. CASE u # w
    <3>1. job'[u] = job[u] /\ pc'[u] = pc[u] /\ cause'[u] = cause[u]
      BY <2>1, <2>3 DEF WorksOn, TypeOK
    <3>2. Doc(u) # Doc(w)
      BY <2>1, <2>3, JobFacts DEF WorksOn, WriterInv, AloneApart, AtDocument
    <3>3. /\ ListDocument(dense', Doc(u)) = DenseOf(u)
          /\ ListDocument(sparse', Doc(u)) = SparseOf(u)
      BY <1>5, <3>2, DocumentStepLocal DEF WriterInv, DenseOf, SparseOf
    <3> QED
      BY <2>1, <3>1, <3>3, DocumentInvFrame DEF WriterInv
  <2> QED
    BY <2>2, <2>3
<1>6. CASE Crash
  BY <1>1, <1>6 DEF Crash, WriterInv
<1>7. CASE UNCHANGED vars
  <2>1. ASSUME NEW u \in alone'
        PROVE  DocumentInv(u)'
    BY <1>7, <2>1, DocumentInvFrame DEF vars, WriterInv, TypeOK, DenseOf, SparseOf
  <2> QED
    BY <1>1, <2>1 DEF WriterInv
<1> QED
  BY <1>1, <1>2, <1>3, <1>4, <1>5, <1>6, <1>7 DEF WriterInv, Next, Step, DocumentStep

-----------------------------------------------------------------------------
(* Theorems *)

\* The inductive invariant holds.
THEOREM WriterInvariant == Spec => []WriterInv
<1>1. Init => WriterInv
  BY DEF Init, WriterInv, OwnLocals, AloneApart, NoJob
<1>2. TypeOK /\ WriterInv /\ [Next]_vars => WriterInv'
  BY WriterInvStep
<1> QED
  BY <1>1, <1>2, TypeCorrect, PTL DEF Spec

\* The compensation of _index_document: a failed sparse replacement, and a failed
\* read, leave both stores as they were for the document.
THEOREM RollbackCorrect == Spec => []RollbackRestores
<1>1. TypeOK /\ WriterInv => RollbackRestores
  BY DEF RollbackRestores, WriterInv, DocumentInv, StoresAsBefore
<1> QED
  BY <1>1, TypeCorrect, WriterInvariant, PTL

\* The compensation of QdrantStore.upsert_chunks, for a document of one version.
THEOREM StaleRollbackCorrect == Spec => []StaleRollbackRestores
<1>1. TypeOK /\ WriterInv => StaleRollbackRestores
  BY DEF StaleRollbackRestores, WriterInv, DocumentInv, UndoComplete
<1> QED
  BY <1>1, TypeCorrect, WriterInvariant, PTL

\* Whatever earlier calls left in the sparse index is replaced by the batch.
THEOREM ReplacementCorrect == Spec => []SuccessReplacesSparse
<1>1. TypeOK /\ WriterInv => SuccessReplacesSparse
  BY DEF SuccessReplacesSparse, WriterInv, DocumentInv, ClearedFirst
<1> QED
  BY <1>1, TypeCorrect, WriterInvariant, PTL

\* Whatever earlier calls left in the dense store, one version remains.
THEOREM VersionCorrect == Spec => []SuccessUnifiesDense
<1>1. TypeOK /\ WriterInv => SuccessUnifiesDense
  BY DEF SuccessUnifiesDense, WriterInv, DocumentInv, StaleComplete, At
<1> QED
  BY <1>1, TypeCorrect, WriterInvariant, PTL

\* Documents other than the one a writer is at are never touched.
THEOREM ChangesLocal == Spec => OnlyCurrentDocument
<1>1. TypeOK /\ WriterInv /\ [Next]_vars => [ChangesCurrentDocument]_vars
  <2> SUFFICES ASSUME TypeOK, WriterInv, Next
               PROVE  ChangesCurrentDocument
    OBVIOUS
  <2>1. ASSUME NEW w \in Writers, DocumentStep(w)
        PROVE  ChangesCurrentDocument
    BY <2>1, DocumentStepLocal, DocumentStepPlace DEF ChangesCurrentDocument, WriterInv
  <2>2. CASE UNCHANGED stores
    BY <2>2 DEF stores, ChangesCurrentDocument
  <2> QED
    BY <2>1, <2>2 DEF Next, Step, DocumentStep, Begin, NextDocument, Return, Crash, stores
<1> QED
  BY <1>1, TypeCorrect, WriterInvariant, PTL DEF Spec, OnlyCurrentDocument

-----------------------------------------------------------------------------
(***************************************************************************)
(* CoordinatedIndexWriter implements AtomicIndex, for any documents, chunk *)
(* ids, batches, number of writers and number of failures, when calls do   *)
(* not overlap on a document and fail where the code can undo what it did. *)
(***************************************************************************)

-----------------------------------------------------------------------------
(* When the writer keeps its promise *)

\* A document has a version in each of its batches or in none.
ConsistentVersions ==
    \A a, b \in Batches :
        BatchDoc(a) = BatchDoc(b) /\ BatchVersion(a) = NoVersion => BatchVersion(b) = NoVersion

\* The dense upsert and the optimisation do not fail, as they are outside the
\* try; a rollback does not fail, and the process does not die.
Refinable ==
    /\ Serialised /\ ~CountsDeletes
    /\ FaultSites \subseteq {"read", "stale", "sparse"}
    /\ ConsistentVersions

-----------------------------------------------------------------------------
(* The invariant *)

\* What a document may hold in the dense store: chunks of one version, and only
\* chunks without one when its batches have none.
Uniform(d, chunks) ==
    /\ SingleVersion(chunks)
    /\ \A b \in Batches : BatchDoc(b) = d /\ BatchVersion(b) = NoVersion =>
            \A c \in chunks : c.ver = NoVersion

\* The chunks of b that survive deduplication against what is held.
Survivors(b, held, kept) ==
    \E K \in SUBSET DOMAIN b : IsKept(b, held, K) /\ kept = {b[i] : i \in K}

\* What a document that held held has in the dense store after kept is written.
ResultOf(held, b, kept) ==
    IF kept = {} THEN held
    ELSE DeleteChunks(UpsertChunks(held, kept), IdsOf(StaleChunks(held, BatchVersion(b))))

DenseDone == {"optimize", "listSparse", "deleteSparse", "indexSparse", "indexed"}

RollsBack == {"listDense", "clearDense", "restoreDense",
              "relistSparse", "clearSparse", "restoreSparse"}

\* How far the dense store of a document has come.
Progress(w) ==
    LET b == job[w].batch
        held == job[w].before.dense
    IN  /\ pc[w] \in {"plan", "upsert", "deleteStale"} \cup DenseDone =>
                Survivors(b, held, job[w].kept)
        /\ pc[w] \in {"plan", "upsert", "deleteStale"} => job[w].kept # {}
        /\ pc[w] \in {"upsert", "deleteStale"} =>
                job[w].stale = StaleChunks(held, BatchVersion(b))
        /\ At(w, "deleteStale") => DenseOf(w) = UpsertChunks(held, job[w].kept)
        /\ pc[w] \in DenseDone => DenseOf(w) = ResultOf(held, b, job[w].kept)

\* What a document held before is its own.
BeforeOK(w) ==
    /\ Own(w, job[w].before.dense) /\ Own(w, job[w].before.sparse)
    /\ Uniform(Doc(w), job[w].before.dense)

CauseOK(w) ==
    /\ pc[w] \in {"undoNew", "undoStale"} => cause[w] = "stale"
    /\ pc[w] \in RollsBack => cause[w] = "sparse"
    /\ At(w, "raised") => cause[w] \in {"read", "stale", "sparse"}

WriterOK(w) == Progress(w) /\ BeforeOK(w) /\ CauseOK(w)

\* Calls do not overlap on a document.
ClaimsApart == \A w, v \in Writers : w # v => Claimed(w) \cap Claimed(v) = {}

AllAlone == \A w \in Writers : job[w].batch # << >> => w \in alone

IdleUniform ==
    \A d \in Docs :
        (\A w \in Writers : Uncommitted(w) => Doc(w) # d) => Uniform(d, ListDocument(dense, d))

RefinementInv ==
    /\ ClaimsApart
    /\ AllAlone
    /\ \A w \in Writers : job[w].batch # << >> => WriterOK(w)
    /\ IdleUniform

-----------------------------------------------------------------------------
(* A writer at its document *)

\* What deduplication keeps is part of the batch.
LEMMA SurvivorsFacts ==
    ASSUME NEW b, NEW held, NEW kept, Survivors(b, held, kept)
    PROVE  kept \subseteq BatchChunks(b)
BY DEF Survivors, BatchChunks

\* A result keeps a document uniform.
LEMMA ResultUniform ==
    ASSUME ConsistentVersions, NEW b \in Batches, NEW held, NEW kept \in SUBSET BatchChunks(b),
           Uniform(BatchDoc(b), held)
    PROVE  Uniform(BatchDoc(b), ResultOf(held, b, kept))
<1> DEFINE v == BatchVersion(b)
<1>1. \A c \in kept : c.ver = v
  <2>1. IsBatch(b)
    BY WriterAssumption
  <2> QED
    BY <2>1 DEF IsBatch, BatchChunks, BatchVersion
<1>2. CASE kept = {}
  BY <1>2 DEF ResultOf
<1>3. CASE kept # {} /\ v = NoVersion
  <2>1. \A c \in held : c.ver = NoVersion
    BY <1>3 DEF Uniform
  <2>2. ResultOf(held, b, kept) \subseteq held \cup kept
    BY <1>3 DEF ResultOf, DeleteChunks, UpsertChunks
  <2> QED
    BY <1>1, <1>3, <2>1, <2>2 DEF Uniform, SingleVersion
<1>4. CASE kept # {} /\ v # NoVersion
  <2>1. \A c \in held : c.ver # v => c.id \in IdsOf(StaleChunks(held, v))
    BY <1>4 DEF StaleChunks, IdsOf
  <2>2. \A c \in ResultOf(held, b, kept) : c.ver = v
    BY <1>1, <1>4, <2>1 DEF ResultOf, DeleteChunks, UpsertChunks
  <2>3. \A a \in Batches : BatchDoc(a) = BatchDoc(b) => BatchVersion(a) # NoVersion
    BY <1>4 DEF ConsistentVersions
  <2> QED
    BY <2>2, <2>3 DEF Uniform, SingleVersion
<1> QED
  BY <1>2, <1>3, <1>4

\* A step at a document goes on as planned, wherever calls may fail.
LEMMA ProgressStep ==
    ASSUME TypeOK, OwnLocals, NEW w \in Writers, DocumentInv(w), Progress(w), DocumentStep(w)
    PROVE  Progress(w)'
<1>1. pc[w] \notin {"idle", "start"}
  BY DocumentStepWorks DEF WorksOn
<1>2. job'[w].batch = job[w].batch /\ job'[w].before = job[w].before
  BY <1>1, DocumentStepWorks DEF WorksOn, TypeOK, Job
<1>3. DenseOf(w)' = ListDocument(dense', Doc(w)) /\ Doc(w)' = Doc(w)
  BY <1>2 DEF DenseOf, Doc
<1>4. pc[w] \in DenseAsBefore => DenseOf(w) = job[w].before.dense
  BY DEF DocumentInv, StoresAsBefore
<1> DEFINE b == job[w].batch
           held == job[w].before.dense
           stale == StaleChunks(held, BatchVersion(b))
<1>5. ASSUME NEW K \in SUBSET DOMAIN b
      PROVE  {b[i] : i \in K} = {} <=> K = {}
  <2>1. \A i \in K : b[i] \in {b[j] : j \in K}
    OBVIOUS
  <2>2. K = {} => {b[i] : i \in K} = {}
    OBVIOUS
  <2> QED
    BY <2>1, <2>2
<1>6. Progress(w)'
  <2> USE <1>1, <1>2, <1>3, <1>4
      DEF Progress, Move, Goto, Raise, Handle, Fault, At, DenseDone, DenseAsBefore,
          DenseOf, TypeOK, Job, stores
  <2>1. CASE SnapshotDense(w)
    BY <2>1 DEF SnapshotDense
  <2>2. CASE SnapshotSparse(w)
    BY <2>2 DEF SnapshotSparse
  <2>3. CASE Deduplicate(w)
    <3>1. ASSUME Raise(w, "read"), UNCHANGED dense
          PROVE  Progress(w)'
      BY <3>1
    <3>2. ASSUME NEW K \in SUBSET DOMAIN b, IsKept(b, DenseOf(w), K), At(w, "dedup"),
                 Move(w, IF K = {} THEN "optimize" ELSE "plan"),
                 job' = [job EXCEPT ![w].kept = {b[i] : i \in K}], UNCHANGED dense
          PROVE  Progress(w)'
      <4> DEFINE kept == {b[i] : i \in K}
      <4>1. job'[w].kept = kept /\ DenseOf(w)' = held /\ DenseOf(w) = held
        BY <3>2
      <4>2. Survivors(b, held, kept)
        BY <3>2, <4>1 DEF Survivors
      <4>3. pc'[w] \in {"plan", "optimize"} /\ (pc'[w] = "optimize" <=> kept = {})
        <5>1. kept = {} <=> K = {}
          BY <1>5
        <5>2. pc'[w] = IF K = {} THEN "optimize" ELSE "plan"
          BY <3>2
        <5> QED
          BY <5>1, <5>2
      <4>4. kept = {} => ResultOf(held, b, kept) = held
        BY DEF ResultOf
      <4> QED
        BY <4>1, <4>2, <4>3, <4>4
    <3> QED
      BY <2>3, <3>1, <3>2 DEF Deduplicate
  <2>4. CASE PlanReindex(w)
    BY <2>4 DEF PlanReindex
  <2>5. CASE DenseUpsert(w)
    <3>1. UNCHANGED job /\ pc'[w] \in {"optimize", "deleteStale", "raised"}
      BY <2>5 DEF DenseUpsert
    <3>2. pc'[w] # "raised" => /\ pc'[w] = "optimize" <=> job[w].stale = {}
                              /\ dense' = UpsertChunks(dense, job[w].kept)
      BY <2>5 DEF DenseUpsert
    <3>3. /\ Survivors(b, held, job[w].kept) /\ job[w].kept # {}
          /\ job[w].stale = stale /\ DenseOf(w) = held
      BY <2>5 DEF DenseUpsert
    <3>4. pc'[w] # "raised" => DenseOf(w)' = UpsertChunks(held, job[w].kept)
      BY <3>2, <3>3, OwnFacts, WriteHere
    <3>5. stale = {} => ResultOf(held, b, job[w].kept) = UpsertChunks(held, job[w].kept)
      BY <3>3 DEF ResultOf, DeleteChunks, IdsOf
    <3> QED
      BY <3>1, <3>2, <3>3, <3>4, <3>5
  <2>6. CASE DeleteStale(w)
    <3>1. UNCHANGED job /\ pc'[w] \in {"optimize", "undoNew"}
      BY <2>6 DEF DeleteStale
    <3>2. pc'[w] = "optimize" => dense' = DeleteChunks(dense, IdsOf(job[w].stale))
      BY <2>6 DEF DeleteStale, DenseDelete
    <3>3. /\ Survivors(b, held, job[w].kept) /\ job[w].kept # {}
          /\ job[w].stale = stale /\ DenseOf(w) = UpsertChunks(held, job[w].kept)
      BY <2>6 DEF DeleteStale
    <3>4. pc'[w] = "optimize" => DenseOf(w)' = ResultOf(held, b, job[w].kept)
      BY <3>2, <3>3, OwnFacts, WriteHere DEF ResultOf
    <3> QED
      BY <3>1, <3>2, <3>3, <3>4
  <2>7. CASE UndoNew(w)
    BY <2>7 DEF UndoNew, DenseDelete
  <2>8. CASE UndoStale(w)
    BY <2>8 DEF UndoStale
  <2>9. CASE EnsureOptimized(w)
    BY <2>9 DEF EnsureOptimized
  <2>10. CASE ListSparse(w)
    BY <2>10 DEF ListSparse
  <2>11. CASE DeleteSparse(w)
    BY <2>11 DEF DeleteSparse
  <2>12. CASE IndexSparse(w)
    BY <2>12 DEF IndexSparse
  <2>13. CASE ListDense(w)
    BY <2>13 DEF ListDense
  <2>14. CASE ClearDense(w)
    BY <2>14 DEF ClearDense
  <2>15. CASE RestoreDense(w)
    BY <2>15 DEF RestoreDense
  <2>16. CASE RelistSparse(w)
    BY <2>16 DEF RelistSparse
  <2>17. CASE ClearSparse(w)
    BY <2>17 DEF ClearSparse
  <2>18. CASE RestoreSparse(w)
    BY <2>18 DEF RestoreSparse
  <2> QED
    BY <2>1, <2>2, <2>3, <2>4, <2>5, <2>6, <2>7, <2>8, <2>9,
       <2>10, <2>11, <2>12, <2>13, <2>14, <2>15, <2>16, <2>17, <2>18
       DEF DocumentStep, DenseStep, SparseStep, RollbackStep
<1> QED
  BY <1>6

\* A step at a document goes on as planned and fails only where it can be undone.
LEMMA WriterOKStep ==
    ASSUME Refinable, TypeOK, OwnLocals, NEW w \in Writers, DocumentInv(w), WriterOK(w),
           DocumentStep(w)
    PROVE  WriterOK(w)'
<1>1. WorksOn(w)
  BY DocumentStepWorks
<1>2. job'[w].batch = job[w].batch /\ job'[w].before = job[w].before
  BY <1>1 DEF WorksOn, TypeOK, Job
<1>3. BeforeOK(w)'
  BY <1>2 DEF WriterOK, BeforeOK, Own, Doc
<1>4. /\ ~CountsDeletes
      /\ "dense" \notin FaultSites /\ "optimize" \notin FaultSites /\ "rollback" \notin FaultSites
  BY DEF Refinable
<1>5. CauseOK(w)'
  <2> USE <1>4
      DEF WriterOK, CauseOK, Move, Goto, Raise, Handle, Fault, At, RollsBack, TypeOK, stores
  <2>1. CASE SnapshotDense(w)
    BY <2>1 DEF SnapshotDense
  <2>2. CASE SnapshotSparse(w)
    BY <2>2 DEF SnapshotSparse
  <2>3. CASE Deduplicate(w)
    BY <2>3 DEF Deduplicate
  <2>4. CASE PlanReindex(w)
    BY <2>4 DEF PlanReindex
  <2>5. CASE DenseUpsert(w)
    BY <2>5 DEF DenseUpsert
  <2>6. CASE DeleteStale(w)
    BY <2>6 DEF DeleteStale, DenseDelete
  <2>7. CASE UndoNew(w)
    BY <2>7 DEF UndoNew, DenseDelete
  <2>8. CASE UndoStale(w)
    BY <2>8 DEF UndoStale
  <2>9. CASE EnsureOptimized(w)
    BY <2>9 DEF EnsureOptimized
  <2>10. CASE ListSparse(w)
    BY <2>10 DEF ListSparse
  <2>11. CASE DeleteSparse(w)
    BY <2>11 DEF DeleteSparse
  <2>12. CASE IndexSparse(w)
    BY <2>12 DEF IndexSparse
  <2>13. CASE ListDense(w)
    BY <2>13 DEF ListDense
  <2>14. CASE ClearDense(w)
    BY <2>14 DEF ClearDense
  <2>15. CASE RestoreDense(w)
    BY <2>15 DEF RestoreDense
  <2>16. CASE RelistSparse(w)
    BY <2>16 DEF RelistSparse
  <2>17. CASE ClearSparse(w)
    BY <2>17 DEF ClearSparse
  <2>18. CASE RestoreSparse(w)
    BY <2>18 DEF RestoreSparse
  <2> QED
    BY <2>1, <2>2, <2>3, <2>4, <2>5, <2>6, <2>7, <2>8, <2>9,
       <2>10, <2>11, <2>12, <2>13, <2>14, <2>15, <2>16, <2>17, <2>18
       DEF DocumentStep, DenseStep, SparseStep, RollbackStep
<1> QED
  BY <1>3, <1>5, ProgressStep DEF WriterOK

\* A writer that keeps its locals and sees its document unchanged keeps its facts.
LEMMA WriterOKFrame ==
    ASSUME NEW w \in Writers, WriterOK(w),
           job'[w] = job[w], pc'[w] = pc[w], cause'[w] = cause[w],
           ListDocument(dense', Doc(w)) = DenseOf(w)
    PROVE  WriterOK(w)'
<1>1. Doc(w)' = Doc(w)
  BY DEF Doc
<1>2. DenseOf(w)' = DenseOf(w)
  BY <1>1 DEF DenseOf
<1> QED
  BY <1>1, <1>2 DEF WriterOK, Progress, BeforeOK, Own, CauseOK, At

\* A failed call leaves its document as it found it.
LEMMA RaisedRestored ==
    ASSUME NEW w \in Writers, DocumentInv(w), WriterOK(w), At(w, "raised")
    PROVE  DenseOf(w) = job[w].before.dense /\ SparseOf(w) = job[w].before.sparse
<1>1. SingleVersion(job[w].before.dense)
  BY DEF WriterOK, BeforeOK, Uniform
<1>2. cause[w] \in {"read", "stale", "sparse"}
  BY DEF WriterOK, CauseOK
<1> QED
  BY <1>1, <1>2 DEF DocumentInv, StoresAsBefore, UndoComplete

-----------------------------------------------------------------------------
(* Calls that do not overlap *)

\* A writer that has a batch claims its document, and those that wait.
LEMMA ClaimFacts ==
    ASSUME TypeOK, NEW w \in Writers
    PROVE  /\ job[w].batch # << >> => Doc(w) \in Claimed(w)
           /\ \A b \in job[w].waiting : BatchDoc(b) \in Claimed(w)
BY JobFacts, BatchFacts DEF Claimed, AtDocument

\* Only a beginning call claims documents, and none that are claimed.
LEMMA ClaimsApartStep ==
    ASSUME Serialised, TypeOK, ClaimsApart, Next
    PROVE  ClaimsApart'
<1>1. ASSUME NEW w \in Writers, NEW group \in SUBSET Batches, Begin(w, group)
      PROVE  ClaimsApart'
  <2>1. \A v \in Writers \ {w} : job'[v] = job[v]
    BY <1>1 DEF Begin, TypeOK
  <2>2. job'[w].batch = << >> /\ job'[w].waiting = group
    BY <1>1, JobFacts DEF Begin, TypeOK, Job, At
  <2>3. \A v \in Writers \ {w} : Claimed(v)' = Claimed(v)
    BY <2>1 DEF Claimed, AtDocument, Doc
  <2>4. Claimed(w)' = {d \in Docs : \E b \in group : BatchDoc(b) = d}
    BY <2>2 DEF Claimed, AtDocument
  <2>5. \A v \in Writers \ {w} : Claimed(w)' \cap Claimed(v) = {}
    BY <1>1, <2>4 DEF Begin
  <2> QED
    BY <2>3, <2>5 DEF ClaimsApart
<1>2. ASSUME NEW w \in Writers, \A v \in Writers \ {w} : job'[v] = job[v],
             Claimed(w)' \subseteq Claimed(w)
      PROVE  ClaimsApart'
  <2>1. \A v \in Writers \ {w} : Claimed(v)' = Claimed(v)
    BY <1>2 DEF Claimed, AtDocument, Doc
  <2> QED
    BY <1>2, <2>1 DEF ClaimsApart
<1>3. ASSUME NEW w \in Writers, NextDocument(w)
      PROVE  ClaimsApart'
  <2>1. PICK b \in job[w].waiting : job' = [job EXCEPT ![w] = StartOf(w, b)]
    BY <1>3 DEF NextDocument
  <2>2. job'[w].batch = b /\ job'[w].waiting = job[w].waiting \ {b}
    BY <2>1 DEF TypeOK, StartOf, NoJob
  <2>3. Claimed(w)' \subseteq Claimed(w)
    BY <2>1, <2>2 DEF Claimed, AtDocument, Doc
  <2> QED
    BY <1>2, <2>1, <2>3 DEF TypeOK
<1>4. ASSUME NEW w \in Writers, Return(w)
      PROVE  ClaimsApart'
  <2>1. job'[w] = NoJob
    BY <1>4 DEF Return, TypeOK
  <2>2. Claimed(w)' = {}
    BY <2>1 DEF Claimed, AtDocument, NoJob
  <2> QED
    BY <1>2, <1>4, <2>2 DEF Return, TypeOK
<1>5. ASSUME NEW w \in Writers, DocumentStep(w)
      PROVE  ClaimsApart'
  <2>1. job'[w].batch = job[w].batch /\ job'[w].waiting = job[w].waiting
        /\ \A v \in Writers \ {w} : job'[v] = job[v]
    BY <1>5, DocumentStepWorks DEF WorksOn, TypeOK, Job
  <2>2. Claimed(w)' = Claimed(w)
    BY <2>1 DEF Claimed, AtDocument, Doc
  <2> QED
    BY <1>2, <2>1, <2>2
<1>6. CASE Crash
  <2>1. \A v \in Writers : Claimed(v)' = {}
    BY <1>6 DEF Crash, Claimed, AtDocument, NoJob
  <2> QED
    BY <2>1 DEF ClaimsApart
<1> QED
  BY <1>1, <1>3, <1>4, <1>5, <1>6 DEF Next, Step, DocumentStep

\* Nobody is at the document a writer turns to.
LEMMA NobodyThere ==
    ASSUME TypeOK, ClaimsApart, NEW w \in Writers, NEW b \in job[w].waiting,
           NEW v \in Writers \ {w}
    PROVE  ~ AtDocument(v, BatchDoc(b))
BY ClaimFacts DEF ClaimsApart, AtDocument

\* Every writer with a document has it for itself.
LEMMA AllAloneStep ==
    ASSUME TypeOK, ClaimsApart, AllAlone, Next
    PROVE  AllAlone'
<1>1. ASSUME NEW w \in Writers, NEW group \in SUBSET Batches, Begin(w, group)
      PROVE  AllAlone'
  BY <1>1 DEF Begin, Move, AllAlone, TypeOK, Job
<1>2. ASSUME NEW w \in Writers, NextDocument(w)
      PROVE  AllAlone'
  <2> DEFINE others(b) == {v \in Writers \ {w} : AtDocument(v, BatchDoc(b))}
  <2>1. PICK b \in job[w].waiting :
          /\ job' = [job EXCEPT ![w] = StartOf(w, b)]
          /\ alone' = IF others(b) = {} THEN alone \cup {w} ELSE alone \ (others(b) \cup {w})
    BY <1>2 DEF NextDocument
  <2>2. others(b) = {}
    BY NobodyThere
  <2>3. alone' = alone \cup {w} /\ \A v \in Writers \ {w} : job'[v] = job[v]
    BY <2>1, <2>2 DEF TypeOK
  <2> QED
    BY <2>3 DEF AllAlone
<1>3. ASSUME NEW w \in Writers, Return(w)
      PROVE  AllAlone'
  BY <1>3 DEF Return, AllAlone, NoJob, TypeOK
<1>4. ASSUME NEW w \in Writers, DocumentStep(w)
      PROVE  AllAlone'
  <2>1. UNCHANGED alone /\ \A v \in Writers : job'[v].batch = job[v].batch
    BY <1>4, DocumentStepWorks DEF WorksOn, TypeOK, Job
  <2> QED
    BY <2>1 DEF AllAlone
<1>5. CASE Crash
  BY <1>5 DEF Crash, AllAlone, NoJob
<1> QED
  BY <1>1, <1>2, <1>3, <1>4, <1>5 DEF Next, Step, DocumentStep

-----------------------------------------------------------------------------
(* Documents nobody writes *)

\* What a writer that goes on with its document changes of the others.
LEMMA OthersAtRest ==
    ASSUME TypeOK, AllAlone, WriterInv, NEW w \in Writers, DocumentStep(w),
           NEW u \in Writers \ {w}
    PROVE  /\ job'[u] = job[u] /\ pc'[u] = pc[u] /\ cause'[u] = cause[u]
           /\ job[u].batch # << >> => /\ ListDocument(dense', Doc(u)) = DenseOf(u)
                                      /\ ListDocument(sparse', Doc(u)) = SparseOf(u)
<1>1. WorksOn(w)
  BY DocumentStepWorks
<1>2. job'[u] = job[u] /\ pc'[u] = pc[u] /\ cause'[u] = cause[u]
  BY <1>1 DEF WorksOn, TypeOK
<1>3. job[u].batch # << >> => Doc(u) # Doc(w)
  <2>1. AtDocument(w, Doc(w))
    BY DocumentStepPlace
  <2> QED
    BY <2>1 DEF AllAlone, WriterInv, AloneApart
<1>4. job[u].batch # << >> => /\ ListDocument(dense', Doc(u)) = DenseOf(u)
                             /\ ListDocument(sparse', Doc(u)) = SparseOf(u)
  BY <1>3, DocumentStepLocal DEF WriterInv, DenseOf, SparseOf
<1> QED
  BY <1>2, <1>4

\* Every writer stays as it should be.
LEMMA WritersOKStep ==
    ASSUME Refinable, TypeOK, WriterInv, RefinementInv, Next,
           NEW u \in Writers, job'[u].batch # << >>
    PROVE  WriterOK(u)'
<1>1. ASSUME NEW w \in Writers, NEW group \in SUBSET Batches, Begin(w, group)
      PROVE  WriterOK(u)'
  <2>1. u # w /\ job'[u] = job[u] /\ pc'[u] = pc[u] /\ cause'[u] = cause[u] /\ UNCHANGED dense
    BY <1>1, JobFacts DEF Begin, Move, At, TypeOK, Job
  <2> QED
    BY <2>1, WriterOKFrame DEF RefinementInv, DenseOf
<1>2. ASSUME NEW w \in Writers, NextDocument(w)
      PROVE  WriterOK(u)'
  <2>1. PICK b \in job[w].waiting : job' = [job EXCEPT ![w] = StartOf(w, b)]
    BY <1>2 DEF NextDocument
  <2>2. UNCHANGED <<dense, cause>> /\ pc' = [pc EXCEPT ![w] = "snapshotDense"]
    BY <1>2 DEF NextDocument
  <2>3. CASE u # w
    <3>1. job'[u] = job[u] /\ pc'[u] = pc[u] /\ cause'[u] = cause[u]
      BY <2>1, <2>2, <2>3 DEF TypeOK
    <3> QED
      BY <2>2, <3>1, WriterOKFrame DEF RefinementInv, DenseOf
  <2>4. CASE u = w
    <3> DEFINE d == BatchDoc(b)
    <3>1. /\ Doc(w)' = d /\ pc'[w] = "snapshotDense" /\ d \in Docs
          /\ job'[w].before = [dense |-> ListDocument(dense, d), sparse |-> ListDocument(sparse, d)]
      BY <2>1, <2>2, JobFacts, BatchFacts DEF TypeOK, StartOf, NoJob, Doc
    <3>2. \A v \in Writers : Uncommitted(v) => Doc(v) # d
      <4>1. ~ Uncommitted(w)
        BY <1>2, JobFacts DEF NextDocument, Uncommitted, At
      <4> QED
        BY <4>1, NobodyThere DEF RefinementInv, Uncommitted, AtDocument
    <3>3. Uniform(d, ListDocument(dense, d))
      BY <3>1, <3>2 DEF RefinementInv, IdleUniform
    <3>4. BeforeOK(w)'
      BY <3>1, <3>3 DEF BeforeOK, Own, ListDocument
    <3>5. Progress(w)' /\ CauseOK(w)'
      BY <3>1 DEF Progress, CauseOK, DenseDone, RollsBack, At
    <3> QED
      BY <2>4, <3>4, <3>5 DEF WriterOK
  <2> QED
    BY <2>3, <2>4
<1>3. ASSUME NEW w \in Writers, Return(w)
      PROVE  WriterOK(u)'
  <2>1. u # w /\ job'[u] = job[u] /\ pc'[u] = pc[u] /\ cause'[u] = cause[u] /\ UNCHANGED dense
    BY <1>3 DEF Return, NoJob, TypeOK
  <2> QED
    BY <2>1, WriterOKFrame DEF RefinementInv, DenseOf
<1>4. ASSUME NEW w \in Writers, DocumentStep(w)
      PROVE  WriterOK(u)'
  <2>1. CASE u # w
    BY <1>4, <2>1, OthersAtRest, WriterOKFrame DEF RefinementInv
  <2>2. CASE u = w
    <3>1. job[w].batch # << >>
      BY <1>4, DocumentStepPlace DEF AtDocument
    <3>2. w \in alone
      BY <3>1 DEF RefinementInv, AllAlone
    <3> QED
      BY <1>4, <2>2, <3>1, <3>2, WriterOKStep DEF RefinementInv, WriterInv
  <2> QED
    BY <2>1, <2>2
<1>5. CASE Crash
  BY <1>5 DEF Crash, NoJob
<1> QED
  BY <1>1, <1>2, <1>3, <1>4, <1>5 DEF Next, Step, DocumentStep

\* Documents that nobody writes stay uniform.
LEMMA IdleUniformStep ==
    ASSUME Refinable, TypeOK, WriterInv, RefinementInv, Next,
           \A w \in Writers : job'[w].batch # << >> => WriterOK(w)'
    PROVE  IdleUniform'
<1> SUFFICES ASSUME NEW d \in Docs, \A w \in Writers : Uncommitted(w)' => Doc(w)' # d
             PROVE  Uniform(d, ListDocument(dense', d))
  BY DEF IdleUniform, Uniform
<1>1. ASSUME ListDocument(dense', d) = ListDocument(dense, d),
             \A w \in Writers : Uncommitted(w) /\ Doc(w) = d => Uncommitted(w)' /\ Doc(w)' = d
      PROVE  Uniform(d, ListDocument(dense', d))
  BY <1>1 DEF RefinementInv, IdleUniform
<1>2. ASSUME NEW w \in Writers, NEW group \in SUBSET Batches, Begin(w, group)
      PROVE  Uniform(d, ListDocument(dense', d))
  <2>1. UNCHANGED dense /\ \A v \in Writers \ {w} : job'[v] = job[v] /\ pc'[v] = pc[v]
    BY <1>2 DEF Begin, Move, TypeOK
  <2>2. ~ Uncommitted(w)
    BY <1>2, JobFacts DEF Begin, Uncommitted, At
  <2> QED
    BY <1>1, <2>1, <2>2 DEF Uncommitted, At, Doc
<1>3. ASSUME NEW w \in Writers, NextDocument(w)
      PROVE  Uniform(d, ListDocument(dense', d))
  <2>1. PICK b \in job[w].waiting : job' = [job EXCEPT ![w] = StartOf(w, b)]
    BY <1>3 DEF NextDocument
  <2>2. UNCHANGED dense /\ \A v \in Writers \ {w} : job'[v] = job[v] /\ pc'[v] = pc[v]
    BY <1>3, <2>1 DEF NextDocument, TypeOK
  <2>3. ~ Uncommitted(w)
    BY <1>3, JobFacts DEF NextDocument, Uncommitted, At
  <2> QED
    BY <1>1, <2>2, <2>3 DEF Uncommitted, At, Doc
<1>4. ASSUME NEW w \in Writers, Return(w)
      PROVE  Uniform(d, ListDocument(dense', d))
  <2>1. UNCHANGED dense /\ \A v \in Writers \ {w} : job'[v] = job[v] /\ pc'[v] = pc[v]
    BY <1>4 DEF Return, TypeOK
  <2>2. CASE Uncommitted(w) /\ Doc(w) = d
    <3>1. At(w, "raised") /\ w \in alone /\ WriterOK(w)
      BY <1>4, <2>2 DEF Return, Uncommitted, At, RefinementInv, AllAlone
    <3>2. DenseOf(w) = job[w].before.dense
      BY <3>1, RaisedRestored DEF WriterInv
    <3> QED
      BY <2>1, <2>2, <3>1, <3>2 DEF WriterOK, BeforeOK, DenseOf
  <2>3. CASE ~ (Uncommitted(w) /\ Doc(w) = d)
    BY <1>1, <2>1, <2>3 DEF Uncommitted, At, Doc
  <2> QED
    BY <2>2, <2>3
<1>5. ASSUME NEW w \in Writers, DocumentStep(w)
      PROVE  Uniform(d, ListDocument(dense', d))
  <2>1. \A v \in Writers \ {w} : job'[v] = job[v] /\ pc'[v] = pc[v]
    BY <1>5, OthersAtRest DEF RefinementInv
  <2>2. /\ job[w].batch # << >> /\ job[w].batch \in Batches
        /\ job'[w].batch = job[w].batch /\ job'[w].before = job[w].before
        /\ Doc(w)' = Doc(w)
    BY <1>5, DocumentStepWorks, DocumentStepPlace, JobFacts DEF WorksOn, AtDocument, TypeOK, Job, Doc
  <2>3. CASE Doc(w) # d
    <3>1. ListDocument(dense', d) = ListDocument(dense, d)
      BY <1>5, <2>3, DocumentStepLocal DEF WriterInv
    <3> QED
      BY <1>1, <2>1, <2>3, <3>1 DEF Uncommitted, At, Doc
  <2>4. CASE Doc(w) = d
    <3>1. pc'[w] = "indexed"
      BY <2>2, <2>4 DEF Uncommitted, At
    <3>2. WriterOK(w)'
      BY <2>2
    <3>3. /\ ListDocument(dense', d) = ResultOf(job[w].before.dense, job[w].batch, job'[w].kept)
          /\ Survivors(job[w].batch, job[w].before.dense, job'[w].kept)
          /\ Uniform(d, job[w].before.dense)
      BY <2>2, <2>4, <3>1, <3>2 DEF WriterOK, Progress, BeforeOK, DenseDone, DenseOf
    <3>4. job'[w].kept \subseteq BatchChunks(job[w].batch)
      BY <3>3, SurvivorsFacts
    <3> QED
      BY <2>2, <2>4, <3>3, <3>4, ResultUniform DEF Refinable, Doc
  <2> QED
    BY <2>3, <2>4
<1>6. CASE Crash
  BY <1>6 DEF Crash, Fault, Refinable
<1> QED
  BY <1>2, <1>3, <1>4, <1>5, <1>6 DEF Next, Step, DocumentStep

\* The invariant is inductive.
LEMMA RefinementInvStep ==
    ASSUME Refinable, TypeOK, WriterInv, RefinementInv, [Next]_vars
    PROVE  RefinementInv'
<1>1. CASE Next
  <2>1. ClaimsApart' /\ AllAlone'
    BY <1>1, ClaimsApartStep, AllAloneStep DEF RefinementInv, Refinable
  <2>2. \A w \in Writers : job'[w].batch # << >> => WriterOK(w)'
    BY <1>1, WritersOKStep
  <2>3. IdleUniform'
    BY <1>1, <2>2, IdleUniformStep
  <2> QED
    BY <2>1, <2>2, <2>3 DEF RefinementInv
<1>2. CASE UNCHANGED vars
  <2>1. \A w \in Writers : /\ Doc(w)' = Doc(w) /\ DenseOf(w)' = DenseOf(w)
                           /\ Claimed(w)' = Claimed(w) /\ Uncommitted(w)' = Uncommitted(w)
    BY <1>2 DEF vars, Doc, DenseOf, Claimed, AtDocument, Uncommitted, At
  <2>2. \A w \in Writers : WriterOK(w) => WriterOK(w)'
    BY <1>2, WriterOKFrame DEF vars, DenseOf
  <2>3. ClaimsApart' /\ AllAlone'
    BY <1>2, <2>1 DEF vars, RefinementInv, ClaimsApart, AllAlone
  <2>4. IdleUniform'
    BY <1>2, <2>1 DEF vars, RefinementInv, IdleUniform
  <2> QED
    BY <1>2, <2>2, <2>3, <2>4 DEF vars, RefinementInv
<1> QED
  BY <1>1, <1>2

\* The invariant holds in every state of the writers, whatever the batches and
\* however many calls run and fail.
THEOREM RefinementInvariant ==
    ASSUME Refinable
    PROVE  Spec => []RefinementInv
<1>1. Init => RefinementInv
  <2> SUFFICES ASSUME Init
               PROVE  RefinementInv
    OBVIOUS
  <2>1. \A w \in Writers : job[w] = NoJob
    BY DEF Init
  <2>2. ClaimsApart
    BY <2>1 DEF ClaimsApart, Claimed, AtDocument, NoJob
  <2>3. AllAlone /\ \A w \in Writers : job[w].batch # << >> => WriterOK(w)
    BY <2>1 DEF AllAlone, NoJob
  <2>4. \A d : ListDocument(dense, d) = {}
    BY DEF Init, ListDocument
  <2>5. IdleUniform
    BY <2>4 DEF IdleUniform, Uniform, SingleVersion
  <2> QED
    BY <2>2, <2>3, <2>5 DEF RefinementInv
<1>2. TypeOK /\ WriterInv /\ RefinementInv /\ [Next]_vars => RefinementInv'
  BY RefinementInvStep
<1> QED
  BY <1>1, <1>2, TypeCorrect, WriterInvariant, PTL DEF Spec

-----------------------------------------------------------------------------
(* What the index shows *)

Unwritten(d) == \A w \in Writers : Uncommitted(w) => Doc(w) # d

\* A document nobody writes shows what the stores hold, and any other what it
\* held when its turn came.
ShowsCommitted ==
    /\ \A d : Unwritten(d) =>
            /\ ListDocument(CommittedDense, d) = ListDocument(dense, d)
            /\ ListDocument(CommittedSparse, d) = ListDocument(sparse, d)
    /\ \A w \in Writers : Uncommitted(w) =>
            /\ ListDocument(CommittedDense, Doc(w)) = job[w].before.dense
            /\ ListDocument(CommittedSparse, Doc(w)) = job[w].before.sparse

\* A store mapped to its committed part shows, per document, one of the two.
LEMMA CommittedShows ==
    ASSUME NEW store, NEW before,
           \A w \in Writers : Uncommitted(w) => \A c \in before[w] : DocOf[c.id] = Doc(w),
           \A w, v \in Writers :
               w # v /\ Uncommitted(w) /\ Uncommitted(v) => Doc(w) # Doc(v)
    PROVE  /\ \A d : Unwritten(d) =>
                   ListDocument(Committed(store, before), d) = ListDocument(store, d)
           /\ \A w \in Writers : Uncommitted(w) =>
                   ListDocument(Committed(store, before), Doc(w)) = before[w]
<1>1. ASSUME NEW d, Unwritten(d)
      PROVE  ListDocument(Committed(store, before), d) = ListDocument(store, d)
  <2>1. ASSUME NEW c
        PROVE  c \in ListDocument(Committed(store, before), d) <=> c \in ListDocument(store, d)
    BY <1>1 DEF ListDocument, Committed, Unwritten
  <2> QED
    BY <2>1
<1>2. ASSUME NEW w \in Writers, Uncommitted(w)
      PROVE  ListDocument(Committed(store, before), Doc(w)) = before[w]
  <2>1. ASSUME NEW c
        PROVE  c \in ListDocument(Committed(store, before), Doc(w)) <=> c \in before[w]
    <3>1. c \in Committed(store, before) /\ DocOf[c.id] = Doc(w) => c \in before[w]
      BY <1>2 DEF Committed
    <3>2. c \in before[w] => c \in Committed(store, before) /\ DocOf[c.id] = Doc(w)
      BY <1>2 DEF Committed
    <3> QED
      BY <3>1, <3>2 DEF ListDocument
  <2> QED
    BY <2>1
<1> QED
  BY <1>1, <1>2

\* Writers that do not overlap let the index show committed documents.
LEMMA ViewCommitted == TypeOK /\ RefinementInv => ShowsCommitted
<1> SUFFICES ASSUME TypeOK, RefinementInv
             PROVE  ShowsCommitted
  OBVIOUS
<1>1. \A w, v \in Writers : w # v /\ Uncommitted(w) /\ Uncommitted(v) => Doc(w) # Doc(v)
  BY ClaimFacts DEF RefinementInv, ClaimsApart, Uncommitted
<1>2. \A w \in Writers : Uncommitted(w) =>
          /\ \A c \in job[w].before.dense : DocOf[c.id] = Doc(w)
          /\ \A c \in job[w].before.sparse : DocOf[c.id] = Doc(w)
  BY DEF RefinementInv, WriterOK, BeforeOK, Own, Uncommitted
<1> DEFINE heldDense == [w \in Writers |-> job[w].before.dense]
           heldSparse == [w \in Writers |-> job[w].before.sparse]
<1>3. /\ \A w \in Writers : heldDense[w] = job[w].before.dense
      /\ \A w \in Writers : heldSparse[w] = job[w].before.sparse
  OBVIOUS
<1>4. /\ \A d : Unwritten(d) =>
              ListDocument(Committed(dense, heldDense), d) = ListDocument(dense, d)
      /\ \A w \in Writers : Uncommitted(w) =>
              ListDocument(Committed(dense, heldDense), Doc(w)) = heldDense[w]
  <2> HIDE DEF heldDense
  <2> QED
    BY <1>1, <1>2, <1>3, CommittedShows
<1>5. /\ \A d : Unwritten(d) =>
              ListDocument(Committed(sparse, heldSparse), d) = ListDocument(sparse, d)
      /\ \A w \in Writers : Uncommitted(w) =>
              ListDocument(Committed(sparse, heldSparse), Doc(w)) = heldSparse[w]
  <2> HIDE DEF heldSparse
  <2> QED
    BY <1>1, <1>2, <1>3, CommittedShows
<1> QED
  BY <1>3, <1>4, <1>5 DEF ShowsCommitted, CommittedDense, CommittedSparse

\* Stores that hold the same of every document are the same.
LEMMA SameDocuments ==
    ASSUME NEW S, NEW T, \A d : ListDocument(S, d) = ListDocument(T, d)
    PROVE  S = T
<1>1. ASSUME NEW c
      PROVE  c \in S <=> c \in T
  <2>1. c \in S <=> c \in ListDocument(S, DocOf[c.id])
    BY DEF ListDocument
  <2>2. c \in T <=> c \in ListDocument(T, DocOf[c.id])
    BY DEF ListDocument
  <2> QED
    BY <2>1, <2>2
<1> QED
  BY <1>1

\* A step of a writer shows no other document differently.
LEMMA ViewElsewhere ==
    ASSUME ShowsCommitted, ShowsCommitted', NEW w \in Writers, NEW d,
           \A v \in Writers \ {w} : job'[v] = job[v] /\ pc'[v] = pc[v],
           Uncommitted(w) => Doc(w) # d,
           Uncommitted(w)' => Doc(w)' # d,
           Unwritten(d) => /\ ListDocument(dense', d) = ListDocument(dense, d)
                           /\ ListDocument(sparse', d) = ListDocument(sparse, d)
    PROVE  /\ ListDocument(CommittedDense', d) = ListDocument(CommittedDense, d)
           /\ ListDocument(CommittedSparse', d) = ListDocument(CommittedSparse, d)
<1>1. \A v \in Writers \ {w} : Uncommitted(v)' = Uncommitted(v) /\ Doc(v)' = Doc(v)
  BY DEF Uncommitted, At, Doc
<1>2. CASE Unwritten(d)
  <2>1. Unwritten(d)'
    BY <1>1, <1>2 DEF Unwritten
  <2> QED
    BY <1>2, <2>1 DEF ShowsCommitted
<1>3. CASE ~ Unwritten(d)
  <2>1. PICK v \in Writers \ {w} : Uncommitted(v) /\ Doc(v) = d
    BY <1>3 DEF Unwritten
  <2>2. Uncommitted(v)' /\ Doc(v)' = d /\ job'[v].before = job[v].before
    BY <1>1, <2>1
  <2> QED
    BY <2>1, <2>2 DEF ShowsCommitted
<1> QED
  BY <1>2, <1>3

\* A step that goes on with a document, and does not finish it, shows nothing.
LEMMA ViewWorking ==
    ASSUME TypeOK, WriterInv, RefinementInv, ShowsCommitted, ShowsCommitted',
           NEW w \in Writers, DocumentStep(w), NEW d, d # Doc(w) \/ pc'[w] # "indexed"
    PROVE  /\ ListDocument(CommittedDense', d) = ListDocument(CommittedDense, d)
           /\ ListDocument(CommittedSparse', d) = ListDocument(CommittedSparse, d)
<1>1. \A v \in Writers \ {w} : job'[v] = job[v] /\ pc'[v] = pc[v]
  BY OthersAtRest DEF RefinementInv
<1>2. job'[w].batch = job[w].batch /\ job'[w].before = job[w].before /\ Doc(w)' = Doc(w)
  BY DocumentStepWorks DEF WorksOn, TypeOK, Job, Doc
<1>3. CASE d # Doc(w)
  BY <1>1, <1>2, <1>3, ViewElsewhere, DocumentStepLocal DEF WriterInv
<1>4. CASE d = Doc(w) /\ pc'[w] # "indexed"
  <2>1. Uncommitted(w) /\ Uncommitted(w)'
    BY <1>2, <1>4, DocumentStepPlace DEF Uncommitted, AtDocument, At
  <2> QED
    BY <1>2, <1>4, <2>1 DEF ShowsCommitted
<1> QED
  BY <1>3, <1>4

\* Turning to a document, or leaving it, shows nothing.
LEMMA ViewTurning ==
    ASSUME TypeOK, WriterInv, RefinementInv, RefinementInv', TypeOK',
           ShowsCommitted, ShowsCommitted',
           NEW w \in Writers, NextDocument(w) \/ Return(w), NEW d
    PROVE  /\ ListDocument(CommittedDense', d) = ListDocument(CommittedDense, d)
           /\ ListDocument(CommittedSparse', d) = ListDocument(CommittedSparse, d)
<1>1. ASSUME NextDocument(w)
      PROVE  /\ ListDocument(CommittedDense', d) = ListDocument(CommittedDense, d)
             /\ ListDocument(CommittedSparse', d) = ListDocument(CommittedSparse, d)
  <2>1. PICK b \in job[w].waiting : job' = [job EXCEPT ![w] = StartOf(w, b)]
    BY <1>1 DEF NextDocument
  <2>2. /\ UNCHANGED <<dense, sparse>>
        /\ \A v \in Writers \ {w} : job'[v] = job[v] /\ pc'[v] = pc[v]
    BY <1>1, <2>1 DEF NextDocument, TypeOK
  <2>3. ~ Uncommitted(w)
    BY <1>1, JobFacts DEF NextDocument, Uncommitted, At
  <2>4. /\ Doc(w)' = BatchDoc(b) /\ Uncommitted(w)'
        /\ job'[w].before = [dense |-> ListDocument(dense, BatchDoc(b)),
                             sparse |-> ListDocument(sparse, BatchDoc(b))]
    BY <1>1, <2>1, JobFacts, BatchFacts, ZenonT(40)
       DEF NextDocument, TypeOK, StartOf, NoJob, Doc, Uncommitted, At
  <2>5. CASE d # BatchDoc(b)
    BY <2>2, <2>3, <2>4, <2>5, ViewElsewhere
  <2>6. CASE d = BatchDoc(b)
    <3>1. Unwritten(d)
      BY <2>3, <2>6, NobodyThere DEF RefinementInv, Unwritten, Uncommitted, AtDocument
    <3> QED
      BY <2>4, <2>6, <3>1 DEF ShowsCommitted
  <2> QED
    BY <2>5, <2>6
<1>2. ASSUME Return(w)
      PROVE  /\ ListDocument(CommittedDense', d) = ListDocument(CommittedDense, d)
             /\ ListDocument(CommittedSparse', d) = ListDocument(CommittedSparse, d)
  <2>1. /\ UNCHANGED <<dense, sparse>>
        /\ \A v \in Writers \ {w} : job'[v] = job[v] /\ pc'[v] = pc[v]
    BY <1>2 DEF Return, TypeOK
  <2>2. ~ Uncommitted(w)'
    BY <1>2 DEF Return, TypeOK, NoJob, Uncommitted
  <2>3. CASE Uncommitted(w) => Doc(w) # d
    BY <2>1, <2>2, <2>3, ViewElsewhere
  <2>4. CASE Uncommitted(w) /\ Doc(w) = d
    <3>1. At(w, "raised") /\ w \in alone /\ WriterOK(w)
      BY <1>2, <2>4 DEF Return, Uncommitted, At, RefinementInv, AllAlone
    <3>2. DenseOf(w) = job[w].before.dense /\ SparseOf(w) = job[w].before.sparse
      BY <3>1, RaisedRestored DEF WriterInv
    <3>3. Unwritten(d)'
      <4>1. \A v \in Writers \ {w} : Uncommitted(v) => Doc(v) # d
        BY <2>4, ClaimFacts DEF RefinementInv, ClaimsApart, Uncommitted
      <4> QED
        BY <2>1, <2>2, <4>1 DEF Unwritten, Uncommitted, At, Doc
    <3> QED
      BY <2>1, <2>4, <3>2, <3>3 DEF ShowsCommitted, DenseOf, SparseOf
  <2> QED
    BY <2>3, <2>4
<1> QED
  BY <1>1, <1>2

\* The step that finishes a document is the abstract one.
LEMMA FinishIsAtomic ==
    ASSUME Refinable, TypeOK, TypeOK', WriterInv, WriterInv', RefinementInv, RefinementInv',
           ShowsCommitted, ShowsCommitted',
           NEW w \in Writers, DocumentStep(w), pc'[w] = "indexed"
    PROVE  Atomic!Next
<1> DEFINE b == job[w].batch
           D == CommittedDense
           S == CommittedSparse
           held == job[w].before.dense
           kept == job'[w].kept
<1>0. PICK d : d = BatchDoc(b)
  OBVIOUS
<1>1. /\ b \in Batches /\ b # << >> /\ Doc(w) = d
      /\ job'[w].batch = b /\ job'[w].before = job[w].before /\ Doc(w)' = d
  <2>1. b # << >> /\ Doc(w) = d
    BY <1>0, DocumentStepPlace DEF AtDocument, Doc
  <2>2. job'[w].batch = b /\ job'[w].before = job[w].before
    <3> HIDE DEF b
    <3>1. WorksOn(w) /\ job \in [Writers -> Job]
      BY DocumentStepWorks DEF TypeOK
    <3>2. job'[w].batch = job[w].batch /\ job'[w].before = job[w].before
      BY <3>1 DEF WorksOn, Job
    <3> QED
      BY <3>2 DEF b
  <2> QED
    BY <1>0, <2>1, <2>2, JobFacts DEF Doc
<1>2. ListDocument(D, d) = held
  <2>1. Uncommitted(w)
    BY <1>1, DocumentStepPlace DEF Uncommitted, At
  <2> QED
    BY <1>1, <2>1 DEF ShowsCommitted
<1>3. Unwritten(d)'
  <2>1. \A v \in Writers \ {w} : Uncommitted(v)' = Uncommitted(v) /\ Doc(v)' = Doc(v)
    BY OthersAtRest DEF RefinementInv, Uncommitted, At, Doc
  <2>2. \A v \in Writers \ {w} : Uncommitted(v) => Doc(v) # d
    BY <1>1, ClaimFacts DEF RefinementInv, ClaimsApart, Uncommitted
  <2>3. ~ Uncommitted(w)'
    BY DEF Uncommitted, At
  <2> QED
    BY <2>1, <2>2, <2>3 DEF Unwritten
<1>4. /\ ListDocument(D', d) = ResultOf(held, b, kept)
      /\ Survivors(b, held, kept)
  <2>1. WriterOK(w)'
    BY <1>1 DEF RefinementInv
  <2>2. DenseOf(w)' = ResultOf(held, b, kept) /\ Survivors(b, held, kept)
    BY <1>1, <2>1 DEF WriterOK, Progress, DenseDone
  <2> QED
    BY <1>1, <1>3, <2>2 DEF ShowsCommitted, DenseOf
<1>5. ListDocument(S', d) = BatchChunks(b)
  <2>1. w \in alone'
    BY <1>1 DEF RefinementInv, AllAlone
  <2>2. SparseOf(w)' = Incoming(w)'
    BY <2>1 DEF WriterInv, DocumentInv, ClearedFirst, At
  <2> QED
    BY <1>1, <1>3, <2>2 DEF ShowsCommitted, SparseOf, Incoming
<1>6. \A e : e # d => /\ ListDocument(D', e) = ListDocument(D, e)
                      /\ ListDocument(S', e) = ListDocument(S, e)
  BY <1>1, ViewWorking
<1>7. PICK K \in SUBSET DOMAIN b : IsKept(b, held, K) /\ kept = {b[i] : i \in K}
  BY <1>4 DEF Survivors
<1>8. \A c \in BatchChunks(b) : DocOf[c.id] = d
  BY <1>0, <1>1, BatchFacts DEF BatchChunks
<1>9. \A c \in kept : DocOf[c.id] = d
  BY <1>4, <1>8, SurvivorsFacts
<1> DEFINE stale == StaleChunks(held, BatchVersion(b))
           W == IF kept = {} THEN D ELSE DeleteChunks(UpsertChunks(D, kept), IdsOf(stale))
<1>10. \A c \in stale : DocOf[c.id] = d
  <2>1. \A c \in held : DocOf[c.id] = d
    BY <1>2 DEF ListDocument
  <2> QED
    BY <2>1 DEF StaleChunks
<1>11. D' = W
  <2>1. ListDocument(W, d) = ResultOf(held, b, kept)
    BY <1>2, <1>9, <1>10, WriteHere DEF ResultOf
  <2>2. \A e : e # d => ListDocument(W, e) = ListDocument(D, e)
    BY <1>9, <1>10, WriteElsewhere
  <2>3. \A e : ListDocument(D', e) = ListDocument(W, e)
    BY <1>4, <1>6, <2>1, <2>2
  <2> HIDE DEF W
  <2> QED
    BY <2>3, SameDocuments
<1>12. S' = (S \ ListDocument(S, d)) \cup BatchChunks(b)
  <2> DEFINE V == (S \ ListDocument(S, d)) \cup BatchChunks(b)
  <2>1. ListDocument(V, d) = BatchChunks(b)
    BY <1>8 DEF ListDocument
  <2>2. \A e : e # d => ListDocument(V, e) = ListDocument(S, e)
    BY <1>8 DEF ListDocument
  <2>3. \A e : ListDocument(S', e) = ListDocument(V, e)
    BY <1>5, <1>6, <2>1, <2>2
  <2> HIDE DEF V
  <2>4. S' = V
    BY <2>3, SameDocuments
  <2> QED
    BY <2>4 DEF V
<1>13. Atomic!IndexDocument(b)
  <2>1. Atomic!IsKept(b, Atomic!ListDocument(D, Atomic!BatchDoc(b)), K)
    BY <1>0, <1>2, <1>7
       DEF IsKept, Suppresses, SameSuppressionScope, ListDocument, BatchDoc,
           Atomic!IsKept, Atomic!Suppresses, Atomic!SameSuppressionScope,
           Atomic!ListDocument, Atomic!BatchDoc
  <2>2. D' = Atomic!DenseResult(b, K)
    BY <1>0, <1>2, <1>7, <1>11
       DEF Atomic!DenseResult, ListDocument, BatchDoc, BatchVersion, IdsOf, DeleteChunks,
           UpsertChunks, StaleChunks, Atomic!ListDocument, Atomic!BatchDoc,
           Atomic!BatchVersion, Atomic!IdsOf, Atomic!DeleteChunks, Atomic!UpsertChunks,
           Atomic!StaleChunks
  <2>3. S' = Atomic!SparseResult(b)
    BY <1>0, <1>12
       DEF Atomic!SparseResult, ListDocument, BatchDoc, BatchChunks,
           Atomic!ListDocument, Atomic!BatchDoc, Atomic!BatchChunks
  <2> QED
    BY <2>1, <2>2, <2>3 DEF Atomic!IndexDocument
<1> QED
  BY <1>1, <1>13 DEF Atomic!Next

\* Every step of the writers is the abstract one, or shows nothing.
LEMMA StepIsAtomic ==
    ASSUME Refinable, TypeOK, TypeOK', WriterInv, WriterInv', RefinementInv, RefinementInv',
           ShowsCommitted, ShowsCommitted', [Next]_vars
    PROVE  [Atomic!Next]_<<CommittedDense, CommittedSparse>>
<1>1. ASSUME \A d : /\ ListDocument(CommittedDense', d) = ListDocument(CommittedDense, d)
                   /\ ListDocument(CommittedSparse', d) = ListDocument(CommittedSparse, d)
      PROVE  UNCHANGED <<CommittedDense, CommittedSparse>>
  <2>1. \A d : ListDocument(CommittedDense', d) = ListDocument(CommittedDense, d)
    BY <1>1
  <2>2. \A d : ListDocument(CommittedSparse', d) = ListDocument(CommittedSparse, d)
    BY <1>1
  <2>3. CommittedDense' = CommittedDense
    BY <2>1, SameDocuments
  <2>4. CommittedSparse' = CommittedSparse
    BY <2>2, SameDocuments
  <2> QED
    BY <2>3, <2>4
<1>2. ASSUME NEW w \in Writers, NEW group \in SUBSET Batches, Begin(w, group)
      PROVE  UNCHANGED <<CommittedDense, CommittedSparse>>
  <2>1. /\ UNCHANGED <<dense, sparse>>
        /\ \A v \in Writers \ {w} : job'[v] = job[v] /\ pc'[v] = pc[v]
    BY <1>2 DEF Begin, Move, TypeOK
  <2>2. ~ Uncommitted(w) /\ ~ Uncommitted(w)'
    BY <1>2, JobFacts DEF Begin, Uncommitted, At, TypeOK, Job
  <2> QED
    BY <1>1, <2>1, <2>2, ViewElsewhere
<1>3. ASSUME NEW w \in Writers, NextDocument(w) \/ Return(w)
      PROVE  UNCHANGED <<CommittedDense, CommittedSparse>>
  BY <1>1, <1>3, ViewTurning
<1>4. ASSUME NEW w \in Writers, DocumentStep(w)
      PROVE  Atomic!Next \/ UNCHANGED <<CommittedDense, CommittedSparse>>
  <2>1. CASE pc'[w] = "indexed"
    BY <1>4, <2>1, FinishIsAtomic
  <2>2. CASE pc'[w] # "indexed"
    BY <1>1, <1>4, <2>2, ViewWorking
  <2> QED
    BY <2>1, <2>2
<1>5. CASE Crash
  BY <1>5 DEF Crash, Fault, Refinable
<1>6. CASE UNCHANGED vars
  BY <1>6 DEF vars, CommittedDense, CommittedSparse, Committed, Uncommitted, At, Doc
<1> QED
  BY <1>2, <1>3, <1>4, <1>5, <1>6 DEF Next, Step, DocumentStep

\* Within these limits, readers of committed documents see each document indexed
\* in one step, in both stores, or not at all.
THEOREM ImplementationCorrect ==
    ASSUME Refinable
    PROVE  Spec => ImplementsAtomicIndex
<1>1. Init => Atomic!Init
  <2> SUFFICES ASSUME Init
               PROVE  Atomic!Init
    OBVIOUS
  <2>1. \A w \in Writers : ~ Uncommitted(w)
    BY DEF Init, NoJob, Uncommitted
  <2>2. CommittedDense = {} /\ CommittedSparse = {}
    BY <2>1 DEF Init, CommittedDense, CommittedSparse, Committed
  <2> QED
    BY <2>2 DEF Atomic!Init
<1>2. /\ TypeOK /\ TypeOK' /\ WriterInv /\ WriterInv' /\ RefinementInv /\ RefinementInv'
      /\ ShowsCommitted /\ ShowsCommitted' /\ [Next]_vars
      => [Atomic!Next]_<<CommittedDense, CommittedSparse>>
  BY StepIsAtomic
<1> QED
  BY <1>1, <1>2, TypeCorrect, WriterInvariant, RefinementInvariant, ViewCommitted, PTL
     DEF Spec, ImplementsAtomicIndex, Atomic!Spec

-----------------------------------------------------------------------------
(***************************************************************************)
(* What the stores hold: a document being indexed is never absent from     *)
(* dense search, an indexed document is covered by it, and the two stores  *)
(* agree about its version.                                                *)
(*                                                                         *)
(* All three need that the ids of chunks tell the versions of a document   *)
(* apart.  Where an unchanged chunk keeps its id, the cleanup of stale     *)
(* chunks deletes what the same call wrote, and none of them holds.        *)
(***************************************************************************)

-----------------------------------------------------------------------------
(* What the ids of chunks tell *)

Written == UNION {BatchChunks(b) : b \in Batches}

\* Chunks of different versions have different ids.
IdsPerVersion == \A c, e \in Written : c.id = e.id => c.ver = e.ver

\* Chunks with one id are near duplicates of the same chunks.
IdsFixDuplicates ==
    \A c, e \in Written : c.id = e.id =>
        \A v \in Vecs : <<v, c.vec>> \in Near => <<v, e.vec>> \in Near

-----------------------------------------------------------------------------
(* The invariant *)

\* The stores and the locals of the writers hold chunks of batches.
LocalsFromBatches(w) ==
    {job[w].kept, job[w].stale, job[w].denseSnapshot, job[w].sparseSnapshot,
     job[w].before.dense, job[w].before.sparse} \subseteq SUBSET Written

FromBatches ==
    /\ dense \subseteq Written /\ sparse \subseteq Written
    /\ \A w \in Writers : job[w].batch # << >> => LocalsFromBatches(w)

\* A writer that undoes something knows why.
Handling ==
    \A w \in Writers :
        pc[w] \in {"undoNew", "undoStale", "raised"} \cup RollsBack => cause[w] # "none"

ContentInv == FromBatches /\ Handling /\ \A w \in alone : Progress(w)

-----------------------------------------------------------------------------
(* The steps of the writers *)

\* Reading, writing and deleting chunks of batches leaves chunks of batches.
LEMMA StoreWritten ==
    ASSUME NEW store, NEW chunks, store \subseteq Written, chunks \subseteq Written
    PROVE  /\ UpsertChunks(store, chunks) \subseteq Written
           /\ \A ids : DeleteChunks(store, ids) \subseteq Written
           /\ \A d : ListDocument(store, d) \subseteq Written
           /\ \A v : StaleChunks(store, v) \subseteq Written
BY DEF UpsertChunks, DeleteChunks, ListDocument, StaleChunks

\* What a writer has and reads comes from batches.
LEMMA WriterWritten ==
    ASSUME TypeOK, FromBatches, NEW w \in Writers, job[w].batch # << >>
    PROVE  /\ Incoming(w) \subseteq Written
           /\ DenseOf(w) \subseteq Written /\ SparseOf(w) \subseteq Written
           /\ dense \subseteq Written /\ sparse \subseteq Written
           /\ job[w].kept \subseteq Written /\ job[w].stale \subseteq Written
           /\ job[w].denseSnapshot \subseteq Written /\ job[w].sparseSnapshot \subseteq Written
           /\ job[w].before.dense \subseteq Written /\ job[w].before.sparse \subseteq Written
           /\ \A K \in SUBSET DOMAIN job[w].batch : {job[w].batch[i] : i \in K} \subseteq Written
<1>1. Incoming(w) \subseteq Written
  BY JobFacts DEF Incoming, Written
<1>2. \A K \in SUBSET DOMAIN job[w].batch : {job[w].batch[i] : i \in K} \subseteq Written
  BY <1>1 DEF Incoming, BatchChunks
<1>3. DenseOf(w) \subseteq Written /\ SparseOf(w) \subseteq Written
  BY StoreWritten DEF FromBatches, DenseOf, SparseOf
<1> QED
  BY <1>1, <1>2, <1>3 DEF FromBatches, LocalsFromBatches

\* A step at a document leaves chunks of batches in the stores.
LEMMA StoresWritten ==
    ASSUME TypeOK, FromBatches, NEW w \in Writers, DocumentStep(w)
    PROVE  dense' \subseteq Written /\ sparse' \subseteq Written
<1>1. job[w].batch # << >>
  BY DocumentStepPlace DEF AtDocument
<1> USE <1>1, WriterWritten, StoreWritten DEF DenseDelete, stores
<1>2. CASE SnapshotDense(w)
  BY <1>2 DEF SnapshotDense
<1>3. CASE SnapshotSparse(w)
  BY <1>3 DEF SnapshotSparse
<1>4. CASE Deduplicate(w)
  BY <1>4 DEF Deduplicate
<1>5. CASE PlanReindex(w)
  BY <1>5 DEF PlanReindex
<1>6. CASE DenseUpsert(w)
  BY <1>6 DEF DenseUpsert
<1>7. CASE DeleteStale(w)
  BY <1>7 DEF DeleteStale
<1>8. CASE UndoNew(w)
  BY <1>8 DEF UndoNew
<1>9. CASE UndoStale(w)
  BY <1>9 DEF UndoStale
<1>10. CASE EnsureOptimized(w)
  BY <1>10 DEF EnsureOptimized
<1>11. CASE ListSparse(w)
  BY <1>11 DEF ListSparse
<1>12. CASE DeleteSparse(w)
  BY <1>12 DEF DeleteSparse
<1>13. CASE IndexSparse(w)
  BY <1>13 DEF IndexSparse
<1>14. CASE ListDense(w)
  BY <1>14 DEF ListDense
<1>15. CASE ClearDense(w)
  BY <1>15 DEF ClearDense
<1>16. CASE RestoreDense(w)
  BY <1>16 DEF RestoreDense
<1>17. CASE RelistSparse(w)
  BY <1>17 DEF RelistSparse
<1>18. CASE ClearSparse(w)
  BY <1>18 DEF ClearSparse
<1>19. CASE RestoreSparse(w)
  BY <1>19 DEF RestoreSparse
<1> QED
  BY <1>2, <1>3, <1>4, <1>5, <1>6, <1>7, <1>8, <1>9, <1>10,
     <1>11, <1>12, <1>13, <1>14, <1>15, <1>16, <1>17, <1>18, <1>19
     DEF DocumentStep, DenseStep, SparseStep, RollbackStep

\* A step at a document puts chunks of batches into the locals of its writer.
LEMMA LocalsWritten ==
    ASSUME TypeOK, FromBatches, NEW w \in Writers, DocumentStep(w)
    PROVE  LocalsFromBatches(w)'
<1>1. job[w].batch # << >> /\ job[w] \in Job /\ job \in [Writers -> Job]
  BY DocumentStepPlace, JobFacts DEF AtDocument, TypeOK
<1>2. /\ DenseOf(w) \subseteq Written /\ SparseOf(w) \subseteq Written
      /\ StaleChunks(DenseOf(w), BatchVersion(job[w].batch)) \subseteq Written
      /\ \A K \in SUBSET DOMAIN job[w].batch : {job[w].batch[i] : i \in K} \subseteq Written
  BY <1>1, WriterWritten, StoreWritten
<1>3. \/ UNCHANGED job
      \/ \E c \in SUBSET Written : \/ job' = [job EXCEPT ![w].denseSnapshot = c]
                                   \/ job' = [job EXCEPT ![w].sparseSnapshot = c]
                                   \/ job' = [job EXCEPT ![w].kept = c]
                                   \/ job' = [job EXCEPT ![w].stale = c]
  <2> USE <1>2 DEF Move, Goto, Raise, Handle
  <2>1. CASE SnapshotDense(w)
    BY <2>1 DEF SnapshotDense
  <2>2. CASE SnapshotSparse(w)
    BY <2>2 DEF SnapshotSparse
  <2>3. CASE Deduplicate(w)
    BY <2>3 DEF Deduplicate
  <2>4. CASE PlanReindex(w)
    BY <2>4 DEF PlanReindex
  <2>5. CASE DenseUpsert(w)
    BY <2>5 DEF DenseUpsert
  <2>6. CASE DeleteStale(w)
    BY <2>6 DEF DeleteStale
  <2>7. CASE UndoNew(w)
    BY <2>7 DEF UndoNew
  <2>8. CASE UndoStale(w)
    BY <2>8 DEF UndoStale
  <2>9. CASE EnsureOptimized(w)
    BY <2>9 DEF EnsureOptimized
  <2>10. CASE ListSparse(w)
    BY <2>10 DEF ListSparse
  <2>11. CASE DeleteSparse(w)
    BY <2>11 DEF DeleteSparse
  <2>12. CASE IndexSparse(w)
    BY <2>12 DEF IndexSparse
  <2>13. CASE ListDense(w)
    BY <2>13 DEF ListDense
  <2>14. CASE ClearDense(w)
    BY <2>14 DEF ClearDense
  <2>15. CASE RestoreDense(w)
    BY <2>15 DEF RestoreDense
  <2>16. CASE RelistSparse(w)
    BY <2>16 DEF RelistSparse
  <2>17. CASE ClearSparse(w)
    BY <2>17 DEF ClearSparse
  <2>18. CASE RestoreSparse(w)
    BY <2>18 DEF RestoreSparse
  <2> QED
    BY <2>1, <2>2, <2>3, <2>4, <2>5, <2>6, <2>7, <2>8, <2>9,
       <2>10, <2>11, <2>12, <2>13, <2>14, <2>15, <2>16, <2>17, <2>18
       DEF DocumentStep, DenseStep, SparseStep, RollbackStep
<1> QED
  BY <1>1, <1>3, WriterWritten DEF Job, LocalsFromBatches

\* A step at a document that fails, or undoes something, has a cause.
LEMMA DocumentStepHandling ==
    ASSUME TypeOK, Handling, NEW w \in Writers, DocumentStep(w)
    PROVE  pc'[w] \in {"undoNew", "undoStale", "raised"} \cup RollsBack => cause'[w] # "none"
<1> USE DEF Handling, RollsBack, Move, Goto, Raise, Handle, At, TypeOK
<1>1. CASE SnapshotDense(w)
  BY <1>1 DEF SnapshotDense
<1>2. CASE SnapshotSparse(w)
  BY <1>2 DEF SnapshotSparse
<1>3. CASE Deduplicate(w)
  BY <1>3 DEF Deduplicate
<1>4. CASE PlanReindex(w)
  BY <1>4 DEF PlanReindex
<1>5. CASE DenseUpsert(w)
  BY <1>5 DEF DenseUpsert
<1>6. CASE DeleteStale(w)
  BY <1>6 DEF DeleteStale
<1>7. CASE UndoNew(w)
  BY <1>7 DEF UndoNew
<1>8. CASE UndoStale(w)
  BY <1>8 DEF UndoStale
<1>9. CASE EnsureOptimized(w)
  BY <1>9 DEF EnsureOptimized
<1>10. CASE ListSparse(w)
  BY <1>10 DEF ListSparse
<1>11. CASE DeleteSparse(w)
  BY <1>11 DEF DeleteSparse
<1>12. CASE IndexSparse(w)
  BY <1>12 DEF IndexSparse
<1>13. CASE ListDense(w)
  BY <1>13 DEF ListDense
<1>14. CASE ClearDense(w)
  BY <1>14 DEF ClearDense
<1>15. CASE RestoreDense(w)
  BY <1>15 DEF RestoreDense
<1>16. CASE RelistSparse(w)
  BY <1>16 DEF RelistSparse
<1>17. CASE ClearSparse(w)
  BY <1>17 DEF ClearSparse
<1>18. CASE RestoreSparse(w)
  BY <1>18 DEF RestoreSparse
<1> QED
  BY <1>1, <1>2, <1>3, <1>4, <1>5, <1>6, <1>7, <1>8, <1>9,
     <1>10, <1>11, <1>12, <1>13, <1>14, <1>15, <1>16, <1>17, <1>18
     DEF DocumentStep, DenseStep, SparseStep, RollbackStep

\* A writer that keeps its locals and sees its document unchanged is as far.
LEMMA ProgressFrame ==
    ASSUME NEW w \in Writers, Progress(w), job'[w] = job[w], pc'[w] = pc[w],
           ListDocument(dense', Doc(w)) = DenseOf(w)
    PROVE  Progress(w)'
<1>1. Doc(w)' = Doc(w) /\ DenseOf(w)' = DenseOf(w)
  BY DEF Doc, DenseOf
<1> QED
  BY <1>1 DEF Progress, At

\* Nothing but chunks of batches is stored and remembered.
LEMMA FromBatchesStep ==
    ASSUME TypeOK, FromBatches, [Next]_vars
    PROVE  FromBatches'
<1>1. ASSUME NEW w \in Writers, NEW group \in SUBSET Batches, Begin(w, group)
      PROVE  FromBatches'
  <2>1. \A v \in Writers : v # w => job'[v] = job[v]
    BY <1>1 DEF Begin, TypeOK
  <2>2. job'[w].batch = << >>
    BY <1>1, JobFacts DEF Begin, TypeOK, Job, At
  <2> QED
    BY <1>1, <2>1, <2>2 DEF Begin, FromBatches, LocalsFromBatches
<1>2. ASSUME NEW w \in Writers, NextDocument(w)
      PROVE  FromBatches'
  <2>1. PICK b \in Batches : job' = [job EXCEPT ![w] = StartOf(w, b)]
    BY <1>2, JobFacts DEF NextDocument
  <2>2. \A v \in Writers : v # w => job'[v] = job[v]
    BY <2>1 DEF TypeOK
  <2>3. /\ job'[w].kept = {} /\ job'[w].stale = {}
        /\ job'[w].denseSnapshot = {} /\ job'[w].sparseSnapshot = {}
        /\ job'[w].before.dense = ListDocument(dense, BatchDoc(b))
        /\ job'[w].before.sparse = ListDocument(sparse, BatchDoc(b))
    BY <2>1 DEF TypeOK, StartOf, NoJob
  <2>4. LocalsFromBatches(w)'
    <3>1. /\ ListDocument(dense, BatchDoc(b)) \subseteq Written
          /\ ListDocument(sparse, BatchDoc(b)) \subseteq Written
      BY StoreWritten DEF FromBatches
    <3> QED
      BY <2>3, <3>1 DEF LocalsFromBatches
  <2> QED
    BY <1>2, <2>2, <2>4 DEF NextDocument, FromBatches, LocalsFromBatches
<1>3. ASSUME NEW w \in Writers, Return(w)
      PROVE  FromBatches'
  <2>1. \A v \in Writers : v # w => job'[v] = job[v]
    BY <1>3 DEF Return, TypeOK
  <2>2. job'[w].batch = << >>
    BY <1>3 DEF Return, TypeOK, NoJob
  <2> QED
    BY <1>3, <2>1, <2>2 DEF Return, FromBatches, LocalsFromBatches
<1>4. ASSUME NEW w \in Writers, DocumentStep(w)
      PROVE  FromBatches'
  <2>1. \A v \in Writers : v # w => job'[v] = job[v]
    BY <1>4, DocumentStepWorks DEF WorksOn, TypeOK
  <2>2. LocalsFromBatches(w)' /\ dense' \subseteq Written /\ sparse' \subseteq Written
    BY <1>4, StoresWritten, LocalsWritten
  <2> QED
    BY <2>1, <2>2 DEF FromBatches, LocalsFromBatches
<1>5. CASE Crash
  <2>1. \A v \in Writers : job'[v].batch = << >>
    BY <1>5 DEF Crash, NoJob
  <2> QED
    BY <1>5, <2>1 DEF Crash, stores, FromBatches
<1>6. CASE UNCHANGED vars
  BY <1>6 DEF vars, FromBatches, LocalsFromBatches
<1> QED
  BY <1>1, <1>2, <1>3, <1>4, <1>5, <1>6 DEF Next, Step, DocumentStep

\* A cause is known wherever something is undone, and where a call failed.
LEMMA HandlingStep ==
    ASSUME TypeOK, Handling, [Next]_vars
    PROVE  Handling'
<1>1. ASSUME NEW w \in Writers, NEW group \in SUBSET Batches, Begin(w, group)
      PROVE  Handling'
  BY <1>1 DEF Begin, Move, Handling, RollsBack, TypeOK
<1>2. ASSUME NEW w \in Writers, NextDocument(w)
      PROVE  Handling'
  BY <1>2 DEF NextDocument, Handling, RollsBack, TypeOK
<1>3. ASSUME NEW w \in Writers, Return(w)
      PROVE  Handling'
  BY <1>3 DEF Return, Handling, RollsBack, TypeOK
<1>4. ASSUME NEW w \in Writers, DocumentStep(w)
      PROVE  Handling'
  <2>1. \A v \in Writers : v # w => pc'[v] = pc[v] /\ cause'[v] = cause[v]
    BY <1>4, DocumentStepWorks DEF WorksOn, TypeOK
  <2> QED
    BY <1>4, <2>1, DocumentStepHandling DEF Handling
<1>5. CASE Crash
  BY <1>5 DEF Crash, Handling, RollsBack
<1>6. CASE UNCHANGED vars
  BY <1>6 DEF vars, Handling
<1> QED
  BY <1>1, <1>2, <1>3, <1>4, <1>5, <1>6 DEF Next, Step, DocumentStep

\* A writer that has its document for itself goes on as planned.
LEMMA AloneProgressStep ==
    ASSUME TypeOK, WriterInv, \A w \in alone : Progress(w), [Next]_vars, NEW u \in alone'
    PROVE  Progress(u)'
<1>1. ASSUME NEW w \in Writers, NEW group \in SUBSET Batches, Begin(w, group)
      PROVE  Progress(u)'
  <2>1. u \in alone /\ u \in Writers /\ u # w
    BY <1>1, JobFacts DEF Begin, Move, At, WriterInv, AloneApart, TypeOK
  <2>2. job'[u] = job[u] /\ pc'[u] = pc[u]
    BY <1>1, <2>1 DEF Begin, Move, TypeOK
  <2> QED
    BY <1>1, <2>1, <2>2, ProgressFrame DEF Begin, DenseOf
<1>2. ASSUME NEW w \in Writers, NextDocument(w)
      PROVE  Progress(u)'
  <2>1. PICK b \in Batches : job' = [job EXCEPT ![w] = StartOf(w, b)]
    BY <1>2, JobFacts DEF NextDocument
  <2>2. CASE u = w
    BY <1>2, <2>2 DEF NextDocument, TypeOK, Progress, DenseDone, At
  <2>3. CASE u # w
    <3>1. u \in alone /\ u \in Writers
      BY <1>2, <2>3 DEF NextDocument, TypeOK
    <3>2. job'[u] = job[u] /\ pc'[u] = pc[u]
      BY <1>2, <2>1, <2>3, <3>1 DEF NextDocument, TypeOK
    <3> QED
      BY <1>2, <3>1, <3>2, ProgressFrame DEF NextDocument, DenseOf
  <2> QED
    BY <2>2, <2>3
<1>3. ASSUME NEW w \in Writers, Return(w)
      PROVE  Progress(u)'
  <2>1. u \in alone /\ u \in Writers /\ u # w
    BY <1>3 DEF Return, TypeOK
  <2>2. job'[u] = job[u] /\ pc'[u] = pc[u]
    BY <1>3, <2>1 DEF Return, TypeOK
  <2> QED
    BY <1>3, <2>1, <2>2, ProgressFrame DEF Return, DenseOf
<1>4. ASSUME NEW w \in Writers, DocumentStep(w)
      PROVE  Progress(u)'
  <2>1. WorksOn(w) /\ u \in alone /\ u \in Writers
    BY <1>4, DocumentStepWorks DEF WorksOn, TypeOK
  <2>2. CASE u = w
    BY <1>4, <2>1, <2>2, ProgressStep DEF WriterInv
  <2>3. CASE u # w
    <3>1. job'[u] = job[u] /\ pc'[u] = pc[u]
      BY <2>1, <2>3 DEF WorksOn, TypeOK
    <3>2. Doc(u) # Doc(w)
      BY <2>1, <2>3, JobFacts DEF WorksOn, WriterInv, AloneApart, AtDocument
    <3>3. ListDocument(dense', Doc(u)) = DenseOf(u)
      BY <1>4, <3>2, DocumentStepLocal DEF WriterInv, DenseOf
    <3> QED
      BY <2>1, <3>1, <3>3, ProgressFrame
  <2> QED
    BY <2>2, <2>3
<1>5. CASE Crash
  BY <1>5 DEF Crash
<1>6. CASE UNCHANGED vars
  BY <1>6, ProgressFrame DEF vars, WriterInv, TypeOK, DenseOf
<1> QED
  BY <1>1, <1>2, <1>3, <1>4, <1>5, <1>6 DEF Next, Step, DocumentStep

\* The invariant holds, wherever calls may fail and however writers meet.
THEOREM ContentInvariant == Spec => []ContentInv
<1>1. Init => ContentInv
  BY DEF Init, ContentInv, FromBatches, Handling, RollsBack, NoJob
<1>2. TypeOK /\ WriterInv /\ ContentInv /\ [Next]_vars => ContentInv'
  BY FromBatchesStep, HandlingStep, AloneProgressStep DEF ContentInv
<1> QED
  BY <1>1, <1>2, TypeCorrect, WriterInvariant, PTL DEF Spec

-----------------------------------------------------------------------------
(* What a document holds after it was written *)

\* The cleanup of stale chunks deletes nothing that was just written.
LEMMA KeptSurvives ==
    ASSUME IdsPerVersion, NEW b \in Batches, NEW held \in SUBSET Written,
           NEW kept \in SUBSET BatchChunks(b)
    PROVE  /\ kept \subseteq ResultOf(held, b, kept)
           /\ \A c \in held : /\ BatchVersion(b) # NoVersion => c.ver = BatchVersion(b)
                              /\ c.id \notin IdsOf(kept)
                              => c \in ResultOf(held, b, kept)
<1>1. \A c \in kept : c.ver = BatchVersion(b)
  <2>1. IsBatch(b)
    BY WriterAssumption
  <2> QED
    BY <2>1 DEF IsBatch, BatchChunks, BatchVersion
<1>2. kept \subseteq Written
  BY DEF Written
<1> DEFINE stale == StaleChunks(held, BatchVersion(b))
<1>3. \A c \in stale : c \in Written /\ BatchVersion(b) # NoVersion /\ c.ver # BatchVersion(b)
  BY DEF StaleChunks
<1>4. ASSUME NEW c \in Written, BatchVersion(b) # NoVersion => c.ver = BatchVersion(b)
      PROVE  c.id \notin IdsOf(stale)
  BY <1>3, <1>4 DEF IdsPerVersion, IdsOf
<1>5. kept \subseteq ResultOf(held, b, kept)
  BY <1>1, <1>2, <1>4 DEF ResultOf, UpsertChunks, DeleteChunks
<1>6. ASSUME NEW c \in held, BatchVersion(b) # NoVersion => c.ver = BatchVersion(b),
             c.id \notin IdsOf(kept)
      PROVE  c \in ResultOf(held, b, kept)
  BY <1>4, <1>6 DEF ResultOf, UpsertChunks, DeleteChunks
<1> QED
  BY <1>5, <1>6

\* A document that was searchable stays so: the new chunks are there before the
\* old ones go, and go with none of them.
THEOREM NeverEmptied ==
    ASSUME IdsPerVersion
    PROVE  Spec => []DenseNeverEmptied
<1>1. TypeOK /\ WriterInv /\ ContentInv => DenseNeverEmptied
  <2> SUFFICES ASSUME TypeOK, WriterInv, ContentInv, NEW w \in Writers,
                      w \in alone, cause[w] = "none", job[w].before.dense # {}
               PROVE  DenseOf(w) # {}
    BY DEF DenseNeverEmptied
  <2> DEFINE b == job[w].batch
             held == job[w].before.dense
             kept == job[w].kept
  <2>1. /\ b # << >> /\ b \in Batches /\ pc[w] \in Labels \ {"idle", "start"}
        /\ Progress(w) /\ DocumentInv(w) /\ held \subseteq Written
        /\ kept \subseteq BatchChunks(b)
    <3>1. b # << >> /\ b \in Batches /\ pc[w] \in Labels \ {"idle", "start"}
      BY JobFacts DEF WriterInv, AloneApart, TypeOK
    <3>2. held \subseteq Written /\ kept \subseteq BatchChunks(b)
      BY <3>1 DEF ContentInv, FromBatches, LocalsFromBatches, WriterInv, OwnLocals, Incoming
    <3> QED
      BY <3>1, <3>2 DEF ContentInv, WriterInv
  <2>2. pc[w] \in DenseAsBefore => DenseOf(w) # {}
    BY <2>1 DEF DocumentInv, StoresAsBefore
  <2>3. pc[w] = "deleteStale" => DenseOf(w) # {}
    BY <2>1 DEF Progress, At, UpsertChunks
  <2>4. pc[w] \in DenseDone => DenseOf(w) # {}
    <3>1. kept = {} => ResultOf(held, b, kept) = held
      BY DEF ResultOf
    <3>2. kept \subseteq ResultOf(held, b, kept)
      BY <2>1, KeptSurvives
    <3> QED
      BY <2>1, <3>1, <3>2 DEF Progress
  <2>5. pc[w] \in DenseAsBefore \cup DenseDone \cup {"deleteStale"}
    BY <2>1 DEF ContentInv, Handling, Labels, DenseAsBefore, DenseDone, RollsBack
  <2> QED
    BY <2>2, <2>3, <2>4, <2>5
<1> QED
  BY <1>1, TypeCorrect, WriterInvariant, ContentInvariant, PTL

\* The position of a chunk that deduplication suppressed has a near duplicate of
\* the same version, or of none, among the stored chunks and the kept ones.
LEMMA SuppressedFacts ==
    ASSUME NEW b \in Batches, NEW held \in SUBSET Chunk, NEW kept, Survivors(b, held, kept),
           NEW i \in DOMAIN b, b[i] \notin kept
    PROVE  \E e \in held \cup kept : /\ <<b[i].vec, e.vec>> \in Near
                                   /\ \/ e.ver = BatchVersion(b) \/ e.ver = NoVersion
                                      \/ BatchVersion(b) = NoVersion
<1>1. PICK K \in SUBSET DOMAIN b : IsKept(b, held, K) /\ kept = {b[j] : j \in K}
  BY DEF Survivors
<1>2. i \notin K
  BY <1>1
<1>3. PICK e \in held \cup {b[j] : j \in {k \in K : k < i}} : Suppresses(e, b[i])
  BY <1>1, <1>2 DEF IsKept
<1>4. e \in held \cup kept
  BY <1>1, <1>3
<1>5. b[i].ver = BatchVersion(b)
  BY WriterAssumption DEF IsBatch, BatchVersion
<1> QED
  BY <1>3, <1>4, <1>5 DEF Suppresses, SameSuppressionScope

\* What deduplication leaves out of a batch is covered by what it leaves in.
LEMMA ResultCovers ==
    ASSUME IdsPerVersion, IdsFixDuplicates, ConsistentVersions,
           NEW b \in Batches, NEW held \in SUBSET Written, NEW kept, Survivors(b, held, kept),
           \A e \in held : DocOf[e.id] = BatchDoc(b),
           NEW c \in BatchChunks(b)
    PROVE  Covers(ResultOf(held, b, kept), c)
<1>1. kept \subseteq BatchChunks(b) /\ kept \subseteq ResultOf(held, b, kept)
  BY SurvivorsFacts, KeptSurvives
<1>2. CASE c \in kept
  BY <1>1, <1>2 DEF Covers
<1>3. CASE c \notin kept
  <2>1. PICK i \in DOMAIN b : c = b[i]
    BY DEF BatchChunks
  <2>2. Written \subseteq Chunk
    BY BatchFacts DEF Written
  <2>3. PICK e \in held \cup kept : /\ <<c.vec, e.vec>> \in Near
                                  /\ \/ e.ver = BatchVersion(b) \/ e.ver = NoVersion
                                     \/ BatchVersion(b) = NoVersion
    BY <1>3, <2>1, <2>2, SuppressedFacts
  <2>4. CASE e \in kept
    BY <1>1, <2>3, <2>4 DEF Covers
  <2>5. CASE e \in held /\ e.id \notin IdsOf(kept)
    <3>1. PICK a \in Batches : e \in BatchChunks(a)
      BY <2>5 DEF Written
    <3>2. BatchDoc(a) = BatchDoc(b) /\ e.ver = BatchVersion(a)
      <4>1. DocOf[e.id] = BatchDoc(a)
        BY <3>1, BatchFacts DEF BatchChunks
      <4>2. e.ver = BatchVersion(a)
        BY <3>1, WriterAssumption DEF IsBatch, BatchVersion, BatchChunks
      <4> QED
        BY <2>5, <4>1, <4>2
    <3>3. BatchVersion(b) # NoVersion => e.ver = BatchVersion(b)
      BY <2>3, <3>2 DEF ConsistentVersions
    <3>4. e \in ResultOf(held, b, kept)
      BY <1>1, <2>5, <3>3, KeptSurvives
    <3> QED
      BY <2>3, <3>4 DEF Covers
  <2>6. CASE e \in held /\ e.id \in IdsOf(kept)
    <3>1. PICK k \in kept : k.id = e.id
      BY <2>6 DEF IdsOf
    <3>2. k \in Written /\ e \in Written /\ c.vec \in Vecs
      BY <1>1, <2>2, <2>6 DEF Written, Chunk
    <3>3. <<c.vec, k.vec>> \in Near
      BY <2>3, <3>1, <3>2 DEF IdsFixDuplicates
    <3> QED
      BY <1>1, <3>1, <3>3 DEF Covers
  <2> QED
    BY <2>4, <2>5, <2>6
<1> QED
  BY <1>2, <1>3

\* Every incoming chunk of an indexed document is found by dense search, whatever
\* failed and crashed before.
THEOREM IncomingCovered ==
    ASSUME IdsPerVersion, IdsFixDuplicates, ConsistentVersions
    PROVE  Spec => []SuccessCoversIncoming
<1>1. TypeOK /\ WriterInv /\ ContentInv => SuccessCoversIncoming
  <2> SUFFICES ASSUME TypeOK, WriterInv, ContentInv, NEW w \in Writers,
                      At(w, "indexed"), w \in alone, NEW c \in Incoming(w)
               PROVE  Covers(DenseOf(w), c)
    BY DEF SuccessCoversIncoming
  <2> DEFINE b == job[w].batch
             held == job[w].before.dense
             kept == job[w].kept
  <2>1. b # << >> /\ b \in Batches /\ c \in BatchChunks(b)
    BY JobFacts DEF At, Incoming
  <2>2. held \in SUBSET Written /\ \A e \in held : DocOf[e.id] = BatchDoc(b)
    <3>1. held = job[w].denseSnapshot
      BY DEF At, WriterInv, DocumentInv, SnapshotsKnown
    <3> QED
      BY <2>1, <3>1 DEF ContentInv, FromBatches, LocalsFromBatches, WriterInv, OwnLocals, Own, Doc
  <2>3. DenseOf(w) = ResultOf(held, b, kept) /\ Survivors(b, held, kept)
    BY DEF ContentInv, Progress, DenseDone, At
  <2> QED
    BY <2>1, <2>2, <2>3, ResultCovers
<1> QED
  BY <1>1, TypeCorrect, WriterInvariant, ContentInvariant, PTL

-----------------------------------------------------------------------------
(* The versions in the two stores *)

\* What the two stores show of a document has one version in both.
Agreed(d, D, S) ==
    /\ VersionsOf(ListDocument(D, d)) = VersionsOf(ListDocument(S, d))
    /\ Uniform(d, ListDocument(D, d))

\* The abstract index keeps the versions of both stores together.
ViewAgrees ==
    /\ CommittedDense \subseteq Written
    /\ \A d : Agreed(d, CommittedDense, CommittedSparse)

\* What is left in the dense store has the version of the batch, also when the
\* whole batch was suppressed.
LEMMA ResultVersion ==
    ASSUME IdsPerVersion, ConsistentVersions,
           NEW b \in Batches, NEW held \in SUBSET Written, NEW kept, Survivors(b, held, kept),
           \A e \in held : DocOf[e.id] = BatchDoc(b), Uniform(BatchDoc(b), held)
    PROVE  VersionsOf(ResultOf(held, b, kept)) = {BatchVersion(b)}
<1> DEFINE v == BatchVersion(b)
           R == ResultOf(held, b, kept)
<1>1. kept \subseteq BatchChunks(b) /\ kept \subseteq R
  BY SurvivorsFacts, KeptSurvives
<1>2. \A c \in BatchChunks(b) : c.ver = v
  BY WriterAssumption DEF IsBatch, BatchVersion, BatchChunks
<1>3. v = NoVersion => \A c \in held : c.ver = v
  BY DEF Uniform
<1>4. \A e \in held : v # NoVersion => e.ver # NoVersion
  <2> SUFFICES ASSUME NEW e \in held, e.ver = NoVersion
               PROVE  v = NoVersion
    OBVIOUS
  <2>1. PICK a \in Batches : e \in BatchChunks(a)
    BY DEF Written
  <2>2. BatchDoc(a) = BatchDoc(b)
    BY <2>1, BatchFacts DEF BatchChunks
  <2>3. BatchVersion(a) = NoVersion
    BY <2>1, WriterAssumption DEF IsBatch, BatchVersion, BatchChunks
  <2> QED
    BY <2>2, <2>3 DEF ConsistentVersions
<1>5. CASE kept = {}
  <2>1. R = held
    BY <1>5 DEF ResultOf
  <2>2. 1 \in DOMAIN b /\ b[1] \notin kept /\ held \in SUBSET Chunk
    BY <1>5, WriterAssumption, BatchFacts DEF IsBatch, Written
  <2>3. PICK e \in held : e.ver = v \/ e.ver = NoVersion \/ v = NoVersion
    BY <1>5, <2>2, SuppressedFacts
  <2>4. e.ver = v
    BY <1>3, <1>4, <2>3
  <2>5. \A c \in held : c.ver = v
    BY <2>4 DEF Uniform, SingleVersion
  <2> QED
    BY <2>1, <2>4, <2>5 DEF VersionsOf
<1>6. CASE kept # {}
  <2>1. \A c \in R : c.ver = v
    <3>1. \A c \in held : c.ver # v => c.id \in IdsOf(StaleChunks(held, v))
      BY <1>3 DEF StaleChunks, IdsOf
    <3> QED
      BY <1>1, <1>2, <1>6, <3>1 DEF ResultOf, UpsertChunks, DeleteChunks
  <2>2. PICK c : c \in kept
    BY <1>6
  <2>3. c \in R /\ c.ver = v
    BY <1>1, <2>1, <2>2
  <2> HIDE DEF R
  <2>4. VersionsOf(R) = {v}
    BY <2>1, <2>3 DEF VersionsOf
  <2> QED
    BY <2>4 DEF R
<1> QED
  BY <1>5, <1>6

\* Indexing a document leaves one version of it in both stores.
LEMMA IndexKeepsAgreement ==
    ASSUME IdsPerVersion, ConsistentVersions, ViewAgrees, Atomic!Next
    PROVE  ViewAgrees'
<1> DEFINE D == CommittedDense
           S == CommittedSparse
<1>1. PICK b \in Batches : Atomic!IndexDocument(b)
  BY DEF Atomic!Next
<1>2. PICK d : d = BatchDoc(b)
  OBVIOUS
<1>3. PICK held : held = ListDocument(D, d)
  OBVIOUS
<1>4. PICK K \in SUBSET DOMAIN b :
          /\ IsKept(b, held, K)
          /\ D' = IF {b[i] : i \in K} = {} THEN D
                 ELSE DeleteChunks(UpsertChunks(D, {b[i] : i \in K}),
                                   IdsOf(StaleChunks(held, BatchVersion(b))))
  <2>1. PICK K \in SUBSET DOMAIN b :
            /\ Atomic!IsKept(b, Atomic!ListDocument(D, Atomic!BatchDoc(b)), K)
            /\ D' = Atomic!DenseResult(b, K)
    BY <1>1 DEF Atomic!IndexDocument
  <2>2. IsKept(b, held, K)
    BY <1>2, <1>3, <2>1
       DEF IsKept, Suppresses, SameSuppressionScope, ListDocument, BatchDoc,
           Atomic!IsKept, Atomic!Suppresses, Atomic!SameSuppressionScope,
           Atomic!ListDocument, Atomic!BatchDoc
  <2> QED
    BY <1>2, <1>3, <2>1, <2>2
       DEF Atomic!DenseResult, ListDocument, BatchDoc, BatchVersion, IdsOf, DeleteChunks,
           UpsertChunks, StaleChunks, Atomic!ListDocument, Atomic!BatchDoc,
           Atomic!BatchVersion, Atomic!IdsOf, Atomic!DeleteChunks, Atomic!UpsertChunks,
           Atomic!StaleChunks
<1>5. S' = (S \ ListDocument(S, d)) \cup BatchChunks(b)
  BY <1>1, <1>2
     DEF Atomic!IndexDocument, Atomic!SparseResult, ListDocument, BatchDoc, BatchChunks,
         Atomic!ListDocument, Atomic!BatchDoc, Atomic!BatchChunks
<1>6. PICK kept : kept = {b[i] : i \in K}
  OBVIOUS
<1>7. /\ Survivors(b, held, kept) /\ kept \subseteq BatchChunks(b)
      /\ D \subseteq Written /\ held \in SUBSET Written
      /\ \A e \in held : DocOf[e.id] = d
      /\ \A e \in BatchChunks(b) : DocOf[e.id] = d
      /\ Uniform(d, held)
  <2>1. Survivors(b, held, kept) /\ kept \subseteq BatchChunks(b)
    BY <1>4, <1>6, SurvivorsFacts DEF Survivors
  <2>2. D \subseteq Written /\ held \in SUBSET Written /\ \A e \in held : DocOf[e.id] = d
    BY <1>3 DEF ViewAgrees, ListDocument
  <2>3. \A e \in BatchChunks(b) : DocOf[e.id] = d
    BY <1>2, BatchFacts DEF BatchChunks
  <2>4. Uniform(d, held)
    BY <1>3 DEF ViewAgrees, Agreed
  <2> QED
    BY <2>1, <2>2, <2>3, <2>4
<1> DEFINE stale == StaleChunks(held, BatchVersion(b))
<1>8. stale \subseteq held
  BY DEF StaleChunks
<1>9. D' = IF kept = {} THEN D ELSE DeleteChunks(UpsertChunks(D, kept), IdsOf(stale))
  BY <1>4, <1>6
<1>10. D' \subseteq Written
  <2>1. kept \subseteq Written
    BY <1>7 DEF Written
  <2>2. UpsertChunks(D, kept) \subseteq Written
    BY <1>7, <2>1, StoreWritten
  <2> QED
    BY <1>7, <1>9, <2>2 DEF DeleteChunks
<1>11. ListDocument(D', d) = ResultOf(held, b, kept)
  <2>1. /\ \A c \in kept : DocOf[c.id] = d
        /\ \A c \in stale : DocOf[c.id] = d
    BY <1>7, <1>8
  <2> QED
    BY <1>3, <1>9, <2>1, WriteHere DEF ResultOf
<1>12. ListDocument(S', d) = BatchChunks(b)
  BY <1>5, <1>7 DEF ListDocument
<1>13. Agreed(d, D', S')
  <2>1. VersionsOf(ResultOf(held, b, kept)) = {BatchVersion(b)}
    BY <1>2, <1>7, ResultVersion
  <2>2. VersionsOf(BatchChunks(b)) = {BatchVersion(b)}
    BY WriterAssumption DEF IsBatch, BatchVersion, BatchChunks, VersionsOf
  <2>3. Uniform(d, ResultOf(held, b, kept))
    BY <1>2, <1>7, ResultUniform
  <2> QED
    BY <1>11, <1>12, <2>1, <2>2, <2>3 DEF Agreed
<1>14. ASSUME NEW e, e # d
      PROVE  Agreed(e, D', S')
  <2>1. /\ \A c \in kept : DocOf[c.id] # e
        /\ \A c \in stale : DocOf[c.id] # e
    BY <1>7, <1>8, <1>14
  <2>2. ListDocument(D', e) = ListDocument(D, e)
    BY <1>9, <2>1, WriteElsewhere
  <2>3. ListDocument(S', e) = ListDocument(S, e)
    BY <1>5, <1>7, <1>14 DEF ListDocument
  <2>4. Agreed(e, D, S)
    BY DEF ViewAgrees
  <2> QED
    BY <2>2, <2>3, <2>4 DEF Agreed
<1>15. \A e : Agreed(e, D', S')
  BY <1>13, <1>14
<1> QED
  BY <1>10, <1>15 DEF ViewAgrees

\* While no writer is at a document, both stores hold the same versions of it: what
\* AtomicIndex keeps carries over to the writers through the refinement.
THEOREM VersionsAgree ==
    ASSUME Refinable, IdsPerVersion
    PROVE  Spec => []IdleVersionsAgree
<1>1. Init => ViewAgrees
  <2> SUFFICES ASSUME Init
               PROVE  ViewAgrees
    OBVIOUS
  <2>1. \A w \in Writers : ~ Uncommitted(w)
    BY DEF Init, NoJob, Uncommitted
  <2>2. CommittedDense = {} /\ CommittedSparse = {}
    BY <2>1 DEF Init, CommittedDense, CommittedSparse, Committed
  <2> QED
    BY <2>2 DEF ViewAgrees, Agreed, ListDocument, VersionsOf, Uniform, SingleVersion
<1>2. /\ TypeOK /\ TypeOK' /\ WriterInv /\ WriterInv' /\ RefinementInv /\ RefinementInv'
      /\ ShowsCommitted /\ ShowsCommitted' /\ ViewAgrees /\ [Next]_vars
      => ViewAgrees'
  <2> SUFFICES ASSUME TypeOK, TypeOK', WriterInv, WriterInv', RefinementInv, RefinementInv',
                      ShowsCommitted, ShowsCommitted', ViewAgrees, [Next]_vars
               PROVE  ViewAgrees'
    OBVIOUS
  <2>1. CASE Atomic!Next
    BY <2>1, IndexKeepsAgreement DEF Refinable
  <2>2. CASE UNCHANGED <<CommittedDense, CommittedSparse>>
    BY <2>2 DEF ViewAgrees
  <2> QED
    BY <2>1, <2>2, StepIsAtomic
<1>3. TypeOK /\ ShowsCommitted /\ ViewAgrees => IdleVersionsAgree
  <2> SUFFICES ASSUME TypeOK, ShowsCommitted, ViewAgrees,
                      NEW d \in Docs, \A w \in Writers : ~ AtDocument(w, d)
               PROVE  VersionsOf(ListDocument(dense, d)) = VersionsOf(ListDocument(sparse, d))
    BY DEF IdleVersionsAgree
  <2>1. Unwritten(d)
    BY DEF Unwritten, Uncommitted, AtDocument
  <2> QED
    BY <2>1 DEF ShowsCommitted, ViewAgrees, Agreed
<1> QED
  BY <1>1, <1>2, <1>3, TypeCorrect, WriterInvariant, RefinementInvariant, ViewCommitted, PTL
     DEF Spec

=============================================================================
