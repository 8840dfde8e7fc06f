----------------------------- MODULE AtomicIndex -----------------------------
(***************************************************************************)
(* What the coordinated writer promises: indexing a document is one step   *)
(* that changes both stores, for that document only, or does not happen.   *)
(* The new content of a document is a function of what it held and of the  *)
(* batch: in the sparse store the batch itself; in the dense store what    *)
(* deduplication keeps of the batch, over the chunks that are not stale.   *)
(***************************************************************************)
EXTENDS IndexChunks

CONSTANT Batches    \* the document batches that may be indexed

VARIABLES dense, sparse

Init == dense = {} /\ sparse = {}

DenseResult(b, K) ==
    LET held == ListDocument(dense, BatchDoc(b))
        kept == {b[i] : i \in K}
    IN  IF kept = {}
        THEN dense
        ELSE DeleteChunks(UpsertChunks(dense, kept),
                          IdsOf(StaleChunks(held, BatchVersion(b))))

SparseResult(b) ==
    (sparse \ ListDocument(sparse, BatchDoc(b))) \cup BatchChunks(b)

IndexDocument(b) ==
    /\ \E K \in SUBSET DOMAIN b :
          /\ IsKept(b, ListDocument(dense, BatchDoc(b)), K)
          /\ dense' = DenseResult(b, K)
    /\ sparse' = SparseResult(b)

Next == \E b \in Batches : IndexDocument(b)

Spec == Init /\ [][Next]_<<dense, sparse>>
=============================================================================
