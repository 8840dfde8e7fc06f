----------------------------- MODULE IndexChunks -----------------------------
(***************************************************************************)
(* Chunks, the two chunk stores of LexRAG and the pure decisions taken     *)
(* about them before a write.  A store (the dense Qdrant collection or the *)
(* sparse BM25 index) is a set of chunks in which an id occurs once.       *)
(*                                                                         *)
(* A chunk keeps what the write path tells apart:                          *)
(*   id   the deterministic chunk id, which contains the document id, so   *)
(*        that DocOf[id] is fixed                                          *)
(*   ver  metadata.document_version, NoVersion when the parser gave none   *)
(*   vec  the class of its embedding; Near holds the pairs whose cosine    *)
(*        similarity reaches within_document_similarity_threshold          *)
(***************************************************************************)
EXTENDS Naturals, Sequences, FiniteSets

CONSTANTS
    Docs,       \* the document ids
    Ids,        \* the chunk ids
    DocOf,      \* the document a chunk id belongs to
    Versions,   \* the version labels, NoVersion excluded
    NoVersion,  \* document_version is None
    Vecs,       \* the embedding classes
    Near        \* the pairs of embedding classes that count as duplicates

ASSUME ChunkAssumption ==
    /\ DocOf \in [Ids -> Docs]
    /\ NoVersion \notin Versions
    /\ Near \subseteq Vecs \X Vecs

Chunk == [id : Ids, ver : Versions \cup {NoVersion}, vec : Vecs]

-----------------------------------------------------------------------------
(* The storage backends. *)

IdsOf(chunks) == {c.id : c \in chunks}

\* Mutant: the metadata filter is not passed on.
ListEverything(store, d) == store

\* list_chunks with the metadata filter {"doc_id": d}
ListDocument(store, d) == {c \in store : DocOf[c.id] = d}

DeleteChunks(store, ids) == {c \in store : c.id \notin ids}

UpsertChunks(store, chunks) == DeleteChunks(store, IdsOf(chunks)) \cup chunks

-----------------------------------------------------------------------------
(* A batch: the chunks of one document in one call, in order. *)

IsBatch(b) ==
    /\ b \in Seq(Chunk) /\ b # << >>
    /\ \A i \in DOMAIN b : DocOf[b[i].id] = DocOf[b[1].id] /\ b[i].ver = b[1].ver
    /\ \A i, j \in DOMAIN b : b[i].id = b[j].id => i = j

BatchDoc(b) == DocOf[b[1].id]
BatchVersion(b) == b[1].ver
BatchChunks(b) == {b[i] : i \in DOMAIN b}

-----------------------------------------------------------------------------
(* VectorDeduplicator: a chunk is suppressed when another chunk of its     *)
(* document, of the same or of an unknown version, is similar enough.  The *)
(* best match reaches the threshold exactly when some candidate does.      *)

\* Mutant: the version of the candidate is not compared.
SameDocumentScope(chunk, candidate) == DocOf[candidate.id] = DocOf[chunk.id]

SameSuppressionScope(chunk, candidate) ==
    /\ DocOf[candidate.id] = DocOf[chunk.id]
    /\ \/ candidate.ver = chunk.ver
       \/ candidate.ver = NoVersion
       \/ chunk.ver = NoVersion

Suppresses(candidate, chunk) ==
    /\ candidate.id # chunk.id
    /\ SameSuppressionScope(chunk, candidate)
    /\ <<chunk.vec, candidate.vec>> \in Near

\* K holds the positions of b that survive when the chunks of b are taken in
\* order, each compared with the stored baseline and with the ones kept before.
IsKept(b, baseline, K) ==
    \A i \in DOMAIN b :
        i \in K <=> ~ \E c \in baseline \cup {b[j] : j \in {k \in K : k < i}} :
                          Suppresses(c, b[i])

\* Mutant: the version comparison is the wrong way round.
SameVersionChunks(existing, v) == {c \in existing : c.ver = v}

\* ReindexPlanner: the stored chunks of the document that a batch of version v
\* replaces.
StaleChunks(existing, v) ==
    IF v = NoVersion THEN {} ELSE {c \in existing : c.ver # v}
=============================================================================
