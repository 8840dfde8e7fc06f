------------------------------ MODULE Embedding ------------------------------
(***************************************************************************)
(* The text a chunk is embedded by, the batches in which texts that are    *)
(* not cached are sent to the model, and the duplicates found among the    *)
(* embedded chunks.  A vector tells the text it was made of, and nothing   *)
(* else: what matters is which text a vector belongs to.                   *)
(***************************************************************************)
EXTENDS Chunking

CONSTANTS
    MaxEmbedding,    \* max_embedding_tokens
    Truncates,       \* truncate_over_budget
    RowLimit,        \* table_row_limit
    BatchSize,       \* batch_size
    MaxRetries,      \* max_retries
    VectorDuplicate  \* within_document_similarity_threshold

ASSUME EmbeddingAssumption ==
    /\ {MaxEmbedding, RowLimit, BatchSize, MaxRetries} \subseteq Nat \ {0}
    /\ Truncates \in BOOLEAN /\ VectorDuplicate \in 0..100

----------------------------------------------------------------------------
(* EmbeddingTextBuilder, TableEmbeddingSerializer *)

ContextLabel(c) == Either(c.anchor, Either(FlattenSeq(c.path), c.title))

\* Divider rows are dropped and only the first rows are kept.
TableRows(text) ==
    LET rows == SelectSeq(text, LAMBDA row : row # Divider)
    IN IF rows = <<>> THEN text ELSE SubSeq(rows, 1, Min({RowLimit, Len(rows)}))

EmbeddingText(c) ==
    CASE c.type = "table" -> <<"[table]">> \o ContextLabel(c) \o TableRows(c.text)
      [] c.type = "code"  -> <<"[code]">> \o c.text
      [] c.type = "list"  -> <<"[section]">> \o ContextLabel(c) \o c.text
      [] OTHER -> IF ContextLabel(c) = <<>> THEN c.text
                  ELSE <<"[heading]">> \o ContextLabel(c) \o c.text

----------------------------------------------------------------------------
(* EmbeddingPreparationService *)

IsOverBudget(c) == Len(EmbeddingText(c)) > MaxEmbedding

PreparationRaises(chunks) == ~Truncates /\ \E c \in ToSet(chunks) : IsOverBudget(c)

PrepareChunks(chunks) ==
    [i \in DOMAIN chunks |->
        LET text == EmbeddingText(chunks[i]) IN
        Updated(chunks[i], [embedding |-> Take(text, MaxEmbedding),
                            truncated |-> IsOverBudget(chunks[i])])]

----------------------------------------------------------------------------
(* EmbeddingGenerator, EmbeddingCache *)

VectorOf(text) == <<text>>
NoVector == <<>>
WrongSize == <<"wrong", "size">>

\* The vectors the cache has for the texts.
CachedVectors(texts, cache) ==
    [i \in DOMAIN texts |-> IF texts[i] \in DOMAIN cache THEN cache[texts[i]] ELSE NoVector]

Missing(vectors) == Those([i \in DOMAIN vectors |-> i], LAMBDA i : vectors[i] = NoVector)

NextBatch(vectors) == Take(Missing(vectors), BatchSize)

TextsAt(texts, batch) == [k \in DOMAIN batch |-> texts[batch[k]]]

\* What the model may answer for the texts of a batch: their vectors, one of the
\* wrong size among them, or one too few.
Answers(texts) ==
    LET right == [k \in DOMAIN texts |-> VectorOf(texts[k])] IN
    {right} \cup {[right EXCEPT ![k] = WrongSize] : k \in DOMAIN texts} \cup {Front(right)}

\* Mutant: one attempt too many.
OneMoreAttempt(attempt) == attempt <= MaxRetries

HasAttemptsLeft(attempt) == attempt < MaxRetries

\* Mutant: the size of the vectors is not looked at.
AnySize(answer) == answer # <<>>

IsValidAnswer(answer) == WrongSize \notin ToSet(answer)

\* Mutant: the vectors reach the cache and not their places.
FillsNothing(vectors, batch, answer) == vectors

\* The vectors are paired with the places of the batch until one list ends.
Fill(vectors, batch, answer) ==
    [i \in DOMAIN vectors |->
        LET k == SelectInSeq(batch, LAMBDA j : j = i)
        IN IF k \in DOMAIN answer THEN answer[k] ELSE vectors[i]]

CacheWith(cache, texts, batch, answer) ==
    Updated(cache, [t \in {texts[batch[k]] : k \in DOMAIN answer} |->
                        answer[Max({k \in DOMAIN answer : texts[batch[k]] = t})]])

----------------------------------------------------------------------------
(* EmbeddingService and VectorDeduplicator, as RAGPipeline calls them: no    *)
(* stored chunks are compared, and no chunk has a version.                  *)

AttachVectors(chunks, vectors) ==
    [i \in DOMAIN chunks |-> Updated(chunks[i], [vector |-> vectors[i]])]

SuppressedBy(c, candidate) ==
    /\ candidate.id # c.id /\ candidate.doc = c.doc
    /\ Alike([text |-> c.vector[1]], [text |-> candidate.vector[1]], VectorDuplicate)

DeduplicateVectors(chunks) ==
    FoldLeft(LAMBDA kept, c :
                IF \E k \in ToSet(kept) : SuppressedBy(c, k) THEN kept ELSE Append(kept, c),
             <<>>, chunks)

=============================================================================
