------------------------------ MODULE Retrieval ------------------------------
(***************************************************************************)
(* How the chunks of the two stores become one ranked list: the metadata   *)
(* filters, the dense and the sparse retriever, reciprocal-rank fusion and *)
(* the reranker.                                                           *)
(*                                                                         *)
(* A stored chunk is a record with its id, its text (a sequence of words), *)
(* its similarity sim to the question and its metadata meta, the fields    *)
(* filters speak of.  Loops over sequences are written as folds.           *)
(***************************************************************************)
EXTENDS Lists

CONSTANTS
    Prefetch,      \* prefetch_k
    Pool,          \* candidate_pool_size of both branches
    RrfK,          \* rrf_k
    DenseWeight,   \* dense_weight
    SparseWeight,  \* sparse_weight
    Alias          \* _FILTER_ALIASES: the public name of a field to its own

ASSUME RetrievalAssumption ==
    /\ {Prefetch, Pool, RrfK} \subseteq Nat \ {0}
    /\ DenseWeight \in Nat /\ SparseWeight \in Nat

----------------------------------------------------------------------------
(* filtering: a filter is a field with its operators and their operands.    *)
(* A bare value is written as the operator eq, to which it is equivalent.   *)

Operators == {"eq", "in", "gt", "gte", "lt", "lte"}

FieldOf(filter) ==
    IF filter.field \in DOMAIN Alias THEN Alias[filter.field] ELSE filter.field

FiltersRaise(filters) == \E f \in ToSet(filters) : ~(DOMAIN f.ops \subseteq Operators)

IsEquality(ops) == DOMAIN ops = {"eq"}

\* A store compares for equality only; a field named twice keeps the later value.
BackendFilters(filters) ==
    FoldLeft(LAMBDA acc, f :
                IF IsEquality(f.ops) THEN Updated(acc, [field \in {FieldOf(f)} |-> f.ops["eq"]]) ELSE acc,
             <<>>, filters)

ResidualFilters(filters) ==
    FoldLeft(LAMBDA acc, f :
                IF IsEquality(f.ops) THEN acc ELSE Updated(acc, [field \in {FieldOf(f)} |-> f.ops]),
             <<>>, filters)

MetadataValue(c, field) == IF field \in DOMAIN c.meta THEN c.meta[field] ELSE None

Compare(value, op, operand) ==
    /\ value # None
    /\ CASE op = "gt"  -> value > operand
         [] op = "gte" -> value >= operand
         [] op = "lt"  -> value < operand
         [] op = "lte" -> value <= operand

MatchesOperations(value, ops) ==
    \A op \in DOMAIN ops :
        CASE op = "in" -> value \in ops[op]
          [] op = "eq" -> value = ops[op]
          [] OTHER -> Compare(value, op, ops[op])

MatchesResidual(c, residual) ==
    \A field \in DOMAIN residual : MatchesOperations(MetadataValue(c, field), residual[field])

MatchesBackend(c, backend) ==
    \A field \in DOMAIN backend : MetadataValue(c, field) = backend[field]

----------------------------------------------------------------------------
(* The two branches *)

\* A store orders what matches by scores of its own, which are left open, and
\* returns the first.
Searches(store, backend, limit) ==
    {Take(s, limit) : s \in SetToSeqs({c \in store : MatchesBackend(c, backend)})}

\* An index that searches the text for words finds no chunk without one.
TextSearches(store, backend, limit, question) ==
    Searches(store, backend, limit)
    \cup Searches({c \in store : ToSet(c.text) \cap ToSet(question) # {}}, backend, limit)

Limit == Max({Prefetch, Pool})

Ranked(chunks) == [i \in DOMAIN chunks |-> [chunk |-> chunks[i], rank |-> i]]

Filtered(candidates, filters) ==
    Those(candidates, LAMBDA c : MatchesResidual(c, ResidualFilters(filters)))

\* Mutant: every candidate is a hit.
DenseHitsUncut(candidates, filters) ==
    Ranked(Sorted(Filtered(candidates, filters), LAMBDA c, d : c.sim > d.sim))

DenseHits(candidates, filters) ==
    Ranked(Take(Sorted(Filtered(candidates, filters), LAMBDA c, d : c.sim > d.sim), Prefetch))

SparseHits(candidates, filters) ==
    Ranked(Take(Filtered(candidates, filters), Prefetch))

----------------------------------------------------------------------------
(* Reciprocal-rank fusion.  Scores are multiplied by a common denominator.  *)

Denominator ==
    FoldLeft(LAMBDA product, factor : product * factor, 1, [r \in 1..Prefetch |-> RrfK + r])

\* Mutant: a chunk earns the more the further behind it is.
ShareOfRank(weight, rank) == weight * (RrfK + rank)

Share(weight, rank) == weight * (Denominator \div (RrfK + rank))

HitsOf(id, hits) == Those(hits, LAMBDA h : h.chunk.id = id)

\* The rank dict comprehension keeps the last hit of an id, None when it has none.
RankOf(id, hits) ==
    IF HitsOf(id, hits) = <<>> THEN None ELSE Last(HitsOf(id, hits)).rank

Earned(id, hits, weight) ==
    FoldLeft(LAMBDA acc, h : acc + Share(weight, h.rank), 0, HitsOf(id, hits))

\* The first copy of each id, the dense branch before the sparse one.
Payloads(dense, sparse) ==
    FoldLeft(LAMBDA acc, h : IF \E p \in ToSet(acc) : p.id = h.chunk.id THEN acc
                             ELSE Append(acc, h.chunk),
             <<>>, dense \o sparse)

Fuse(dense, sparse) ==
    LET scored == [i \in DOMAIN Payloads(dense, sparse) |->
                    LET c == Payloads(dense, sparse)[i] IN
                    [chunk |-> c,
                     score |-> Earned(c.id, dense, DenseWeight) + Earned(c.id, sparse, SparseWeight),
                     dense |-> RankOf(c.id, dense), sparse |-> RankOf(c.id, sparse)]]
        sorted == Sorted(scored, LAMBDA h, g : h.score > g.score)
    IN [i \in DOMAIN sorted |-> Updated(sorted[i], [rank |-> i])]

\* materialize_hits: the chunk keeps the ranks and the score it was found with.
Materialize(hits) ==
    [i \in DOMAIN hits |->
        Updated(hits[i].chunk, [score |-> hits[i].score, rank |-> hits[i].rank,
                                dense |-> hits[i].dense, sparse |-> hits[i].sparse])]

----------------------------------------------------------------------------
(* TokenOverlapReranker *)

OverlapScore(c, question) == Cardinality(ToSet(c.text) \cap ToSet(question))

PromotedBefore(c, d) == c.score > d.score \/ (c.score = d.score /\ c.rank < d.rank)

\* The share of the question's words in a text; ties keep the retrieval rank.
Rerank(chunks, question, limit) ==
    LET scored == [i \in DOMAIN chunks |->
                    [chunks[i] EXCEPT !.score = OverlapScore(chunks[i], question)]]
        best == Take(Sorted(scored, PromotedBefore), limit)
    IN IF question = <<>> THEN <<>> ELSE best

=============================================================================
