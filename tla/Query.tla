-------------------------------- MODULE Query --------------------------------
(***************************************************************************)
(* LexRAGApplication.query: one question against the two stores, answered   *)
(* while a document is being indexed again.  The branches of the hybrid     *)
(* retriever run on two threads; each reads its store at one moment (the    *)
(* stores lock), and between the two readings the writer may take any of    *)
(* its steps.  A caller may put the reranker between the retriever and the  *)
(* context builder, which looks for its score; the application does not.    *)
(***************************************************************************)
EXTENDS ContextWindow

CONSTANTS
    Corpora,     \* the chunks both stores may hold when the question arrives
    Updates,     \* the chunks a document is indexed again with, <<>> for none
    Requests,    \* the questions, their limits and their filters
    Answers,     \* what the model may write
    Faulty       \* the parts that may fail: "dense", "sparse", "model"

ASSUME QueryAssumption ==
    /\ \A corpus \in Corpora : IsFiniteSet(corpus)
    /\ \A corpus \in Corpora : \A c, d \in corpus : c.id = d.id => c = d
    /\ \A new \in Updates : new \in Seq(ToSet(new))
    /\ \A held \in Corpora \cup {ToSet(new) : new \in Updates} :
            \A c \in held : {"id", "meta"} \subseteq DOMAIN c
    /\ \A asked \in Requests : asked.topK \in Nat /\ asked.filters \in Seq(ToSet(asked.filters))

VARIABLES
    dense,       \* the chunks of the Qdrant store
    sparse,      \* the chunks of the BM25 store
    update,      \* the chunks being indexed
    written,     \* how many of the writer's steps are done
    generator,   \* whether a generator is configured
    request,     \* the question asked
    pc,          \* where the call is
    denseBranch, \* what the dense retriever's thread came to
    sparseBranch,
    chunks,      \* what retrieval returned
    window,      \* the context window
    response     \* the outcome of the call

stores == <<dense, sparse, update, written>>
call == <<generator, request>>
vars == <<stores, call, pc, denseBranch, sparseBranch, chunks, window, response>>

Running == [state |-> "runs", hits |-> <<>>]
Found(hits) == [state |-> "done", hits |-> hits]
Failed(error) == [state |-> error, hits |-> <<>>]

NoWindow == FormatWindow(<<>>, <<>>)
Outcome(status) == [status |-> status, retrieved |-> <<>>]

Init ==
    /\ dense \in Corpora /\ sparse = dense
    /\ update \in Updates /\ written = 0
    /\ generator \in BOOLEAN
    /\ request \in Requests
    /\ pc = "called"
    /\ denseBranch = Running /\ sparseBranch = Running
    /\ chunks = <<>> /\ window = NoWindow /\ response = Outcome("none")

----------------------------------------------------------------------------
(* The call *)

Return(outcome) == pc' = "returned" /\ response' = outcome

\* _ensure_query_ready
EnsureReady ==
    /\ pc = "called"
    /\ IF generator THEN pc' = "searching" /\ UNCHANGED response
       ELSE Return(Outcome("unavailable"))
    /\ UNCHANGED <<stores, call, denseBranch, sparseBranch, chunks, window>>

IsBlank(question) == question = <<>>

\* What a branch can come to before it reads its store.
WithoutSearch(part) ==
    CASE IsBlank(request.question) -> {Found(<<>>)}
      [] FiltersRaise(request.filters) -> {Failed("value_error")}
      [] OTHER -> {Failed("failure") : p \in {part} \cap Faulty}

Searching(branch) == pc = "searching" /\ branch = Running

SearchesStore == ~IsBlank(request.question) /\ ~FiltersRaise(request.filters)

SearchDense ==
    /\ Searching(denseBranch)
    /\ \/ denseBranch' \in WithoutSearch("dense")
       \/ /\ SearchesStore
          /\ \E found \in Searches(dense, BackendFilters(request.filters), Limit) :
                denseBranch' = Found(DenseHits(found, request.filters))
    /\ UNCHANGED <<stores, call, pc, sparseBranch, chunks, window, response>>

SearchSparse ==
    /\ Searching(sparseBranch)
    /\ \/ sparseBranch' \in WithoutSearch("sparse")
       \/ /\ SearchesStore
          /\ \E found \in TextSearches(sparse, BackendFilters(request.filters), Limit,
                                       request.question) :
                sparseBranch' = Found(SparseHits(found, request.filters))
    /\ UNCHANGED <<stores, call, pc, denseBranch, chunks, window, response>>

\* The dense thread's error is the one raised when both threads fail.
FuseBranches ==
    /\ pc = "searching" /\ denseBranch # Running /\ sparseBranch # Running
    /\ CASE denseBranch.state # "done" ->
                Return(Outcome(denseBranch.state)) /\ UNCHANGED chunks
         [] denseBranch.state = "done" /\ sparseBranch.state # "done" ->
                Return(Outcome(sparseBranch.state)) /\ UNCHANGED chunks
         [] OTHER ->
                /\ chunks' = Materialize(Take(Fuse(denseBranch.hits, sparseBranch.hits),
                                              request.topK))
                /\ pc' = "retrieved" /\ UNCHANGED response
    /\ UNCHANGED <<stores, call, denseBranch, sparseBranch, window>>

RerankChunks ==
    /\ pc = "retrieved" /\ request.reranks
    /\ chunks' = Rerank(chunks, request.question, request.topK)
    /\ pc' = "reranked"
    /\ UNCHANGED <<stores, call, denseBranch, sparseBranch, window, response>>

BuildContext ==
    /\ pc = IF request.reranks THEN "reranked" ELSE "retrieved"
    /\ IF HasDuplicateIds(chunks)
       THEN Return(Outcome("value_error")) /\ UNCHANGED window
       ELSE /\ window' = BuildWindow(request.question, chunks)
            /\ pc' = "built" /\ UNCHANGED response
    /\ UNCHANGED <<stores, call, denseBranch, sparseBranch, chunks>>

\* A full response, whether the answer is valid or not.
Respond(answer) ==
    [status |-> "answered", retrieved |-> [i \in DOMAIN chunks |-> chunks[i].id],
     answer |-> answer, validation |-> Validate(answer, window), warnings |-> window.warnings]

Generate ==
    /\ pc = "built"
    /\ \/ "model" \in Faulty /\ Return(Outcome("failure"))
       \/ \E answer \in Answers :
            Return(IF ValidationFails(answer) THEN Outcome("value_error") ELSE Respond(answer))
    /\ UNCHANGED <<stores, call, denseBranch, sparseBranch, chunks, window>>

----------------------------------------------------------------------------
(* The writer's steps for one document that do not fail, in their order *)

OfDocument(c) == c.meta.doc_id = update[1].meta.doc_id

IdsIn(s) == {c.id : c \in ToSet(s)}

\* The chunks as a dict keyed by their ids keeps them: the last of each id.
LastOfEach(new) ==
    {new[i] : i \in {j \in DOMAIN new : \A k \in DOMAIN new : new[k].id = new[j].id => k <= j}}

Upsert(store, new) == {c \in store : c.id \notin IdsIn(new)} \cup LastOfEach(new)

\* Dense: the new chunks, then the stale ones; sparse: all of the document,
\* then the new ones.
Write ==
    /\ update # <<>> /\ written < 4
    /\ written' = written + 1
    /\ dense' = CASE written = 0 -> Upsert(dense, update)
                  [] written = 1 -> {c \in dense : OfDocument(c) => c.id \in IdsIn(update)}
                  [] OTHER -> dense
    /\ sparse' = CASE written = 2 -> {c \in sparse : ~OfDocument(c)}
                   [] written = 3 -> Upsert(sparse, update)
                   [] OTHER -> sparse
    /\ UNCHANGED <<update, call, pc, denseBranch, sparseBranch, chunks, window, response>>

\* A call that has returned rests, and so does a writer with nothing to do.
Rest ==
    /\ pc = "returned" /\ (update = <<>> \/ written = 4)
    /\ UNCHANGED vars

Next ==
    \/ EnsureReady \/ SearchDense \/ SearchSparse \/ FuseBranches
    \/ RerankChunks \/ BuildContext \/ Generate \/ Write \/ Rest

Spec == Init /\ [][Next]_vars

----------------------------------------------------------------------------
(* Properties *)

Labels == {"called", "searching", "retrieved", "reranked", "built", "returned"}
Errors == {"value_error", "failure"}

BranchOK(branch) ==
    /\ branch.state \in {"runs", "done"} \cup Errors
    /\ Len(branch.hits) <= Prefetch
    /\ \A i \in DOMAIN branch.hits : branch.hits[i].rank = i

\* Every variable of the call has its type: a branch never hands over more than
\* prefetch_k hits, ranked from 1, and retrieval never more than top_k chunks.
TypeOK ==
    /\ written \in 0..4 /\ generator \in BOOLEAN
    /\ request \in Requests /\ pc \in Labels
    /\ BranchOK(denseBranch) /\ BranchOK(sparseBranch)
    /\ Len(chunks) <= request.topK
    /\ ToSet(window.sources) \subseteq ToSet(Sources(chunks))
    /\ response.status \in {"none", "unavailable", "answered"} \cup Errors

\* A rank in one branch is as good as another; no rank is the worst.
AsGood(r, q) == q = None \/ (r # None /\ r <= q)

Dominates(id, other) ==
    LET d(x) == RankOf(x, denseBranch.hits) s(x) == RankOf(x, sparseBranch.hits) IN
    /\ AsGood(d(id), d(other)) /\ AsGood(s(id), s(other))
    /\ d(id) # d(other) \/ s(id) # s(other)

\* A filter that no later one of the same field replaces.
InForce(filters) ==
    {filters[i] : i \in {j \in DOMAIN filters :
        \A k \in DOMAIN filters : FieldOf(filters[k]) = FieldOf(filters[j]) => k <= j}}

BranchIds == {h.chunk.id : h \in ToSet(denseBranch.hits) \cup ToSet(sparseBranch.hits)}

\* Reciprocal-rank fusion never puts a chunk before, or keeps it instead of, one
\* that both branches rank at least as well and one of them better; an id
\* occurs once although the branches may have read different copies of it, and
\* every chunk satisfies the filters of the request, the store's and the rest,
\* also where a field is named under two names: the later filter is in force.
FusionFollowsBranches ==
    pc = "retrieved" /\ DenseWeight > 0 /\ SparseWeight > 0 =>
        LET ids == [i \in DOMAIN chunks |-> chunks[i].id] IN
        /\ IsInjective(ids)
        /\ Len(ids) = Min({request.topK, Cardinality(BranchIds)})
        /\ \A i, j \in DOMAIN ids : i < j => ~Dominates(ids[j], ids[i])
        /\ \A id \in BranchIds \ ToSet(ids), i \in DOMAIN ids : ~Dominates(id, ids[i])
        /\ \A c \in ToSet(chunks), f \in InForce(request.filters) :
                MatchesOperations(MetadataValue(c, FieldOf(f)), f.ops)

\* An answer that passes validation cites only numbers of the window, and a
\* reader who has the response can trace each of them: the number n stands for
\* the n-th retrieved chunk, and the source shown to the model under that
\* number is that chunk, with its document and page, however the context
\* builder dropped, ordered and trimmed the sources.
ValidAnswersTraceable ==
    response.status = "answered" /\ response.validation.valid =>
        \A n \in ToSet(References(response.answer)) :
            \E s \in ToSet(window.sources) :
                /\ s.citation.id = n
                /\ s.chunk.id = response.retrieved[n - StartId + 1]
                /\ s.citation.doc = s.chunk.meta.doc_id
                /\ s.citation.page = s.chunk.meta.page_start
                /\ \A t \in ToSet(window.sources) \ {s} : t.citation.id # n

WordsOf(sources) == UNION {ToSet(s.chunk.text) : s \in ToSet(sources)}

\* Trimming never loses a word of the question: what the sources cover before
\* compression the window covers too, and a window is over its budget only
\* when each source left is the only one for some word of the question.
TrimmingKeepsCoverage ==
    pc = "built" =>
        LET before == DeduplicateSources(Sources(chunks))
            words == ToSet(request.question)
        IN /\ words \cap WordsOf(before) \subseteq WordsOf(window.sources)
           /\ window.tokens > MaxTokens =>
                \A s \in ToSet(window.sources) : \E w \in words :
                    {t \in ToSet(window.sources) : w \in ToSet(t.chunk.text)} = {s}

=============================================================================
