---------------------------- MODULE ContextWindow ----------------------------
(***************************************************************************)
(* How retrieved chunks become the numbered sources an answer may cite, and *)
(* how the answer is checked against them: citation resolution, the steps  *)
(* of the context builder (deduplicate, order, compress, detect conflicts) *)
(* and the validation of the generated text.                               *)
(*                                                                         *)
(* Documents and sections are numbered in the order of their names, 0 being *)
(* no section; qualities and confidences are percentages.                  *)
(***************************************************************************)
EXTENDS Retrieval

CONSTANTS
    StartId,        \* starting_citation_id
    MaxTokens,      \* max_context_tokens
    BlockOverlap,   \* block_overlap_threshold
    NearTexts,      \* the pairs of texts above near_duplicate_similarity_threshold
    Figures,        \* dates, amounts and percentages: a word to its kind
    ConflictCount   \* conflict_value_count_threshold

ASSUME ContextAssumption ==
    /\ {StartId, MaxTokens} \subseteq Nat \ {0}
    /\ BlockOverlap \in 0..100 /\ ConflictCount \in Nat \ {0, 1}

----------------------------------------------------------------------------
(* CitationResolver, CitationIdSequence, CitationConfidenceScorer *)

HasDuplicateIds(chunks) == Cardinality({c.id : c \in ToSet(chunks)}) # Len(chunks)

\* _document_catalog: a document is described by its first chunk.
Catalog(chunks) ==
    LET first(d) == SelectInSeq(chunks, LAMBDA c : c.meta.doc_id = d)
    IN [d \in {c.meta.doc_id : c \in ToSet(chunks)} |->
            [title |-> IF chunks[first(d)].path = "" THEN "document" ELSE chunks[first(d)].path,
             version |-> chunks[first(d)].version]]

Confidence(c, document) ==
    LET Signal(weight, holds) == IF holds THEN weight ELSE 0 IN
    Min({30 + Signal(15, c.meta.page_start >= 1)
            + Signal(15, document.title # "" \/ c.path # "")
            + Signal(15, c.section # 0) + Signal(10, c.anchor)
            + Signal(10, c.blocks # {}) + 5, 100})

CitedVersion(c, document) ==
    IF document.version # None THEN document.version ELSE c.version

Citations(chunks) ==
    [i \in DOMAIN chunks |->
        LET document == Catalog(chunks)[chunks[i].meta.doc_id] IN
        [id |-> StartId + i - 1, chunk |-> chunks[i].id,
         doc |-> chunks[i].meta.doc_id, page |-> chunks[i].meta.page_start,
         section |-> chunks[i].section, version |-> CitedVersion(chunks[i], document),
         blocks |-> chunks[i].blocks, confidence |-> Confidence(chunks[i], document)]]

----------------------------------------------------------------------------
(* LLMContextBuilder *)

Sources(chunks) ==
    [i \in DOMAIN chunks |->
        [chunk |-> chunks[i], citation |-> Citations(chunks)[i], score |-> chunks[i].score,
         quality |-> Max({chunks[i].meta.chunk_quality_score, 0}),
         tokens |-> Len(chunks[i].text)]]

SameBlockFamily(s, t) ==
    LET a == s.citation.blocks b == t.citation.blocks IN
    /\ a # {} /\ b # {}
    /\ 100 * Cardinality(a \cap b) >= BlockOverlap * Min({Cardinality(a), Cardinality(b)})

NearDuplicateText(s, t) ==
    s.chunk.text = t.chunk.text \/ {s.chunk.text, t.chunk.text} \in NearTexts

IsRedundant(s, existing) ==
    \E t \in existing : \/ s.chunk.id = t.chunk.id
                        \/ SameBlockFamily(s, t)
                        \/ NearDuplicateText(s, t)

DeduplicateSources(sources) ==
    FoldLeft(LAMBDA kept, s : IF IsRedundant(s, ToSet(kept)) THEN kept ELSE Append(kept, s),
             <<>>, sources)

\* Tuples are compared by their first difference.
TupleBefore(a, b) ==
    \E k \in DOMAIN a : a[k] < b[k] /\ \A j \in 1..(k - 1) : a[j] = b[j]

OrderKey(s) ==
    <<-s.score, s.citation.doc, s.citation.page, s.citation.section, s.citation.id>>

OrderSources(sources) == Sorted(sources, LAMBDA s, t : TupleBefore(OrderKey(s), OrderKey(t)))

TokenTotal(sources) == FoldLeft(LAMBDA acc, s : acc + s.tokens, 0, sources)

SupportCount(word, sources) ==
    Cardinality({i \in DOMAIN sources : word \in ToSet(sources[i].chunk.text)})

SoleSupport(s, question, sources) ==
    \E word \in ToSet(question) \cap ToSet(s.chunk.text) : SupportCount(word, sources) = 1

RemovalKey(s) == <<s.quality, s.score, -s.citation.id>>

WeakerThan(s, t) == TupleBefore(RemovalKey(s), RemovalKey(t))

\* Mutant: a source is protected only while it is the only one left.
RemovableAll(question, sources) ==
    IF Len(sources) > 1 THEN Sorted(sources, WeakerThan) ELSE <<>>

Removable(question, sources) ==
    Sorted(Those(sources, LAMBDA s : ~SoleSupport(s, question, sources)), WeakerThan)

\* One turn of the loop: over the budget, the weakest source goes that the
\* question's words can do without, if there is one.
RemoveWeakest(question, kept) ==
    LET removable == Removable(question, kept) IN
    IF TokenTotal(kept) > MaxTokens /\ removable # <<>>
    THEN RemoveFirst(kept, Head(removable)) ELSE kept

\* The loop turns once for each source at most, and changes nothing once it ended.
Compress(question, ordered) ==
    FoldLeft(LAMBDA kept, s : RemoveWeakest(question, kept), ordered, ordered)

\* The kinds of figures of which the sources give several values.
Conflicts(sources) ==
    LET values == {w \in UNION {ToSet(s.chunk.text) : s \in ToSet(sources)} : w \in DOMAIN Figures}
    IN {kind \in {Figures[w] : w \in values} :
            Cardinality({w \in values : Figures[w] = kind}) >= ConflictCount}

FormatWindow(question, sources) ==
    [question |-> question, sources |-> sources, tokens |-> TokenTotal(sources),
     documents |-> Cardinality({s.citation.doc : s \in ToSet(sources)}),
     warnings |-> Conflicts(sources)]

BuildWindow(question, chunks) ==
    FormatWindow(question,
        Compress(question, OrderSources(DeduplicateSources(Sources(chunks)))))

----------------------------------------------------------------------------
(* AnswerValidator, CitationReferenceParser, PIIDetector: an answer is the  *)
(* groups of numbers it cites in brackets and what else its text shows.     *)

CitationIds(window) == {s.citation.id : s \in ToSet(window.sources)}

References(answer) == FlattenSeq(answer.groups)

\* Mutant: any number up to the greatest one in the window is accepted.
InvalidBeyond(answer, window) ==
    {n \in ToSet(References(answer)) : \A id \in CitationIds(window) : n > id}

InvalidIds(answer, window) == ToSet(References(answer)) \ CitationIds(window)

\* A reference to 0 is refused by the schema of references, and raises.
ValidationFails(answer) == 0 \in ToSet(References(answer))

Validate(answer, window) ==
    [cited |-> ToSet(References(answer)) \cap CitationIds(window),
     orphans |-> InvalidIds(answer, window),
     uncited |-> CitationIds(window) \ ToSet(References(answer)),
     abstained |-> answer.abstains,
     valid |-> InvalidIds(answer, window) = {} /\ ~answer.private]

=============================================================================
