--------------------------- MODULE BlockCuration ---------------------------
(***************************************************************************)
(* What happens to the parsed blocks of one document before they are cut   *)
(* into chunks: BlockNormalizer, BlockDeduplicator, BlockQualityValidator. *)
(* All three are pure, so they are operators from block lists to block     *)
(* lists; RagPipeline runs them as stages of an ingest.                    *)
(*                                                                         *)
(* A token is a word, a number, a symbol or a whole line the cleaner knows *)
(* (an artifact or a banner).                                              *)
(***************************************************************************)
EXTENDS ParsedBlocks

CONSTANTS
    Symbols,          \* tokens without a letter or a digit
    Numbers,          \* tokens of digits
    Shorts,           \* tokens of fewer than three characters
    Stops,            \* tokens that end a sentence
    Artifacts,        \* page numbers, export notices, scanner noise
    Banners,          \* confidentiality lines
    DefaultSection,   \* default_section_title
    HeadingMaxWords,  \* heading_max_words
    SentenceLimit,    \* heading_sentence_like_char_limit, in tokens
    OcrReject,        \* ocr_reject_threshold
    NearDuplicate,    \* near_duplicate_threshold
    LegalSensitive,   \* legal_sensitive_threshold
    RepeatedPages,    \* repeated_pattern_min_pages
    HeaderCutoff,     \* header_footer_order_cutoff
    BoilerplateRatio, \* boilerplate_unique_token_ratio
    MinTokens,        \* BlockQualityConfig.min_tokens
    LowOcr,           \* low_ocr_confidence_threshold
    JunkRatio,        \* junk_symbol_ratio_threshold
    AnomalyTokens,    \* truncated_block_min_chars, in tokens
    AlphaRatio,       \* parser_alpha_ratio_threshold
    DigitRatio        \* parser_digit_ratio_threshold

ASSUME ThresholdsAssumption ==
    /\ {OcrReject, NearDuplicate, LegalSensitive, BoilerplateRatio,
        LowOcr, JunkRatio, AlphaRatio, DigitRatio} \subseteq 0..100
    /\ RepeatedPages \in Nat \ {0, 1} /\ HeaderCutoff \in Nat
    /\ {MinTokens, HeadingMaxWords, SentenceLimit, AnomalyTokens} \subseteq Nat \ {0}
    /\ DefaultSection \in Seq(STRING) \ {<<>>}

Protected == {"code", "code_block", "legal_citation", "table", "math_formula"}
LegalBlockTypes == {"clause", "section"}

----------------------------------------------------------------------------
(* Texts *)

WordsOf(text) == Those(text, LAMBDA t : t \notin Symbols)
TokenSet(text) == ToSet(text) \ Symbols

\* part / whole >= percent / 100, for a whole that is not zero.
AtLeast(part, whole, percent) == part * 100 >= percent * whole

Either(text, fallback) == IF text # <<>> THEN text ELSE fallback

----------------------------------------------------------------------------
(* BlockNormalizer: the chain of normalizers, in their order *)

CleanArtifacts(b) ==
    IF b.type \in Protected THEN b
    ELSE [b EXCEPT !.text = Those(@, LAMBDA t :
            t \notin Artifacts /\ (t \in Banners => b.legal))]

IsHeadingCandidate(b) == b.type \in {"heading", "section"} \/ b.level # None

HeadingText(b) == Either(b.text, Either(b.section, DefaultSection))

\* A candidate is demoted only when the parser gave it no level.
IsDemoted(b) ==
    LET title == HeadingText(b) IN
    /\ b.level = None
    /\ \/ Len(title) > HeadingMaxWords
       \/ Len(title) > SentenceLimit /\ Last(title) \in Stops

NormalizeHeading(b) ==
    IF ~IsHeadingCandidate(b) THEN b
    ELSE IF IsDemoted(b)
    THEN [b EXCEPT !.type = "paragraph", !.text = HeadingText(b),
                   !.section = Either(@, DefaultSection)]
    ELSE [b EXCEPT !.type = "heading", !.text = HeadingText(b),
                   !.section = HeadingText(b),
                   !.level = IF @ = None THEN 1 ELSE @]

\* Mutant: a heading stays open below another of its own level.
SiblingsStayOpen(stack, level) ==
    SubSeq(stack, 1, SelectLastInSeq(stack, LAMBDA s : s[1] <= level))

\* The open sections are a stack of <<level, name>>; a heading closes every
\* section at its level or deeper.
OpenSections(stack, level) ==
    SubSeq(stack, 1, SelectLastInSeq(stack, LAMBDA s : s[1] < level))

Names(stack) == [i \in DOMAIN stack |-> stack[i][2]]

StackAfter(stack, b) ==
    IF b.type = "heading"
    THEN Append(OpenSections(stack, b.level), <<b.level, b.section>>)
    ELSE stack

PlaceInSection(stack, b) ==
    IF b.type = "heading"
    THEN [b EXCEPT !.parents = Names(OpenSections(stack, b.level))]
    ELSE [b EXCEPT !.parents = Names(stack),
                   !.section = Either(@, IF stack = <<>> THEN DefaultSection
                                         ELSE Last(stack)[2])]

NormalizeCode(b) == IF b.type = "code" THEN [b EXCEPT !.type = "code_block"] ELSE b

\* A table of several rows (one token each) gets a divider row.
Divider == "divider"
NormalizeTable(b) ==
    IF b.type = "table" /\ Len(b.text) > 1
    THEN [b EXCEPT !.text = <<Head(@), Divider>> \o Tail(@)]
    ELSE b

RejectedByOcr(b) == b.ocr /\ b.conf # None /\ b.conf < OcrReject

\* Too short to keep.  A heading is exempt here, and its text is never empty.
RejectedAsText(b) ==
    b.type # "heading" /\ (b.text = <<>> \/ (Len(b.text) = 1 /\ b.text[1] \in Shorts))

\* Only the blocks that got this far are numbered.
Enrich(b, index) == [b EXCEPT !.index = index]

\* The heading of a block that OCR rejects stays on the stack: the section is
\* placed before the confidence is looked at.
Normalize(blocks) ==
    LET Step(acc, raw) ==
            LET titled == NormalizeHeading(CleanArtifacts(raw))
                placed == NormalizeTable(NormalizeCode(PlaceInSection(acc.stack, titled)))
            IN [stack |-> StackAfter(acc.stack, titled),
                kept  |-> IF RejectedByOcr(placed) \/ RejectedAsText(placed)
                          THEN acc.kept
                          ELSE Append(acc.kept, Enrich(placed, Len(acc.kept)))]
    IN FoldLeft(Step, [stack |-> <<>>, kept |-> <<>>], blocks).kept

----------------------------------------------------------------------------
(* BlockDeduplicator *)

\* Whitespace and case are all a signature ignores.
Signature(b) == b.text

IsHeaderCandidate(b) == b.order # None /\ b.order <= HeaderCutoff

\* The texts found at the top of enough pages.
RepeatedPatterns(blocks) ==
    LET candidates == {b \in ToSet(blocks) : IsHeaderCandidate(b)}
        pages(s) == {b.page : b \in {c \in candidates : Signature(c) = s}}
    IN {s \in {Signature(b) : b \in candidates} :
            Cardinality(pages(s)) >= RepeatedPages}

IsBoilerplate(b) ==
    LET words == WordsOf(b.text) IN
    words = <<>> \/ 100 * Cardinality(ToSet(words)) <= BoilerplateRatio * Len(words)

\* Jaccard similarity as <<part, whole>>; two empty sets are alike.
Similarity(b, c) ==
    LET s == TokenSet(b.text) t == TokenSet(c.text) IN
    IF s = {} /\ t = {} THEN <<1, 1>>
    ELSE <<Cardinality(s \cap t), Cardinality(s \cup t)>>

Alike(b, c, percent) ==
    LET r == Similarity(b, c) IN AtLeast(r[1], r[2], percent)

MoreAlike(b, c, d) ==
    LET r == Similarity(b, c) q == Similarity(b, d) IN r[1] * q[2] > q[1] * r[2]

\* The first of the kept blocks that are the most alike, 0 when none is near.
BestNearDuplicate(b, kept) ==
    LET near == {i \in DOMAIN kept : Alike(b, kept[i], NearDuplicate)}
        best == {i \in near : \A j \in near : ~MoreAlike(b, kept[j], kept[i])}
    IN IF near = {} THEN 0 ELSE Min(best)

\* A clause of a contract or a statute survives unless it is almost equal.
BypassesAsLegal(b, earlier) ==
    /\ b.legal /\ b.type \in LegalBlockTypes
    /\ ~Alike(b, earlier, LegalSensitive)

Drop(method, of) == [method |-> method, of |-> of]

Decision(b, recurring, kept) ==
    LET repeats == Signature(b) \in recurring
        exact == SelectInSeq(kept, LAMBDA k : Signature(k) = Signature(b))
        near  == BestNearDuplicate(b, kept)
    IN IF repeats /\ IsHeaderCandidate(b) THEN Drop("repeated_header_footer", None)
       ELSE IF repeats /\ IsBoilerplate(b) THEN Drop("boilerplate", None)
       ELSE IF exact # 0 THEN Drop("exact_hash", kept[exact].id)
       ELSE IF near # 0 /\ ~BypassesAsLegal(b, kept[near])
       THEN Drop("near_duplicate", kept[near].id)
       ELSE [method |-> "kept", of |-> None]

\* Mutant: a block is compared with the dropped blocks as well.
ComparesWithAll(blocks) ==
    LET recurring == RepeatedPatterns(blocks)
        Step(acc, b) ==
            LET d == Decision(b, recurring, acc.seen) IN
            [decisions |-> Append(acc.decisions, d), seen |-> Append(acc.seen, b),
             kept |-> IF d.method = "kept" THEN Append(acc.kept, b) ELSE acc.kept]
    IN FoldLeft(Step, [decisions |-> <<>>, seen |-> <<>>, kept |-> <<>>], blocks)

\* The report has one decision per block, in the order of the blocks.
DeduplicateReport(blocks) ==
    LET recurring == RepeatedPatterns(blocks)
        Step(acc, b) ==
            LET d == Decision(b, recurring, acc.kept) IN
            [decisions |-> Append(acc.decisions, d),
             kept |-> IF d.method = "kept" THEN Append(acc.kept, b) ELSE acc.kept]
    IN FoldLeft(Step, [decisions |-> <<>>, kept |-> <<>>], blocks)

Deduplicate(blocks) == DeduplicateReport(blocks).kept

----------------------------------------------------------------------------
(* BlockQualityValidator *)

\* "code" is exempt and "code_block", the normalizer's name for it, is not.
IsMicroBlock(b) ==
    b.type \notin {"heading", "table", "code"} /\ Len(WordsOf(b.text)) < MinTokens

IsLowOcrBlock(b) == b.ocr /\ b.conf # None /\ b.conf < LowOcr

CountIn(text, S) == Len(SelectSeq(text, LAMBDA t : t \in S))

IsJunkText(b) == AtLeast(CountIn(b.text, Symbols), Len(b.text), JunkRatio)

IsParserAnomaly(b) ==
    LET digits == CountIn(b.text, Numbers)
        alphas == Len(WordsOf(b.text)) - digits
    IN /\ b.type \notin {"table", "code", "code_block", "heading"}
       /\ Len(b.text) >= AnomalyTokens
       /\ ~AtLeast(alphas, Len(b.text), AlphaRatio)
       /\ ~AtLeast(digits, Len(b.text), DigitRatio)

FailsQuality(b) ==
    b.text = <<>> \/ IsMicroBlock(b) \/ IsLowOcrBlock(b)
                  \/ IsJunkText(b) \/ IsParserAnomaly(b)

\* A text dropped once is dropped wherever it appears again, whatever its type.
Validate(blocks) ==
    LET Step(acc, b) ==
            IF Signature(b) \in acc.dropped \/ FailsQuality(b)
            THEN [acc EXCEPT !.dropped = @ \cup {Signature(b)}]
            ELSE [acc EXCEPT !.kept = Append(@, b)]
    IN FoldLeft(Step, [dropped |-> {}, kept |-> <<>>], blocks).kept

----------------------------------------------------------------------------
(* NormalizedBlockPipeline is imported by the chunkers and is not in the     *)
(* repository; they build it from a deduplicator and a validator.           *)
Prepare(blocks) == Validate(Deduplicate(blocks))

=============================================================================
