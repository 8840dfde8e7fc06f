----------------------------- MODULE ParserChain -----------------------------
(***************************************************************************)
(* DocumentParser: the route of a file, the chain of parsers that is tried *)
(* in order, and the provenance and confidence written on every block.     *)
(***************************************************************************)
EXTENDS ParserBackends

CONSTANTS
    ScannedChars,   \* scanned_pdf_min_chars_per_page
    ImageRatio,     \* image_heavy_page_ratio
    ImageChars      \* image_heavy_max_chars_per_page

ASSUME RoutingAssumption ==
    ScannedChars \in Nat /\ ImageRatio \in 0..100 /\ ImageChars \in Nat

----------------------------------------------------------------------------
(* ParserSelectionStrategy *)

Selection(order, ocr, reason) ==
    [order |-> order, primary |-> Head(order), ocr |-> ocr, reason |-> reason]

OcrFirst(reason) ==
    Selection(<<"ocr_only", "docling", "pymupdf", "unstructured">>, TRUE, reason)

HasPageStats(f) == f.pages \notin {None, 0}
IsScanned(f) == HasPageStats(f) /\ f.chars < ScannedChars
IsImageHeavy(f) == HasPageStats(f) /\ f.images >= ImageRatio /\ f.chars < ImageChars

Select(f) ==
    IF IsEncryptedPdf(f) THEN Selection(<<"manual_recovery">>, FALSE, "encrypted_pdf")
    ELSE IF DetectedType(f) = "image" THEN OcrFirst("image_document")
    ELSE IF DetectedType(f) # "pdf"
    THEN Selection(<<"pymupdf", "unstructured">>, FALSE, "secondary_only")
    ELSE IF IsScanned(f) THEN OcrFirst("scanned_pdf")
    ELSE IF IsImageHeavy(f)
    THEN Selection(<<"docling", "ocr_only", "pymupdf", "unstructured">>, TRUE, "image_heavy_pdf")
    ELSE Selection(<<"docling", "pymupdf", "unstructured", "ocr_only">>, FALSE, "native_pdf")

----------------------------------------------------------------------------
(* ParserChainExecutor *)

Classify(type, message) ==
    IF type = "ModuleNotFoundError" \/ message = "not installed" THEN "primary_dependency_missing"
    ELSE IF message \in {"empty content", "no extractable text"} THEN "primary_empty_output"
    ELSE IF type = "TimeoutError" THEN "primary_timeout"
    ELSE IF message \in {"manual recovery", "encrypted"} THEN "manual_recovery_required"
    ELSE "primary_parse_error"

\* A parser that raises and one that returns nothing both leave a failed attempt.
AttemptOf(parser, step, result) ==
    LET usable == result.blocks # <<>>
        error  == IF usable THEN <<"", "">>
                  ELSE IF result.error = <<>> THEN <<"RuntimeError", "returned nothing">>
                  ELSE result.error
    IN [parser |-> parser, step |-> step, ok |-> usable, blocks |-> Len(result.blocks),
        error |-> error,
        reason |-> IF usable THEN ""
                   ELSE IF result.error = <<>> THEN "primary_empty_output"
                   ELSE Classify(error[1], error[2])]

\* Mutant: a parser that returned nothing ends the chain as well.
FirstToReturn(order, result) ==
    SelectInSeq(order, LAMBDA p : result[p].error = <<>>)

\* result[p] is what parser p would make of the file.
FirstUsable(order, result) ==
    SelectInSeq(order, LAMBDA p : result[p].blocks # <<>>)

\* winner is 0 when no parser of the order was usable.
Outcome(selection, winner, attempts, blocks) ==
    LET used == IF winner = 0 THEN "manual_recovery" ELSE selection.order[winner] IN
    [attempts |-> attempts, blocks |-> blocks, selection |-> selection, used |-> used,
     fallback |-> IF winner = 1 THEN "" ELSE used,
     ocr |-> IF used = "ocr_only" THEN used ELSE "",
     manual |-> winner = 0]

\* The chain stops at the first parser that returns blocks.
Execute(selection, result) ==
    LET order  == selection.order
        winner == FirstUsable(order, result)
        tried  == IF winner = 0 THEN Len(order) ELSE winner
    IN Outcome(selection, winner, [i \in 1..tried |-> AttemptOf(order[i], i, result[order[i]])],
               IF winner = 0 THEN <<>> ELSE result[order[winner]].blocks)

----------------------------------------------------------------------------
(* ParseConfidenceScorer and ParserProvenanceAnnotator *)

Bound(score) == IF score < 0 THEN 0 ELSE IF score > 100 THEN 100 ELSE score

UsedFallback(selection, attempts) ==
    LET good == Those(attempts, LAMBDA a : a.ok)
    IN good = <<>> \/ Head(good).parser # selection.primary

Confidence(selection, attempts, blocks) ==
    LET points(n, holds) == IF holds THEN n ELSE 0 IN
    Bound(30 + points(40, ~selection.ocr)
             + points(20, \E b \in ToSet(blocks) : b.type = "table")
             + points(20, \E b \in ToSet(blocks) : b.level # None)
             - points(30, selection.ocr)
             - points(20, UsedFallback(selection, attempts)))

\* The reason on the blocks is classified again, from the message of the first
\* failed attempt under another exception type.
FallbackReason(attempts) ==
    LET failed == Those(attempts, LAMBDA a : ~a.ok)
    IN IF failed = <<>> THEN "" ELSE Classify("RuntimeError", Head(failed).error[2])

Annotate(result) ==
    LET score == Confidence(result.selection, result.attempts, result.blocks) IN
    [result EXCEPT !.blocks = [i \in DOMAIN @ |->
        [@[i] EXCEPT !.parse = score, !.fallback = result.fallback # ""]]]

\* DocumentParser.parse_loaded_file, for a file that was accepted.  The blocks
\* of a parser from outside the project may be malformed, and nothing catches
\* the error then.
ParseFile(f, result) == Annotate(Execute(Select(f), result))

=============================================================================
