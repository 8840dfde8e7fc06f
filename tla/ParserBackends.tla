--------------------------- MODULE ParserBackends ---------------------------
(***************************************************************************)
(* What each parser of the chain makes of one file.  The file carries, on  *)
(* top of the facts FileIntake reads,                                      *)
(*   stem     its name without directory and extension: the document id    *)
(*   legal    an injected parser names a legal document type               *)
(*   layer    its pages have a text layer                                  *)
(*   items    its content in reading order, each item with its label,      *)
(*            text, heading level and page, whether Docling read it by     *)
(*            OCR, and how well OCR reads it                               *)
(* A result is the blocks of a parser, or the error it raises.             *)
(***************************************************************************)
EXTENDS ParsedBlocks, FileIntake

Numbered(name, n) == Append(name, ToString(n))

Blocks(seq) == [blocks |-> seq, error |-> <<>>]
Raises(type, message) == [blocks |-> <<>>, error |-> <<type, message>>]
OrRaise(seq, message) == IF seq = <<>> THEN Raises("RuntimeError", message) ELSE Blocks(seq)

Visible(items) == Those(items, LAMBDA item : item.text # <<>>)
OnPage(items, n) == Those(Visible(items), LAMBDA item : item.page = n)
TextOf(items) == FlattenSeq([i \in DOMAIN items |-> items[i].text])

----------------------------------------------------------------------------
(* Docling *)

TypeOfLabel(item) ==
    IF item.label \in {"title", "heading", "subtitle"} THEN "heading"
    ELSE IF item.label \in {"table", "list_item"} THEN item.label
    ELSE IF item.label # "caption" THEN "paragraph"
    ELSE IF Head(item.text) = "table" THEN "table_caption"
    ELSE IF Head(item.text) = "figure" THEN "image_caption" ELSE "caption"

\* A heading names its own section; any other label names the section.
SectionOfLabel(item) ==
    IF item.label \in {"", "heading"} THEN item.text
    ELSE IF item.label = "list_item" THEN <<"list", "item">> ELSE <<item.label>>

StructuredBlock(f, item, order) ==
    [BuildBlock(f, item.page, SectionOfLabel(item), item.text, order) EXCEPT
        !.type = TypeOfLabel(item), !.level = item.level,
        !.ocr = item.ocr, !.conf = item.conf, !.parse = item.conf]

\* One item the block model refuses discards the structure of the document.
Structured(f) ==
    LET items == Visible(f.items) IN
    IF \E item \in ToSet(items) : item.level \notin 1..6 \cup {None} THEN <<>>
    ELSE [i \in DOMAIN items |-> StructuredBlock(f, items[i], i)]

\* Without structure the exported text is cut before every second-level
\* heading; a document without text is exported as the name of its object.
MarkdownSections(f) ==
    LET Cut(parts, item) ==
            IF parts = <<>> \/ item.label = "heading" THEN Append(parts, item.text)
            ELSE [parts EXCEPT ![Len(parts)] = @ \o item.text]
        items == Visible(f.items)
        texts == IF items = <<>> THEN <<<<"object">>>> ELSE FoldLeft(Cut, <<>>, items)
    IN [i \in DOMAIN texts |->
            [BuildBlock(f, i, Numbered(<<"section">>, i), texts[i], 1) EXCEPT
                !.type = "section", !.level = 2]]

DoclingParse(f) ==
    Blocks(IF Structured(f) # <<>> THEN Structured(f) ELSE MarkdownSections(f))

----------------------------------------------------------------------------
(* PyMuPDF and Unstructured *)

\* A page without text is passed over.
PdfPages(f) ==
    LET pages == Those([n \in 1..f.pages |-> n],
                           LAMBDA n : f.layer /\ OnPage(f.items, n) # <<>>)
    IN [i \in DOMAIN pages |-> BuildBlock(f, pages[i], Numbered(<<"page">>, pages[i]),
                                          TextOf(OnPage(f.items, pages[i])), 1)]

\* The bytes of any other file are read as text, whatever they are.
RecoveredText(f) ==
    LET text == IF f.content \in {"text", "xml", "email"} THEN TextOf(f.items)
                ELSE <<"bytes">>
    IN IF text = <<>> THEN <<>> ELSE <<BuildBlock(f, 1, <<"page", "1">>, text, 1)>>

PymupdfParse(f) ==
    IF f.ext \in {"html", "htm"}
    THEN OrRaise(IF TextOf(f.items) = <<>> THEN <<>>
                 ELSE <<BuildBlock(f, 1, <<"html">>, TextOf(f.items), 1)>>, "empty html")
    ELSE IF f.content = "pdf" /\ f.pages = None THEN Raises("FileDataError", "cannot open")
    ELSE OrRaise(IF f.content = "pdf" THEN PdfPages(f) ELSE RecoveredText(f),
                 "no extractable text")

UnstructuredParse(f) ==
    LET items == f.items
        built == [i \in DOMAIN items |->
            IF items[i].text = <<>> THEN <<>>
            ELSE <<BuildBlock(f, 1, Numbered(<<"element">>, i), items[i].text, i)>>]
    IN OrRaise(FlattenSeq(built), "no blocks")

----------------------------------------------------------------------------
(* OCR *)

Readable(item) == item.conf # None

\* The words tesseract reads, grouped into lines with their mean confidence.
OcrLines(f, n) == Those(OnPage(f.items, n), Readable)

OcrBlocksOfPage(f, n) ==
    LET lines == OcrLines(f, n) IN
    [i \in DOMAIN lines |->
        [BuildBlock(f, n, Numbered(<<"ocr", "page">>, n), lines[i].text, i) EXCEPT
            !.ocr = TRUE, !.conf = lines[i].conf, !.parse = lines[i].conf]]

\* One page on which OCR finds nothing fails the whole file.
OcrParse(f) ==
    LET pages == [n \in 1..(IF f.ext = "pdf" THEN f.pages ELSE 1) |-> OcrBlocksOfPage(f, n)]
    IN IF f.ext \notin Image \cup {"pdf"} \/ <<>> \in ToSet(pages)
       THEN Raises("RuntimeError", "no usable text")
       ELSE OrRaise(FlattenSeq(pages), "no usable text")

----------------------------------------------------------------------------
(* ManualRecoveryParser never parses. *)

ParserResult(parser, f) ==
    CASE parser = "docling"         -> DoclingParse(f)
      [] parser = "pymupdf"         -> PymupdfParse(f)
      [] parser = "unstructured"    -> UnstructuredParse(f)
      [] parser = "ocr_only"        -> OcrParse(f)
      [] parser = "manual_recovery" -> Raises("RuntimeError", "manual recovery")

=============================================================================
