---------------------------- MODULE ParsedBlocks ----------------------------
(***************************************************************************)
(* The block every parser emits and every later stage rewrites.            *)
(*                                                                         *)
(* A text is a sequence of tokens and so is a section name; the empty text *)
(* stands for a missing name.  Ratios and confidences are percentages.     *)
(***************************************************************************)
EXTENDS Lists, TLC

\* The id is made of the file's stem, the place of the block and its text.
BuildBlock(f, page, section, text, order) ==
    [id |-> [doc |-> f.stem, page |-> page, order |-> order, text |-> text],
     doc |-> f.stem, legal |-> f.legal, type |-> "paragraph", text |-> text,
     level |-> None, section |-> section, page |-> page, order |-> order,
     ocr |-> FALSE, conf |-> None, parse |-> None, fallback |-> FALSE,
     parents |-> <<>>, index |-> None]

=============================================================================
