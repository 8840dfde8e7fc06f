---------------------------- MODULE MCRagPipeline ----------------------------
(***************************************************************************)
(* The files RagPipeline is checked on: the two-item documents over a few  *)
(* items, longer documents made for one rule each, and the files that are  *)
(* routed or refused differently.                                          *)
(***************************************************************************)
EXTENDS RagPipeline

Item(label, text, level, page) ==
    [label |-> label, text |-> text, level |-> level, page |-> page,
     ocr |-> FALSE, conf |-> 90]

Read(item, conf) == [item EXCEPT !.ocr = TRUE, !.conf = conf]

Intro  == Item("heading", <<"intro">>, 1, 1)
Part   == Item("heading", <<"part", "two">>, 2, 1)
Title  == Item("title", <<"why", "this", "end">>, None, 1)
Ab     == Item("text", <<"a", "b">>, None, 1)
Abc    == Item("text", <<"a", "b", "c">>, None, 2)
Bcd    == Item("text", <<"b", "c", "d">>, None, 2)
Rest   == Item("text", <<"x", "y">>, None, 2)
Long   == Item("text", <<"a", "c", "end", "d", "e", "f">>, None, 2)
Table  == Item("table", <<"head", "row", "last">>, None, 1)
Entry  == Item("list_item", <<"one", "two">>, None, 2)
Footer == Item("text", <<"page-no">>, None, 2)
Banner == Item("text", <<"secret", "a", "b">>, None, 1)
Noise  == Item("text", <<"%", "7", "%", "w">>, None, 1)
Deep   == Item("heading", <<"deep">>, 9, 1)
Figure == Item("caption", <<"figure", "one">>, None, 1)
Smudge == Read(Item("heading", <<"faint">>, 1, 1), 30)
Scrawl == Read(Ab, 50)

Document(name, items) ==
    [path |-> name, stem |-> "doc", ext |-> "pdf", legal |-> FALSE,
     found |-> TRUE, link |-> FALSE, rooted |-> TRUE, size |-> 2, hash |-> items,
     content |-> "pdf", magic |-> "pdf", damaged |-> FALSE, locked |-> FALSE,
     pages |-> 2, chars |-> 200, images |-> 0, scan |-> "clean",
     layer |-> TRUE, items |-> items]

Items == {Intro, Part, Ab, Abc, Long, Table, Smudge}

Documents ==
    {Document("doc", <<i>>) : i \in Items \cup {Deep, Noise, Figure}}
    \cup {Document("doc", <<i, j>>) : i \in Items, j \in Items \ {Smudge}}
    \cup {Document("doc", items) : items \in {
            <<Ab, Abc, Bcd>>,            \* like the one before, not like the first
            <<Intro, Part, Part>>, <<Intro, Intro, Ab>>, <<Part, Intro, Ab>>,
            <<Smudge, Part, Rest>>,      \* a heading OCR rejects
            <<Title, Ab, Rest>>,         \* a title without a level
            <<Banner, Footer, Rest>>,
            <<Scrawl, Ab, Entry>>,
            <<Intro, Table, Long>>, <<Intro, Rest, Figure>>,
            <<Noise, Rest, Bcd>>, <<Deep, Ab, Rest>>,
            <<Rest, Entry, Ab>>,
            <<Ab, [Ab EXCEPT !.page = 2]>>}}  \* every page alike

Basis == Document("basis", <<Intro, Ab, Rest>>)

\* The files that are routed or refused differently.
Others ==
    {[Basis EXCEPT !.chars = 5],                               \* scanned
     [Basis EXCEPT !.chars = 5, !.items[2].conf = None],       \* one page unreadable
     [Basis EXCEPT !.chars = 60, !.images = 80],               \* image heavy
     [Basis EXCEPT !.pages = None],                            \* unreadable pages
     [Basis EXCEPT !.locked = TRUE],
     [Basis EXCEPT !.magic = "", !.content = "text"],          \* wrong extension
     [Basis EXCEPT !.layer = FALSE],                           \* no text layer
     [Basis EXCEPT !.legal = TRUE, !.items = <<Ab, Abc, Banner>>],
     [Basis EXCEPT !.ext = "html", !.content = "html", !.magic = ""],
     [Basis EXCEPT !.ext = "docx", !.content = "ooxml", !.magic = ""],
     [Basis EXCEPT !.ext = "docx", !.content = "ooxml", !.magic = "", !.damaged = TRUE],
     [Basis EXCEPT !.ext = "eml", !.content = "email", !.magic = "text", !.items = <<>>],
     [Basis EXCEPT !.ext = "png", !.content = "image", !.magic = "image", !.pages = None],
     [Basis EXCEPT !.ext = "exe"], [Basis EXCEPT !.size = 0], [Basis EXCEPT !.size = 9],
     [Basis EXCEPT !.scan = "infected"], [Basis EXCEPT !.scan = "error"],
     [Basis EXCEPT !.items = <<>>]}

Sole == Document("sole", <<Ab, Rest>>)
Web(items) == [Document("web", items) EXCEPT !.ext = "html", !.content = "html", !.magic = ""]
Named(f, name) == [f EXCEPT !.path = name]

\* The batches that are disturbed, and those that are validated differently.
Several == {
    <<Named(Sole, "one")>>, <<Named(Web(<<Ab>>), "one"), Web(<<Ab, Rest>>)>>,
    <<Sole, Basis>>,
    <<Named(Sole, "one"), Named(Sole, "one")>>,                \* one path twice
    <<Sole, Named(Sole, "two")>>,                              \* the same bytes
    <<Sole, Basis, Named(Sole, "three")>>,
    <<[Sole EXCEPT !.ext = "exe"], Named(Sole, "two")>>,       \* a refused first copy
    <<[Sole EXCEPT !.link = TRUE], Named(Sole, "two"), Basis>>,
    <<[Sole EXCEPT !.rooted = FALSE], Basis, Named(Sole, "three")>>,
    <<[Sole EXCEPT !.found = FALSE], Basis>>}

MCBatches == {<<f>> : f \in Documents \cup Others} \cup Several

MCAllowed == [e \in {"pdf", "html", "docx", "eml", "png"} |->
    CASE e = "pdf" -> {"pdf"} [] e = "html" -> {"html", "text"} [] e = "docx" -> {"docx", "zip"}
      [] e = "eml" -> {"email", "text"} [] e = "png" -> {"image"}]

MCSymbols == {"%", Divider}
MCDefaultSection == <<"document">>
MCSeparators == <<{"end"}, {"d"}>>

=============================================================================
