------------------------------- MODULE MCQuery -------------------------------
(***************************************************************************)
(* The corpora and questions Query is checked on.                          *)
(***************************************************************************)
EXTENDS Query

Stored(id, doc, version, text) ==
    [id |-> id, text |-> text, sim |-> 1, version |-> version, section |-> 1,
     anchor |-> FALSE, path |-> "source", blocks |-> {id},
     meta |-> [doc_id |-> doc, page_start |-> 1, chunk_quality_score |-> 50]]

Law    == [Stored(1, 1, 1, <<"law", "2020">>) EXCEPT !.sim = 2]
Tort   == [Stored(2, 1, 1, <<"tort", "2021", "law">>) EXCEPT !.meta.page_start = 2]
Filler == [Stored(3, 2, None, <<"other">>) EXCEPT !.meta.chunk_quality_score = 90, !.blocks = {}]
Claim  == [Stored(4, 2, None, <<"law", "claim">>) EXCEPT !.meta.chunk_quality_score = None,
                                                        !.sim = 0]
Twin   == [Stored(5, 2, None, <<"law", "2020">>) EXCEPT !.path = ""]
Part   == [Stored(6, 1, 1, <<"tort">>) EXCEPT !.blocks = {2}]

MCCorpora == {{Law, Tort, Filler}, {Claim, Filler, Law}, {Part, Tort, Twin},
              {Tort, Claim, Law, Filler}, {Twin, Law, Claim}}

\* The document 1 with one chunk changed in place and one new.
MCUpdates == {<<>>, <<[Law EXCEPT !.version = 2, !.text = <<"law", "tort">>],
                      [Stored(7, 1, 2, <<"tort">>) EXCEPT !.sim = 0]>>}

Filter(field, ops) == [field |-> field, ops |-> ops]

Ask(question, filters) ==
    [question |-> question, filters |-> filters, topK |-> 3, reranks |-> FALSE]

Both == <<"law", "tort">>

MCRequests == {
    Ask(Both, <<>>), [Ask(Both, <<>>) EXCEPT !.topK = 2], [Ask(Both, <<>>) EXCEPT !.reranks = TRUE],
    Ask(<<>>, <<>>), [Ask(<<>>, <<>>) EXCEPT !.reranks = TRUE],
    Ask(Both, <<Filter("document_id", [eq |-> 1])>>),
    Ask(Both, <<Filter("chunk_quality_score", [gte |-> 50, lt |-> 90])>>),
    Ask(Both, <<Filter("page", "in" :> {1}), Filter("doc_id", [gt |-> 0, lte |-> 1])>>),
    Ask(Both, <<Filter("page", [lt |-> 2]), Filter("page_start", [gt |-> 1])>>),
    Ask(Both, <<Filter("page", [near |-> 1])>>)}

Says(groups) == [groups |-> groups, private |-> FALSE, abstains |-> groups = <<>>]

MCAnswers == {Says(<<>>), Says(<<<<1>>>>), Says(<<<<1, 2>>, <<1>>>>), Says(<<<<3>>>>),
              Says(<<<<0>>>>), Says(<<<<4>>>>), [Says(<<<<1>>>>) EXCEPT !.private = TRUE]}

MCAlias == [document_id |-> "doc_id", document_type |-> "doc_type", page |-> "page_start"]
MCNearTexts == {{<<"tort">>, <<"tort", "2021", "law">>}}
MCFigures == ("2020" :> "dates") @@ ("2021" :> "dates")

=============================================================================
