------------------------------ MODULE MCServing ------------------------------
(***************************************************************************)
(* The requests Serving is checked on: every kind of request beside an       *)
(* ingest, a query or a look at a job, and bursts of one kind.            *)
(***************************************************************************)
EXTENDS Serving

Asks(method, path, token) ==
    [method |-> method, path |-> path, named |-> TRUE, token |-> token,
     header |-> "Bearer " \o token, parts |-> 1, body |-> "good", leaves |-> FALSE]

Get(path) == Asks("GET", path, "right")
Post(path) == Asks("POST", path, "right")

Job == Get("job")
Upload == [Post("ingest") EXCEPT !.parts = 2, !.leaves = TRUE]

Kinds == {
    Get("health"), [Get("ready") EXCEPT !.token = "missing"], Job, [Job EXCEPT !.named = FALSE],
    [Job EXCEPT !.header = "Bearer  right"],                \* the same token
    Asks("GET", "job", "missing"), Asks("POST", "query", "wrong"),
    Asks("POST", "replay", "foreign"), Asks("DELETE", "job", "right"), Get("nowhere"),
    Upload, [Upload EXCEPT !.body = "incomplete"],
    [Upload EXCEPT !.body = "bad_reference", !.leaves = FALSE],
    Post("query"), [Post("query") EXCEPT !.leaves = TRUE, !.body = "not_json"],
    [Post("replay") EXCEPT !.leaves = TRUE], [Post("replay") EXCEPT !.named = FALSE],
    Post("nowhere")}

MCConns == 1..4

Burst == [c \in MCConns |-> Get("nowhere")]

\* One of two requests is an ingest, a query or a job.
Partners == {Job, Upload, Post("query")}

MCLoads ==
    {<<a, b>> : a \in Kinds, b \in Partners}
    \cup {Burst, [Burst EXCEPT ![4].header = "Bearer  right"],
          [Burst EXCEPT ![2] = [Post("nowhere") EXCEPT !.parts = 2]],
          [Burst EXCEPT ![3] = Asks("GET", "job", "wrong")]}

MCConfigurations == {
    [keyed |-> TRUE, generator |-> TRUE, ingests |-> TRUE],
    [keyed |-> TRUE, generator |-> FALSE, ingests |-> FALSE],
    [keyed |-> FALSE, generator |-> TRUE, ingests |-> TRUE]}

=============================================================================
