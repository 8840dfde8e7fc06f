------------------------------- MODULE Serving -------------------------------
(***************************************************************************)
(* LexRAGASGIApplication: authorization, the rate limit, dispatch and the  *)
(* translation of errors into responses.                                   *)
(*                                                                         *)
(* Requests are coroutines of one event loop: what a coroutine does between *)
(* two awaits is one step.  It awaits the messages of a body and the        *)
(* sending of a response, and nothing else; an application operation       *)
(* blocks the loop until it ends.                                          *)
(***************************************************************************)
EXTENDS Integers, Sequences

CONSTANTS
    Conns,          \* the numbers of the requests of a behaviour
    Loads,          \* what they ask for: functions from some numbers to requests
    Configurations, \* the settings a server may have been created with
    RateLimit,      \* RATE_LIMIT_PER_MINUTE
    WindowSeconds,  \* window_seconds
    MaxTime         \* bound on the clock

\* A request: its method and route, whether its path names a job, what its
\* token is worth and the Authorization header it came in, the messages of its
\* body and what they add up to, and whether the client may leave before them.
Request == [
    method : STRING, path : STRING, named : BOOLEAN,
    token  : {"missing", "wrong", "foreign", "right"}, header : STRING,
    parts  : Nat \ {0}, body : {"good", "not_json", "incomplete", "bad_reference"},
    leaves : BOOLEAN]

ASSUME ServingAssumption ==
    /\ {RateLimit, WindowSeconds} \subseteq Nat \ {0} /\ MaxTime \in Nat
    /\ \A requests \in Loads :
            /\ DOMAIN requests \subseteq Conns
            /\ \A c \in DOMAIN requests : requests[c] \in Request
    /\ \A c \in Configurations : c \in [{"keyed", "generator", "ingests"} -> BOOLEAN]

VARIABLES
    config,    \* the settings of the server
    load,      \* the requests
    now,       \* the monotonic clock
    windows,   \* the limiter's windows: a key to its reset time and its count
    admitted,  \* history: the times at which the limiter let a key through
    pc,        \* where each request is
    got,       \* how many messages of its body have arrived
    ran,       \* history: whether an application operation ran for it
    status     \* the status of its response, 0 for none

vars == <<config, load, now, windows, admitted, pc, got, ran, status>>

Init ==
    /\ config \in Configurations /\ load \in Loads
    /\ now = 0
    /\ windows = <<>> /\ admitted = <<>>
    /\ pc = [c \in Conns |-> "waiting"]
    /\ got = [c \in Conns |-> 0]
    /\ ran = [c \in Conns |-> FALSE]
    /\ status = [c \in Conns |-> 0]

----------------------------------------------------------------------------
(* RequestAuthorizer *)

Open == {"health", "ready"}

\* Mutant: a server without a secret lets everyone in.
OpenWithoutSecret(r) ==
    CASE r.path \in Open \/ ~config.keyed \/ r.token = "right" -> "none"
      [] OTHER -> "invalid_authorization"

\* A token that is not ASCII makes the comparison of digests raise a TypeError.
AuthorizationError(r) ==
    CASE r.path \in Open -> "none"
      [] r.path \notin Open /\ ~config.keyed -> "authorization_unconfigured"
      [] r.path \notin Open /\ config.keyed ->
            CASE r.token = "missing" -> "missing_authorization"
              [] r.token = "wrong"   -> "invalid_authorization"
              [] r.token = "foreign" -> "type_error"
              [] r.token = "right"   -> "none"

----------------------------------------------------------------------------
(* FixedWindowRateLimiter *)

\* The Authorization header as it was sent: the key of every protected request
\* that has been authorized.
RateLimitKey(r) == r.header

WindowOf(key) == IF key \in DOMAIN windows THEN windows[key] ELSE [reset |-> 0, count |-> 0]

\* Mutant: one request too many.
AllowsOneMore(key) == now >= WindowOf(key).reset \/ WindowOf(key).count <= RateLimit

Allowed(key) == now >= WindowOf(key).reset \/ WindowOf(key).count < RateLimit

\* Mutant: a new window keeps the reset time of the old one.
StaleReset(key) ==
    IF now >= WindowOf(key).reset
    THEN [reset |-> WindowOf(key).reset, count |-> 1]
    ELSE [WindowOf(key) EXCEPT !.count = @ + 1]

\* The window after a request has been let through.
NextWindow(key) ==
    IF now >= WindowOf(key).reset
    THEN [reset |-> now + WindowSeconds, count |-> 1]
    ELSE [WindowOf(key) EXCEPT !.count = @ + 1]

TimesOf(key) == IF key \in DOMAIN admitted THEN admitted[key] ELSE <<>>

\* self._windows[key] = value
Put(f, key, value) == [k \in DOMAIN f \cup {key} |-> IF k = key THEN value ELSE f[k]]

Admit(key) ==
    /\ windows' = Put(windows, key, NextWindow(key))
    /\ admitted' = Put(admitted, key, Append(TimesOf(key), now))

----------------------------------------------------------------------------
(* Errors and responses *)

\* Mutant: a ValueError is not caught.
EscapesMore(error) == error \in {"bad_reference", "value_error"}

\* The details of a validation error raised by a validator of the schema hold
\* the exception itself: they cannot be written as JSON, and the response that
\* is being written is lost outside the try.
Escapes(error) == error = "bad_reference"

\* What a PermissionError of the file system is told apart by: whether its
\* text, which holds the path, has the word authorization in it.
FileErrors == {"file_permission", "authorization_path"}

ErrorStatus(error) ==
    CASE error \in {"validation_error", "value_error"} -> 400
      [] error = "unavailable" -> 503
      [] error = "rate_limit_exceeded" -> 429
      [] error \in {"authorization_unconfigured", "missing_authorization",
                    "invalid_authorization", "authorization_path"} -> 401
      [] error \in {"http_ingest_disabled", "file_permission"} -> 403
      [] OTHER -> 500

\* The request ends with an error, and its response awaits sending.
Fail(c, error) ==
    IF Escapes(error)
    THEN pc' = [pc EXCEPT ![c] = "escaped"] /\ UNCHANGED status
    ELSE /\ pc' = [pc EXCEPT ![c] = "sending"]
         /\ status' = [status EXCEPT ![c] = ErrorStatus(error)]

Answer(c, code) ==
    pc' = [pc EXCEPT ![c] = "sending"] /\ status' = [status EXCEPT ![c] = code]

\* An application operation ends with a status or with an error.
Run(c, codes, errors) ==
    /\ ran' = [ran EXCEPT ![c] = TRUE]
    /\ \/ \E code \in codes : Answer(c, code)
       \/ \E error \in errors : Fail(c, error)

\* Without an operation.
Refuse(c, error) == Fail(c, error) /\ UNCHANGED ran
Reply(c, code) == Answer(c, code) /\ UNCHANGED ran

----------------------------------------------------------------------------
(* Dispatch *)

\* What ingest, replay_ingest_job, query and ingest_job may end with: IngestJobs
\* and Query tell when.
OperationErrors == {"value_error", "crash"} \cup FileErrors

Readiness == IF config.generator THEN 200 ELSE 503

DispatchGet(c) ==
    LET r == load[c] IN
    CASE r.path = "health" -> Run(c, {200}, {})
      [] r.path = "ready" -> Run(c, {Readiness}, {})
      [] r.path = "job" /\ ~r.named -> Reply(c, 400)
      [] r.path = "job" /\ r.named -> Run(c, {200, 404}, OperationErrors \ {"value_error"})
      [] OTHER -> Reply(c, 404)

\* What is read of the body: nothing and a body cut short are bodies too, as a
\* message of another type than a part ends the reading.
Body(r, parts) ==
    CASE parts = 0 -> "empty"
      [] parts \in 1..(r.parts - 1) -> "not_json"
      [] OTHER -> r.body

\* The schema of the route refuses the payload; a replay has no required field.
PayloadError(path, body) ==
    CASE body = "not_json" -> "value_error"
      [] body = "empty" /\ path \in {"ingest", "query"} -> "validation_error"
      [] body = "incomplete" -> "validation_error"
      [] body = "bad_reference" -> "bad_reference"
      [] OTHER -> "none"

DispatchPost(c, body) ==
    LET r == load[c]
        error == PayloadError(r.path, body)
    IN CASE body = "not_json" -> Refuse(c, error)
         [] body # "not_json" /\ r.path \notin {"ingest", "replay", "query"} -> Reply(c, 404)
         [] body # "not_json" /\ r.path = "replay" /\ ~r.named -> Reply(c, 400)
         [] OTHER ->
            IF error # "none" THEN Refuse(c, error)
            ELSE IF r.path = "query"
                 THEN IF config.generator THEN Run(c, {200}, OperationErrors)
                      ELSE Refuse(c, "unavailable")
                 ELSE IF config.ingests THEN Run(c, {200}, OperationErrors)
                      ELSE Refuse(c, "http_ingest_disabled")

Dispatch(c) ==
    CASE load[c].method = "GET" -> DispatchGet(c)
      [] load[c].method = "POST" ->
            pc' = [pc EXCEPT ![c] = "reading"] /\ UNCHANGED <<ran, status>>
      [] OTHER -> Reply(c, 405)

----------------------------------------------------------------------------
(* Steps *)

\* Everything up to the first await.
Accept(c) ==
    /\ c \in DOMAIN load /\ pc[c] = "waiting"
    /\ LET r == load[c]
           error == AuthorizationError(r)
           key == RateLimitKey(r)
       IN CASE error # "none" -> Refuse(c, error) /\ UNCHANGED <<windows, admitted>>
            [] error = "none" /\ r.path \in Open ->
                    Dispatch(c) /\ UNCHANGED <<windows, admitted>>
            [] OTHER ->
                    IF Allowed(key) THEN Admit(key) /\ Dispatch(c)
                    ELSE Refuse(c, "rate_limit_exceeded") /\ UNCHANGED <<windows, admitted>>
    /\ UNCHANGED <<config, load, now, got>>

ReceivePart(c) ==
    /\ pc[c] = "reading"
    /\ got' = [got EXCEPT ![c] = @ + 1]
    /\ IF got[c] + 1 < load[c].parts THEN UNCHANGED <<pc, ran, status>>
       ELSE DispatchPost(c, Body(load[c], got[c] + 1))
    /\ UNCHANGED <<config, load, now, windows, admitted>>

\* The client goes away: the message has no body and announces no more.
Disconnect(c) ==
    /\ pc[c] = "reading" /\ load[c].leaves
    /\ DispatchPost(c, Body(load[c], got[c]))
    /\ UNCHANGED <<config, load, now, windows, admitted, got>>

Send(c) ==
    /\ pc[c] = "sending"
    /\ pc' = [pc EXCEPT ![c] = "answered"]
    /\ UNCHANGED <<config, load, now, windows, admitted, got, ran, status>>

Tick ==
    /\ now < MaxTime
    /\ now' = now + 1
    /\ UNCHANGED <<config, load, windows, admitted, pc, got, ran, status>>

Over == {"answered", "escaped"}

\* Nothing is left to do.
Finished ==
    /\ now = MaxTime /\ \A c \in DOMAIN load : pc[c] \in Over
    /\ UNCHANGED vars

\* The server hands over messages and the loop runs the coroutine again.
Resume(c) == ReceivePart(c) \/ Disconnect(c) \/ Send(c)

Next ==
    \/ \E c \in Conns : Accept(c) \/ Resume(c)
    \/ Tick \/ Finished

Spec == Init /\ [][Next]_vars

\* The event loop resumes every coroutine it can, and the ASGI server goes on
\* handing over the messages of a body or the client's leaving.
FairSpec == Spec /\ \A c \in Conns : WF_vars(Resume(c))

----------------------------------------------------------------------------
(* Properties *)

Codes == {0, 200, 400, 401, 403, 404, 405, 429, 500, 503}

\* Every variable has its type: a response waiting to be sent has a status, a
\* window counts at least one request and never more than the limit.
TypeOK ==
    /\ now \in 0..MaxTime
    /\ DOMAIN windows = DOMAIN admitted
    /\ \A key \in DOMAIN windows :
            windows[key].count \in 1..RateLimit /\ windows[key].reset \in Nat
    /\ \A c \in DOMAIN load :
            /\ pc[c] \in {"waiting", "reading", "sending"} \cup Over
            /\ got[c] \in 0..load[c].parts /\ ran[c] \in BOOLEAN
            /\ status[c] \in Codes
            /\ pc[c] \in {"sending", "answered"} <=> status[c] # 0

\* In no interval as long as a window are more requests of a key let through
\* than at the end of one window and in the next: 2 * limit - 1.
RateBound ==
    \A key \in DOMAIN admitted :
        LET times == admitted[key] IN
        \A i, j \in DOMAIN times :
            i <= j /\ times[j] < times[i] + WindowSeconds => j - i + 1 <= 2 * RateLimit - 1

\* Refusals (_handle_http, _permission_denied).  Outside the two open paths, a
\* request without the right token had no effect, no operation ran for it and
\* nothing of its body was read, and it never succeeds; and one with the right
\* token that is over the limit had none either.  It may be told that it is
\* not authorized, but only by a file that its operation could not open.
RefusedWithoutEffect ==
    \A c \in DOMAIN load :
        LET NoEffect == ~ran[c] /\ got[c] = 0 IN
        load[c].path \notin Open =>
            IF config.keyed /\ load[c].token = "right"
            THEN /\ status[c] = 429 => NoEffect
                 /\ status[c] = 401 => ran[c]
            ELSE NoEffect /\ status[c] \in {0, 401, 500}

\* Every request that has arrived is answered; only one that names a document
\* outside the ingest root is dropped without a response.
EveryRequestAnswered ==
    \A c \in Conns :
        pc[c] # "waiting" ~> \/ pc[c] = "answered"
                             \/ pc[c] = "escaped" /\ load[c].body = "bad_reference"

=============================================================================
