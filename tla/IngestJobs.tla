------------------------------ MODULE IngestJobs ------------------------------
(***************************************************************************)
(* LexRAGApplication.ingest and replay_ingest_job over the persisted job   *)
(* records of IngestJobManager and IngestJobRepository.  A server is one   *)
(* thread of execution inside the application; the records and the index   *)
(* outlive it.  The uvicorn process of serving/server.py runs one call at  *)
(* a time, which is the instance with one server.                          *)
(*                                                                         *)
(* The documents of a call are a set: their order is the client's choice.  *)
(* A job id is the position of its record, as ids are never used again.    *)
(* A document counts as indexed once the index writer has taken its        *)
(* chunks; CoordinatedIndexWriter models what that step does.              *)
(***************************************************************************)
EXTENDS Naturals, Sequences, FiniteSets, FiniteSetsExt

CONSTANTS
    Servers,      \* the threads that run calls
    Docs,         \* the documents under the ingest root
    Keys,         \* the idempotency keys
    NoKey,        \* idempotency_key is None
    MaxJobs,      \* bound on the records
    FaultSites,   \* what may fail: "pipeline", "save", "crash"
    MaxFaults     \* bound on failures in one behaviour

ASSUME JobAssumption ==
    /\ NoKey \notin Keys
    /\ IsFiniteSet(Servers)
    /\ MaxJobs \in Nat
    /\ MaxFaults \in Nat
    /\ FaultSites \subseteq {"pipeline", "save", "crash"}

VARIABLES
    jobs,       \* the persisted records
    indexed,    \* the documents the index holds
    pc,         \* where each server is in its call
    request,    \* the call each server handles
    attempt,    \* the attempt number it will record
    mine,       \* the id of the job it has started
    outcome,    \* its document results so far
    written,    \* the documents it has handed to the index writer
    faults      \* the failures so far

locals == <<request, attempt, mine, outcome, written>>
vars == <<jobs, indexed, pc, request, attempt, mine, outcome, written, faults>>

Outcomes == {"completed", "failed", "quarantined"}
Modes == {"failed_or_quarantined", "all"}
Ended == {"completed", "completed_with_quarantine", "failed"}
Summarised == {"completed", "completed_with_quarantine"}
Labels == {"idle", "lookup", "number", "open", "parse", "index", "fail"}

NoResults == [d \in Docs |-> "none"]

\* source is the id of the job to replay, 0 for a plain ingest.
Request == [docs : SUBSET Docs, key : Keys \cup {NoKey}, source : Nat]

\* A record; results is its summary, NoResults when there is none.
Record == [status : Ended \cup {"running"}, docs : SUBSET Docs, attempt : Nat,
           key : Keys \cup {NoKey}, source : Nat,
           results : [Docs -> Outcomes \cup {"none"}]]

NoRequest == [docs |-> {}, key |-> NoKey, source |-> 0]

Init ==
    /\ jobs = << >>
    /\ indexed = {}
    /\ pc = [s \in Servers |-> "idle"]
    /\ request = [s \in Servers |-> NoRequest]
    /\ attempt = [s \in Servers |-> 0]
    /\ mine = [s \in Servers |-> 0]
    /\ outcome = [s \in Servers |-> NoResults]
    /\ written = [s \in Servers |-> {}]
    /\ faults = 0

-----------------------------------------------------------------------------
(* The repository *)

HasKey(key) == key # NoKey /\ \E i \in DOMAIN jobs : jobs[i].key = key

\* The numbers of the job to replay and of its replays.
RelatedAttempts(source) ==
    {jobs[i].attempt : i \in {k \in DOMAIN jobs : k = source \/ jobs[k].source = source}}

\* Mutant: the replays made before are not counted.
AttemptAfterSource(source) == IF source = 0 THEN 1 ELSE jobs[source].attempt + 1

NextAttempt(source) ==
    IF source = 0 THEN 1 ELSE Max(RelatedAttempts(source)) + 1

\* Mutant: documents that failed are not replayed.
QuarantinedOnly(record, mode) ==
    IF mode = "all" \/ record.status \notin Summarised
    THEN record.docs
    ELSE {d \in record.docs : record.results[d] = "quarantined"}

ReplayPaths(record, mode) ==
    IF mode = "all" \/ record.status \notin Summarised
    THEN record.docs
    ELSE {d \in record.docs : record.results[d] \in {"failed", "quarantined"}}

CompletedStatus(results) ==
    IF \E d \in Docs : results[d] = "quarantined"
    THEN "completed_with_quarantine"
    ELSE "completed"

\* The record of a job that has ended with results.
WithSummary(record, results) ==
    [record EXCEPT !.status = CompletedStatus(results), !.results = results]

-----------------------------------------------------------------------------
Goto(s, label) == pc' = [pc EXCEPT ![s] = label]

\* The call answers or raises; its locals go out of scope.
End(s) ==
    /\ Goto(s, "idle")
    /\ request' = [request EXCEPT ![s] = NoRequest]
    /\ attempt' = [attempt EXCEPT ![s] = 0]
    /\ mine' = [mine EXCEPT ![s] = 0]
    /\ outcome' = [outcome EXCEPT ![s] = NoResults]
    /\ written' = [written EXCEPT ![s] = {}]

\* Bound: calls that are to start a job leave room for one another.
Room == Len(jobs) + Cardinality({s \in Servers : pc[s] \in {"number", "open"}}) < MaxJobs

Fault(site) ==
    /\ site \in FaultSites
    /\ faults < MaxFaults
    /\ faults' = faults + 1

(* Calls *)

Submit(s, docs, key) ==
    /\ pc[s] = "idle"
    /\ docs # {}
    /\ request' = [request EXCEPT ![s] = [docs |-> docs, key |-> key, source |-> 0]]
    /\ Goto(s, "lookup")
    /\ UNCHANGED <<jobs, indexed, attempt, mine, outcome, written, faults>>

Replay(s, i, mode, key) ==
    /\ pc[s] = "idle"
    /\ Room
    /\ request' = [request EXCEPT ![s] =
                     [docs |-> ReplayPaths(jobs[i], mode), key |-> key, source |-> i]]
    /\ Goto(s, "lookup")
    /\ UNCHANGED <<jobs, indexed, attempt, mine, outcome, written, faults>>

\* Mutant: a job that has not ended is started again.
LookupEnded(s) ==
    /\ pc[s] = "lookup"
    /\ LET key == request[s].key IN
       IF key # NoKey /\ \E i \in DOMAIN jobs : jobs[i].key = key /\ jobs[i].status \in Ended
       THEN End(s)
       ELSE request[s].docs # {} /\ Room /\ Goto(s, "number") /\ UNCHANGED locals
    /\ UNCHANGED <<jobs, indexed, faults>>

\* The job recorded for the key answers the call, whatever its status.  A call
\* is refused when a document is unknown, or when there is nothing to replay.
Lookup(s) ==
    /\ pc[s] = "lookup"
    /\ \/ /\ ~ HasKey(request[s].key) /\ request[s].docs # {} /\ Room
          /\ Goto(s, "number") /\ UNCHANGED locals
       \/ HasKey(request[s].key) /\ End(s)
       \/ /\ ~ HasKey(request[s].key)
          /\ request[s].docs = {} \/ request[s].source = 0
          /\ End(s)
    /\ UNCHANGED <<jobs, indexed, faults>>

NumberAttempt(s) ==
    /\ pc[s] = "number"
    /\ attempt' = [attempt EXCEPT ![s] = NextAttempt(request[s].source)]
    /\ Goto(s, "open")
    /\ UNCHANGED <<jobs, indexed, request, mine, outcome, written, faults>>

\* The running record is saved before anything is parsed.
Open(s) ==
    /\ pc[s] = "open"
    /\ \/ /\ jobs' = Append(jobs, [status |-> "running", docs |-> request[s].docs,
                                   attempt |-> attempt[s], key |-> request[s].key,
                                   source |-> request[s].source, results |-> NoResults])
          /\ mine' = [mine EXCEPT ![s] = Len(jobs) + 1]
          /\ Goto(s, "parse")
          /\ UNCHANGED <<request, attempt, outcome, written, faults>>
       \/ Fault("save") /\ End(s) /\ UNCHANGED jobs
    /\ UNCHANGED indexed

-----------------------------------------------------------------------------
(* IngestPipeline.ingest_documents *)

Unparsed(s) == {d \in request[s].docs : outcome[s][d] = "none"}

Unwritten(s) == {d \in request[s].docs : outcome[s][d] = "completed"} \ written[s]

\* A parser that raises gives a failed or a quarantined document; an exception of
\* a later stage ends the whole call.
Parse(s) ==
    /\ pc[s] = "parse"
    /\ \/ /\ \E d \in Unparsed(s), o \in Outcomes :
                outcome' = [outcome EXCEPT ![s][d] = o]
          /\ UNCHANGED <<pc, faults>>
       \/ /\ Unparsed(s) # {}
          /\ Fault("pipeline") /\ Goto(s, "fail")
          /\ UNCHANGED outcome
    /\ UNCHANGED <<jobs, indexed, request, attempt, mine, written>>

\* The chunks of all parsed documents are embedded together.
Embed(s) ==
    /\ pc[s] = "parse"
    /\ Unparsed(s) = {}
    /\ \/ Goto(s, "index") /\ UNCHANGED faults
       \/ Unwritten(s) # {} /\ Fault("pipeline") /\ Goto(s, "fail")
    /\ UNCHANGED <<jobs, indexed>> /\ UNCHANGED locals

\* One document of CoordinatedIndexWriter.index_chunks
Index(s) ==
    /\ pc[s] = "index"
    /\ \/ /\ \E d \in Unwritten(s) :
                /\ indexed' = indexed \cup {d}
                /\ written' = [written EXCEPT ![s] = @ \cup {d}]
          /\ UNCHANGED <<pc, faults>>
       \/ /\ Unwritten(s) # {}
          /\ Fault("pipeline") /\ Goto(s, "fail")
          /\ UNCHANGED <<indexed, written>>
    /\ UNCHANGED <<jobs, request, attempt, mine, outcome>>

\* Mutant: the job is completed while documents are still to be indexed.
CompleteEarly(s) ==
    /\ pc[s] = "index"
    /\ jobs' = [jobs EXCEPT ![mine[s]] = WithSummary(@, outcome[s])]
    /\ End(s)
    /\ UNCHANGED <<indexed, faults>>

\* Mutant: the record ends under an outcome of one of its documents.
CompleteAsDocument(s) ==
    /\ pc[s] = "index"
    /\ Unwritten(s) = {}
    /\ jobs' = [jobs EXCEPT ![mine[s]].status = "quarantined"]
    /\ End(s)
    /\ UNCHANGED <<indexed, faults>>

\* complete: outside the try, so that a save that raises leaves the job running.
Complete(s) ==
    /\ pc[s] = "index"
    /\ Unwritten(s) = {}
    /\ \/ /\ jobs' = [jobs EXCEPT ![mine[s]] = WithSummary(@, outcome[s])]
          /\ UNCHANGED faults
       \/ Fault("save") /\ UNCHANGED jobs
    /\ End(s)
    /\ UNCHANGED indexed

\* Mutant: the exception is recorded and swallowed.
FailAndGoOn(s) ==
    /\ pc[s] = "fail"
    /\ jobs' = [jobs EXCEPT ![mine[s]].status = "failed"]
    /\ Goto(s, "parse")
    /\ UNCHANGED <<indexed, faults>> /\ UNCHANGED locals

\* Mutant: the exception is raised again before it is recorded.
RaiseOnly(s) ==
    /\ pc[s] = "fail"
    /\ End(s)
    /\ UNCHANGED <<jobs, indexed, faults>>

Fail(s) ==
    /\ pc[s] = "fail"
    /\ \/ /\ jobs' = [jobs EXCEPT ![mine[s]].status = "failed"]
          /\ UNCHANGED faults
       \/ Fault("save") /\ UNCHANGED jobs
    /\ End(s)
    /\ UNCHANGED indexed

\* The process dies; the records and the index stay.
Crash ==
    /\ \E s \in Servers : pc[s] # "idle"
    /\ Fault("crash")
    /\ pc' = [s \in Servers |-> "idle"]
    /\ request' = [s \in Servers |-> NoRequest]
    /\ attempt' = [s \in Servers |-> 0]
    /\ mine' = [s \in Servers |-> 0]
    /\ outcome' = [s \in Servers |-> NoResults]
    /\ written' = [s \in Servers |-> {}]
    /\ UNCHANGED <<jobs, indexed>>

\* What a running call does next by itself.
Step(s) ==
    \/ Lookup(s) \/ NumberAttempt(s) \/ Open(s) \/ Parse(s) \/ Embed(s)
    \/ Index(s) \/ Complete(s) \/ Fail(s)

Next ==
    \/ \E s \in Servers, docs \in SUBSET Docs, key \in Keys \cup {NoKey} :
          Submit(s, docs, key)
    \/ \E s \in Servers, i \in DOMAIN jobs, mode \in Modes, key \in Keys \cup {NoKey} :
          Replay(s, i, mode, key)
    \/ \E s \in Servers : Step(s)
    \/ Crash

Spec == Init /\ [][Next]_vars

\* A server that handles a call keeps running.
FairSpec == Spec /\ \A s \in Servers : WF_vars(Step(s))

-----------------------------------------------------------------------------
(* Properties *)

\* Records, locals and the server's job have their types.
TypeOK ==
    /\ jobs \in Seq(Record) /\ Len(jobs) <= MaxJobs
    /\ indexed \subseteq Docs
    /\ pc \in [Servers -> Labels]
    /\ request \in [Servers -> Request]
    /\ attempt \in [Servers -> Nat]
    /\ mine \in [Servers -> Nat]
    /\ outcome \in [Servers -> [Docs -> Outcomes \cup {"none"}]]
    /\ written \in [Servers -> SUBSET Docs]
    /\ faults \in 0..MaxFaults
    /\ \A s \in Servers : pc[s] \in {"parse", "index", "fail"} => mine[s] \in DOMAIN jobs

\* However often a keyed call is repeated, after answers, exceptions and crashes,
\* and whether it ingests or replays, one job is started for its key.
OneJobPerKey ==
    \A i, k \in DOMAIN jobs : jobs[i].key = jobs[k].key /\ jobs[i].key # NoKey => i = k

\* A record that reports a document as completed was saved after the index had
\* that document: a summary is never ahead of the stores.
ReportsOnlyIndexed ==
    \A i \in DOMAIN jobs, d \in Docs : jobs[i].results[d] = "completed" => d \in indexed

\* When a replay ends with every document completed, each document of the job it
\* replays is in the index, however that job ended: with a summary, with an
\* exception, or never, because the process died.
ReplayRecovers ==
    \A i \in DOMAIN jobs :
        /\ jobs[i].source # 0 /\ jobs[i].status \in Summarised
        /\ \A d \in jobs[i].docs : jobs[i].results[d] = "completed"
        => jobs[jobs[i].source].docs \subseteq indexed

\* Replays of a job are numbered upwards, from above the number of that job.
ReplaysNumbered ==
    \A i, k \in DOMAIN jobs :
        /\ jobs[k].source = i => jobs[i].attempt < jobs[k].attempt
        /\ jobs[i].source = jobs[k].source /\ jobs[i].source # 0 /\ i < k =>
               jobs[i].attempt < jobs[k].attempt

\* A record is never removed, keeps what it was started with, and is not written
\* again once it has ended.
RecordsSettle ==
    \A i \in DOMAIN jobs :
        /\ i \in DOMAIN jobs'
        /\ jobs'[i].docs = jobs[i].docs /\ jobs'[i].key = jobs[i].key
        /\ jobs'[i].source = jobs[i].source /\ jobs'[i].attempt = jobs[i].attempt
        /\ jobs[i].status \in Ended => jobs'[i] = jobs[i]

EndedForever == [][RecordsSettle]_vars

\* A job that was started ends, when the process lives and the records can be
\* written, whatever stage of the pipeline raises.
EveryJobEnds ==
    \A i \in 1..MaxJobs :
        (i \in DOMAIN jobs) ~> (i \in DOMAIN jobs /\ jobs[i].status \in Ended)

\* Jobs that descend from one another by replay.
Root(i) == LET up[n \in Nat] == IF jobs[n].source = 0 THEN n ELSE up[jobs[n].source]
           IN  up[i]

\* The attempts of one lineage have different numbers.
LineageNumbered ==
    \A i, k \in DOMAIN jobs :
        Root(i) = Root(k) /\ jobs[i].attempt = jobs[k].attempt => i = k
=============================================================================
