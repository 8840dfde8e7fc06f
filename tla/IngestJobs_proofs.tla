-------------------------- MODULE IngestJobs_proofs --------------------------
(***************************************************************************)
(* Proofs about IngestJobs, for any number of servers, documents, keys and *)
(* jobs, and any failures, unless a theorem says otherwise.                *)
(***************************************************************************)
EXTENDS IngestJobs, FiniteSetTheorems, TLAPS

Busy == {"parse", "index", "fail"}

-----------------------------------------------------------------------------
(* The invariant *)

\* Types, without the bounds.
Types ==
    /\ jobs \in Seq(Record)
    /\ indexed \subseteq Docs
    /\ pc \in [Servers -> Labels]
    /\ request \in [Servers -> Request]
    /\ attempt \in [Servers -> Nat]
    /\ mine \in [Servers -> Nat]
    /\ outcome \in [Servers -> [Docs -> Outcomes \cup {"none"}]]
    /\ written \in [Servers -> SUBSET Docs]

\* What a call's job repeats of the call.
OwnsJob(s) ==
    /\ mine[s] \in DOMAIN jobs
    /\ jobs[mine[s]].status = "running"
    /\ jobs[mine[s]].docs = request[s].docs
    /\ jobs[mine[s]].source = request[s].source

\* A call has results only while it has a job; they are of its documents, and
\* what it has written is in the index.
ResultsOK(s) ==
    /\ pc[s] \notin Busy => outcome[s] = NoResults /\ written[s] = {}
    /\ \A d \in Docs : outcome[s][d] # "none" => d \in request[s].docs
    /\ pc[s] = "index" => \A d \in request[s].docs : outcome[s][d] # "none"
    /\ written[s] \subseteq indexed

\* What a replay of source leaves out is in the index already.
LeavesOutIndexed(records, stored, source, docs) ==
    source # 0 => source \in DOMAIN records /\ records[source].docs \ docs \subseteq stored

ServerOK(s) ==
    /\ pc[s] \in Busy =>
            /\ OwnsJob(s)
            /\ \A t \in Servers \ {s} : pc[t] \in Busy => mine[t] # mine[s]
    /\ ResultsOK(s)
    /\ LeavesOutIndexed(jobs, indexed, request[s].source, request[s].docs)

RecordOK(i) ==
    /\ \A d \in Docs : jobs[i].results[d] = "completed" => d \in indexed
    /\ jobs[i].status \in Summarised =>
            \A d \in jobs[i].docs : jobs[i].results[d] # "none"
    /\ LeavesOutIndexed(jobs, indexed, jobs[i].source, jobs[i].docs)

JobsInv ==
    /\ Types
    /\ \A s \in Servers : ServerOK(s)
    /\ \A i \in DOMAIN jobs : RecordOK(i)

\* Numbers grow no faster than records, so that there is a highest one.
NumbersBounded ==
    /\ \A i \in DOMAIN jobs : jobs[i].attempt <= i
    /\ \A s \in Servers : attempt[s] <= Len(jobs) + 1

\* A bounded set of numbers has a maximum.
LEMMA MaxOfBounded ==
    ASSUME NEW S \in SUBSET Nat, S # {}, NEW n \in Nat, \A x \in S : x <= n
    PROVE  Max(S) \in S /\ \A x \in S : x <= Max(S)
<1> DEFINE Above == {m \in Nat : \A x \in S : x <= m}
<1>1. PICK m \in Above : \A k \in Above : ~(<<k, m>> \in OpToRel(<, Nat))
  <2>1. Above \subseteq Nat /\ Above # {}
    OBVIOUS
  <2> HIDE DEF Above
  <2> QED
    BY <2>1, WFMin, NatLessThanWellFounded
<1>2. \A k \in Above : ~(k < m)
  BY <1>1 DEF OpToRel
<1>3. m \in S
  <2>1. SUFFICES ASSUME m \notin S PROVE FALSE
    OBVIOUS
  <2>2. \A x \in S : x < m
    BY <2>1
  <2>3. m - 1 \in Above
    <3>1. PICK x \in S : TRUE
      OBVIOUS
    <3>2. x \in Nat /\ m \in Nat /\ x < m
      BY <2>2
    <3>3. m - 1 \in Nat
      BY <3>2
    <3>4. ASSUME NEW y \in S PROVE y <= m - 1
      <4>1. y \in Nat /\ y < m
        BY <2>2
      <4> QED
        BY <4>1, <3>2
    <3> QED
      BY <3>3, <3>4
  <2> QED
    BY <1>2, <2>3
<1>4. \A x \in S : m >= x
  OBVIOUS
<1> QED
  BY <1>3, <1>4 DEF Max

-----------------------------------------------------------------------------
(* Steps of one server *)

\* A step of s leaves the calls of the others alone.
OthersStay(s) ==
    \A t \in Servers \ {s} :
        /\ pc'[t] = pc[t] /\ request'[t] = request[t] /\ mine'[t] = mine[t]
        /\ outcome'[t] = outcome[t] /\ written'[t] = written[t]

\* Records are kept with what the calls know of them, but for the job of s.
RecordsKept(s) ==
    /\ DOMAIN jobs \subseteq DOMAIN jobs'
    /\ \A i \in DOMAIN jobs :
            /\ jobs'[i].docs = jobs[i].docs /\ jobs'[i].source = jobs[i].source
            /\ jobs'[i] # jobs[i] => pc[s] \in Busy /\ i = mine[s]

\* What the replays leave out stays in the index.
LEMMA LeftOutStays ==
    ASSUME NEW s, RecordsKept(s), indexed \subseteq indexed',
           NEW source, NEW docs, LeavesOutIndexed(jobs, indexed, source, docs)
    PROVE  LeavesOutIndexed(jobs', indexed', source, docs)
BY DEF RecordsKept, LeavesOutIndexed

\* The other calls stay right, when the job s is left with is its own.
LEMMA OthersRight ==
    ASSUME JobsInv, NEW s \in Servers, NEW t \in Servers \ {s},
           OthersStay(s), RecordsKept(s), indexed \subseteq indexed',
           pc'[s] \in Busy => \/ pc[s] \in Busy /\ mine'[s] = mine[s]
                              \/ mine'[s] \notin DOMAIN jobs
    PROVE  ServerOK(t)'
<1>1. ServerOK(t) /\ ServerOK(s)
  BY DEF JobsInv
<1>2. /\ pc'[t] = pc[t] /\ request'[t] = request[t] /\ mine'[t] = mine[t]
      /\ outcome'[t] = outcome[t] /\ written'[t] = written[t]
  BY DEF OthersStay
<1>3. ResultsOK(t)'
  BY <1>1, <1>2 DEF ServerOK, ResultsOK
<1>4. ASSUME pc[t] \in Busy
      PROVE  /\ OwnsJob(t)'
             /\ \A u \in Servers \ {t} : pc'[u] \in Busy => mine'[u] # mine'[t]
  <2>1. OwnsJob(t) /\ \A u \in Servers \ {t} : pc[u] \in Busy => mine[u] # mine[t]
    BY <1>1, <1>4 DEF ServerOK
  <2>2. jobs'[mine[t]] = jobs[mine[t]] /\ mine[t] \in DOMAIN jobs'
    BY <2>1 DEF RecordsKept, OwnsJob
  <2>3. OwnsJob(t)'
    BY <1>2, <2>1, <2>2 DEF OwnsJob
  <2>4. ASSUME NEW u \in Servers \ {t}, pc'[u] \in Busy PROVE mine'[u] # mine'[t]
    <3>1. CASE u = s
      BY <3>1, <2>1, <2>4, <1>2 DEF OwnsJob
    <3>2. CASE u # s
      BY <3>2, <2>1, <2>4, <1>2 DEF OthersStay
    <3> QED
      BY <3>1, <3>2
  <2> QED
    BY <2>3, <2>4
<1>5. LeavesOutIndexed(jobs', indexed', request'[t].source, request'[t].docs)
  BY <1>1, <1>2, LeftOutStays DEF ServerOK
<1> QED
  BY <1>2, <1>3, <1>4, <1>5 DEF ServerOK

\* A step that writes no record keeps the invariant when it keeps the types and
\* leaves its own call right.
LEMMA CallStep ==
    ASSUME JobsInv, NEW s \in Servers, Types', OthersStay(s), jobs' = jobs,
           indexed \subseteq indexed',
           pc'[s] \in Busy =>
                pc[s] \in Busy /\ mine'[s] = mine[s] /\ request'[s] = request[s],
           ResultsOK(s)', LeavesOutIndexed(jobs', indexed', request'[s].source, request'[s].docs)
    PROVE  JobsInv'
<1>1. RecordsKept(s)
  BY DEF RecordsKept
<1>2. ASSUME NEW t \in Servers \ {s} PROVE ServerOK(t)'
  BY <1>1, OthersRight
<1>3. ServerOK(s)'
  <2>1. ServerOK(s)
    BY DEF JobsInv
  <2>2. ASSUME pc'[s] \in Busy
        PROVE  /\ \A t \in Servers \ {s} : pc'[t] \in Busy => mine'[t] # mine'[s]
    BY <2>1, <2>2 DEF ServerOK, OthersStay
  <2>3. ASSUME pc'[s] \in Busy
        PROVE  OwnsJob(s)'
    <3>1. OwnsJob(s)
      BY <2>1, <2>3 DEF ServerOK
    <3> QED
      BY <3>1, <2>3 DEF OwnsJob
  <2> QED
    BY <2>2, <2>3 DEF ServerOK
<1>4. ASSUME NEW i \in DOMAIN jobs' PROVE RecordOK(i)'
  <2>1. i \in DOMAIN jobs /\ jobs'[i] = jobs[i] /\ RecordOK(i)
    BY DEF JobsInv
  <2>2. LeavesOutIndexed(jobs', indexed', jobs[i].source, jobs[i].docs)
    BY <1>1, <2>1, LeftOutStays DEF RecordOK
  <2> QED
    BY <2>1, <2>2 DEF RecordOK
<1> QED
  BY <1>2, <1>3, <1>4 DEF JobsInv

\* A call that ends has no locals.
LEMMA EndLocals ==
    ASSUME Types, NEW s \in Servers, End(s)
    PROVE  /\ OthersStay(s)
           /\ pc'[s] = "idle" /\ request'[s] = NoRequest
           /\ outcome'[s] = NoResults /\ written'[s] = {}
           /\ pc' \in [Servers -> Labels] /\ request' \in [Servers -> Request]
           /\ attempt' \in [Servers -> Nat] /\ mine' \in [Servers -> Nat]
           /\ outcome' \in [Servers -> [Docs -> Outcomes \cup {"none"}]]
           /\ written' \in [Servers -> SUBSET Docs]
<1>1. NoRequest \in Request /\ NoResults \in [Docs -> Outcomes \cup {"none"}] /\ "idle" \in Labels
  BY DEF NoRequest, Request, NoResults, Labels
<1> QED
  BY <1>1 DEF Types, End, Goto, OthersStay

\* A call that has produced nothing has nothing wrong.
LEMMA NothingDone ==
    ASSUME NEW s \in Servers, outcome'[s] = NoResults, written'[s] = {},
           pc'[s] # "index"
    PROVE  ResultsOK(s)'
BY DEF ResultsOK, NoResults

\* A call ends without a change of its record.
LEMMA EndStep ==
    ASSUME JobsInv, NEW s \in Servers, End(s), UNCHANGED <<jobs, indexed>>
    PROVE  JobsInv'
<1>1. Types' /\ OthersStay(s) /\ pc'[s] = "idle"
  BY EndLocals DEF Types, JobsInv
<1>2. ResultsOK(s)'
  BY <1>1, EndLocals, NothingDone DEF JobsInv
<1>3. LeavesOutIndexed(jobs', indexed', request'[s].source, request'[s].docs)
  BY EndLocals DEF JobsInv, LeavesOutIndexed, NoRequest
<1> QED
  BY <1>1, <1>2, <1>3, CallStep DEF Busy

\* A call ends with a record that reports only what is in the index.
LEMMA RecordStep ==
    ASSUME JobsInv, NEW s \in Servers, End(s), UNCHANGED indexed, pc[s] \in Busy,
           NEW r \in Record, jobs' = [jobs EXCEPT ![mine[s]] = r],
           r.docs = jobs[mine[s]].docs, r.source = jobs[mine[s]].source,
           \A d \in Docs : r.results[d] = "completed" => d \in indexed,
           r.status \in Summarised => \A d \in r.docs : r.results[d] # "none"
    PROVE  JobsInv'
<1>1. ServerOK(s) /\ OwnsJob(s) /\ Types
  BY DEF JobsInv, ServerOK
<1>2. mine[s] \in DOMAIN jobs /\ jobs \in Seq(Record)
  BY <1>1 DEF OwnsJob, Types
<1>3. /\ jobs' \in Seq(Record) /\ DOMAIN jobs' = DOMAIN jobs /\ jobs'[mine[s]] = r
      /\ \A i \in DOMAIN jobs : i # mine[s] => jobs'[i] = jobs[i]
  BY <1>2
<1>4. RecordsKept(s)
  BY <1>2, <1>3 DEF RecordsKept
<1>5. Types' /\ OthersStay(s) /\ pc'[s] = "idle"
  BY <1>1, <1>3, EndLocals DEF Types
<1>6. ASSUME NEW t \in Servers \ {s} PROVE ServerOK(t)'
  BY <1>4, <1>5, OthersRight DEF Busy
<1>7. ServerOK(s)'
  <2>1. ResultsOK(s)'
    BY <1>1, <1>5, EndLocals, NothingDone
  <2>2. LeavesOutIndexed(jobs', indexed', request'[s].source, request'[s].docs)
    BY <1>1, EndLocals DEF LeavesOutIndexed, NoRequest
  <2> QED
    BY <1>5, <2>1, <2>2 DEF ServerOK, Busy
<1>8. ASSUME NEW i \in DOMAIN jobs' PROVE RecordOK(i)'
  <2>1. i \in DOMAIN jobs /\ RecordOK(i)
    BY <1>3 DEF JobsInv
  <2>2. LeavesOutIndexed(jobs', indexed', jobs'[i].source, jobs'[i].docs)
    <3>1. LeavesOutIndexed(jobs', indexed', jobs[i].source, jobs[i].docs)
      BY <1>4, <2>1, LeftOutStays DEF RecordOK
    <3> QED
      BY <3>1, <2>1, <1>4 DEF RecordsKept
  <2>3. CASE i = mine[s]
    BY <1>3, <2>2, <2>3 DEF RecordOK
  <2>4. CASE i # mine[s]
    BY <1>3, <2>1, <2>2, <2>4 DEF RecordOK
  <2> QED
    BY <2>3, <2>4
<1> QED
  BY <1>5, <1>6, <1>7, <1>8 DEF JobsInv

-----------------------------------------------------------------------------
(* The actions *)

\* A call of ingest owes nothing to any job.
LEMMA SubmitRight ==
    ASSUME JobsInv, NEW s \in Servers, NEW docs \in SUBSET Docs,
           NEW key \in Keys \cup {NoKey}, Submit(s, docs, key)
    PROVE  JobsInv'
<1>1. ServerOK(s) /\ Types /\ pc[s] = "idle"
  BY DEF JobsInv, Submit
<1>2. [docs |-> docs, key |-> key, source |-> 0] \in Request
  BY DEF Request
<1>3. Types' /\ OthersStay(s) /\ pc'[s] = "lookup" /\ request'[s].source = 0
  BY <1>1, <1>2 DEF Submit, Goto, Types, OthersStay, Labels
<1>4. ResultsOK(s)'
  BY <1>1, <1>3, NothingDone DEF ServerOK, ResultsOK, Submit, Busy
<1>5. LeavesOutIndexed(jobs', indexed', request'[s].source, request'[s].docs)
  BY <1>3 DEF LeavesOutIndexed
<1> QED
  BY <1>3, <1>4, <1>5, CallStep DEF Submit, Busy

\* A call of replay_ingest_job leaves out only what was reported as completed.
LEMMA ReplayRight ==
    ASSUME JobsInv, NEW s \in Servers, NEW i \in DOMAIN jobs, NEW mode,
           NEW key \in Keys \cup {NoKey}, Replay(s, i, mode, key)
    PROVE  JobsInv'
<1> DEFINE docs == ReplayPaths(jobs[i], mode)
<1>1. ServerOK(s) /\ Types /\ pc[s] = "idle" /\ RecordOK(i)
  BY DEF JobsInv, Replay
<1>2. jobs[i] \in Record /\ i \in Nat
  BY <1>1 DEF Types
<1>3. docs \subseteq jobs[i].docs /\ jobs[i].docs \ docs \subseteq indexed
  <2>1. ASSUME NEW d \in jobs[i].docs, d \notin docs
        PROVE  d \in indexed
    <3>1. jobs[i].status \in Summarised /\ jobs[i].results[d] \notin {"failed", "quarantined"}
      BY <2>1 DEF ReplayPaths
    <3>2. jobs[i].results[d] # "none" /\ d \in Docs
      BY <1>1, <1>2, <2>1, <3>1 DEF RecordOK, Record
    <3>3. jobs[i].results[d] \in Outcomes \cup {"none"}
      BY <1>2, <3>2 DEF Record
    <3> QED
      BY <1>1, <3>1, <3>2, <3>3 DEF RecordOK, Outcomes
  <2> QED
    BY <2>1 DEF ReplayPaths
<1>4. [docs |-> docs, key |-> key, source |-> i] \in Request
  BY <1>2, <1>3 DEF Request, Record
<1> HIDE DEF docs
<1>5. /\ Types' /\ OthersStay(s) /\ pc'[s] = "lookup"
      /\ request'[s].source = i /\ request'[s].docs = docs
  BY <1>1, <1>4 DEF Replay, Goto, Types, OthersStay, Labels, docs
<1>6. ResultsOK(s)'
  BY <1>1, <1>5, NothingDone DEF ServerOK, ResultsOK, Replay, Busy
<1>7. LeavesOutIndexed(jobs', indexed', request'[s].source, request'[s].docs)
  BY <1>3, <1>5 DEF LeavesOutIndexed, Replay
<1> QED
  BY <1>5, <1>6, <1>7, CallStep DEF Replay, Busy

\* A step to another label before the call has a job.
LEMMA BeforeJob ==
    ASSUME JobsInv, NEW s \in Servers, pc[s] \notin Busy,
           NEW label \in Labels \ Busy, Goto(s, label),
           UNCHANGED <<jobs, indexed, request, mine, outcome, written>>,
           attempt' \in [Servers -> Nat]
    PROVE  JobsInv'
<1>1. ServerOK(s) /\ Types
  BY DEF JobsInv
<1>2. Types' /\ OthersStay(s) /\ pc'[s] = label
  BY <1>1 DEF Goto, Types, OthersStay
<1>3. ResultsOK(s)'
  BY <1>1, <1>2, NothingDone DEF ServerOK, ResultsOK, Busy
<1>4. LeavesOutIndexed(jobs', indexed', request'[s].source, request'[s].docs)
  BY <1>1 DEF ServerOK
<1> QED
  BY <1>2, <1>3, <1>4, CallStep

\* The idempotency check ends the call or lets it go on.
LEMMA LookupRight ==
    ASSUME JobsInv, NEW s \in Servers, Lookup(s)
    PROVE  JobsInv'
<1>1. "number" \in Labels \ Busy
  BY DEF Labels, Busy
<1>2. CASE End(s) /\ UNCHANGED <<jobs, indexed>>
  BY <1>2, EndStep
<1>3. CASE ~End(s)
  <2>1. /\ Goto(s, "number") /\ pc[s] \notin Busy
        /\ UNCHANGED <<jobs, indexed, request, attempt, mine, outcome, written>>
    BY <1>3 DEF Lookup, Busy, locals
  <2>2. attempt' \in [Servers -> Nat]
    BY <2>1 DEF JobsInv, Types
  <2> QED
    BY <1>1, <2>1, <2>2, BeforeJob
<1> QED
  BY <1>2, <1>3 DEF Lookup

\* The number of a job is one more than those of a source and its replays.
LEMMA NextNumber ==
    ASSUME JobsInv, NumbersBounded, NEW s \in Servers
    PROVE  LET source == request[s].source
               next == NextAttempt(source) IN
           /\ next \in Nat /\ next <= Len(jobs) + 1
           /\ source # 0 => \A x \in RelatedAttempts(source) : x \in Nat /\ x < next
<1> DEFINE source == request[s].source
           numbers == RelatedAttempts(source)
<1>1. jobs \in Seq(Record) /\ source \in Nat
  BY DEF JobsInv, Types, Request
<1>2. Len(jobs) \in Nat
  BY <1>1
<1>3. CASE source = 0
  BY <1>2, <1>3 DEF NextAttempt
<1>4. CASE source # 0
  <2>1. source \in DOMAIN jobs
    BY <1>4 DEF JobsInv, ServerOK, LeavesOutIndexed
  <2>2. \A i \in DOMAIN jobs : i \in 1..Len(jobs) /\ jobs[i].attempt \in Nat
    <3>1. \A i \in DOMAIN jobs : i \in 1..Len(jobs) /\ jobs[i] \in Record
      BY <1>1
    <3> QED
      BY <3>1 DEF Record
  <2>3. numbers \in SUBSET Nat /\ numbers # {} /\ \A x \in numbers : x <= Len(jobs)
    BY <2>1, <2>2, <1>2 DEF RelatedAttempts, NumbersBounded
  <2>4. Max(numbers) \in numbers /\ \A x \in numbers : x <= Max(numbers)
    BY <1>2, <2>3, MaxOfBounded
  <2>5. NextAttempt(source) = Max(numbers) + 1
    BY <1>4 DEF NextAttempt
  <2> DEFINE top == Max(numbers)
             next == NextAttempt(source)
  <2>6. top \in Nat /\ top <= Len(jobs) /\ next = top + 1
    BY <2>3, <2>4, <2>5
  <2>7. \A x \in numbers : x \in Nat /\ x <= top
    BY <2>3, <2>4
  <2> HIDE DEF numbers, top, next
  <2>8. next \in Nat /\ next <= Len(jobs) + 1
    BY <1>2, <2>6
  <2>9. \A x \in numbers : x \in Nat /\ x < next
    BY <2>6, <2>7
  <2> QED
    BY <2>8, <2>9 DEF numbers, next
<1> QED
  BY <1>3, <1>4

\* The number of the job is read from the records.
LEMMA NumberRight ==
    ASSUME JobsInv, NumbersBounded, NEW s \in Servers, NumberAttempt(s)
    PROVE  JobsInv'
<1>1. "open" \in Labels \ Busy
  BY DEF Labels, Busy
<1>2. attempt' \in [Servers -> Nat]
  <2>1. NextAttempt(request[s].source) \in Nat /\ attempt \in [Servers -> Nat]
    BY NextNumber DEF JobsInv, Types
  <2> QED
    BY <2>1 DEF NumberAttempt
<1> QED
  BY <1>1, <1>2, BeforeJob DEF NumberAttempt, Busy

\* The record is saved, and the call has its job.
LEMMA OpenRight ==
    ASSUME JobsInv, NEW s \in Servers, Open(s)
    PROVE  JobsInv'
<1>1. CASE End(s) /\ UNCHANGED <<jobs, indexed>>
  BY <1>1, EndStep
<1>2. CASE ~(End(s) /\ UNCHANGED <<jobs, indexed>>)
  <2> DEFINE r == [status |-> "running", docs |-> request[s].docs,
                   attempt |-> attempt[s], key |-> request[s].key,
                   source |-> request[s].source, results |-> NoResults]
  <2>1. /\ jobs' = Append(jobs, r) /\ mine' = [mine EXCEPT ![s] = Len(jobs) + 1]
        /\ Goto(s, "parse") /\ UNCHANGED <<request, attempt, outcome, written, indexed>>
        /\ pc[s] = "open"
    BY <1>2 DEF Open
  <2>2. ServerOK(s) /\ Types /\ request[s] \in Request
    BY DEF JobsInv, Types
  <2>3. r \in Record
    BY <2>2 DEF Types, Record, Request, NoResults
  <2>4. r.source = request[s].source /\ r.docs = request[s].docs /\ r.status = "running"
        /\ r.results = NoResults
    OBVIOUS
  <2> HIDE DEF r
  <2>5. /\ jobs' \in Seq(Record) /\ DOMAIN jobs' = DOMAIN jobs \cup {Len(jobs) + 1}
        /\ Len(jobs) + 1 \notin DOMAIN jobs /\ Len(jobs) + 1 \in Nat
        /\ jobs'[Len(jobs) + 1] = r
        /\ \A i \in DOMAIN jobs : jobs'[i] = jobs[i]
    BY <2>1, <2>2, <2>3 DEF Types
  <2>6. Types' /\ OthersStay(s) /\ pc'[s] = "parse" /\ mine'[s] = Len(jobs) + 1
    BY <2>1, <2>2, <2>5 DEF Types, Goto, OthersStay, Labels
  <2>7. RecordsKept(s)
    BY <2>5 DEF RecordsKept
  <2>8. ASSUME NEW t \in Servers \ {s} PROVE ServerOK(t)'
    BY <2>1, <2>5, <2>6, <2>7, OthersRight
  <2>9. LeavesOutIndexed(jobs', indexed', request[s].source, request[s].docs)
    BY <2>1, <2>2, <2>7, LeftOutStays DEF ServerOK
  <2>10. ServerOK(s)'
    <3>1. OwnsJob(s)'
      BY <2>1, <2>4, <2>5, <2>6 DEF OwnsJob
    <3>2. ASSUME NEW t \in Servers \ {s}, pc'[t] \in Busy PROVE mine'[t] # mine'[s]
      <4>1. mine[t] \in DOMAIN jobs /\ mine'[t] = mine[t]
        BY <2>6, <3>2 DEF OthersStay, JobsInv, ServerOK, OwnsJob
      <4> QED
        BY <4>1, <2>5, <2>6
    <3>3. ResultsOK(s)'
      BY <2>1, <2>2, <2>6, NothingDone DEF ServerOK, ResultsOK, Busy
    <3> QED
      BY <2>1, <2>9, <3>1, <3>2, <3>3 DEF ServerOK
  <2>11. ASSUME NEW i \in DOMAIN jobs' PROVE RecordOK(i)'
    <3>1. CASE i \in DOMAIN jobs
      <4>1. RecordOK(i) /\ jobs'[i] = jobs[i]
        BY <2>5, <3>1 DEF JobsInv
      <4>2. LeavesOutIndexed(jobs', indexed', jobs[i].source, jobs[i].docs)
        BY <4>1, <2>1, <2>7, LeftOutStays DEF RecordOK
      <4> QED
        BY <4>1, <4>2, <2>1 DEF RecordOK
    <3>2. CASE i = Len(jobs) + 1
      <4>1. jobs'[i] = r
        BY <2>5, <3>2
      <4> QED
        BY <4>1, <2>4, <2>9 DEF RecordOK, NoResults, Summarised
    <3> QED
      BY <2>5, <3>1, <3>2
  <2> QED
    BY <2>6, <2>8, <2>10, <2>11 DEF JobsInv
<1> QED
  BY <1>1, <1>2 DEF Open

\* One more document has its outcome.
LEMMA ParseRight ==
    ASSUME JobsInv, NEW s \in Servers, Parse(s)
    PROVE  JobsInv'
<1>1. ServerOK(s) /\ Types /\ pc[s] = "parse"
  BY DEF JobsInv, Parse
<1>2. PICK o \in [Docs -> Outcomes \cup {"none"}] :
        /\ outcome' = [outcome EXCEPT ![s] = o]
        /\ \A d \in Docs : o[d] # "none" => d \in request[s].docs
  <2>1. CASE outcome' = outcome
    BY <1>1, <2>1 DEF Types, ServerOK, ResultsOK
  <2>2. CASE \E d \in Unparsed(s), v \in Outcomes : outcome' = [outcome EXCEPT ![s][d] = v]
    <3>1. PICK d \in Unparsed(s), v \in Outcomes :
            outcome' = [outcome EXCEPT ![s] = [outcome[s] EXCEPT ![d] = v]]
      BY <2>2
    <3>2. outcome[s] \in [Docs -> Outcomes \cup {"none"}] /\ d \in request[s].docs
      BY <1>1 DEF Types, Unparsed
    <3>3. /\ v \in Outcomes /\ [outcome[s] EXCEPT ![d] = v] \in [Docs -> Outcomes \cup {"none"}]
          /\ \A e \in Docs : [outcome[s] EXCEPT ![d] = v][e] # "none"
                                 => e = d \/ outcome[s][e] # "none"
      BY <3>2
    <3>4. \A e \in Docs : outcome[s][e] # "none" => e \in request[s].docs
      BY <1>1 DEF ServerOK, ResultsOK
    <3> QED
      BY <3>1, <3>2, <3>3, <3>4
  <2> QED
    BY <2>1, <2>2 DEF Parse
<1>3. pc' = pc \/ pc' = [pc EXCEPT ![s] = "fail"]
  BY DEF Parse, Goto
<1>4. UNCHANGED <<jobs, indexed, request, attempt, mine, written>>
  BY DEF Parse
<1>5. Types' /\ OthersStay(s) /\ outcome'[s] = o /\ pc'[s] \in {"parse", "fail"}
  BY <1>1, <1>2, <1>3, <1>4 DEF Types, OthersStay, Labels
<1>6. ResultsOK(s)'
  BY <1>1, <1>2, <1>4, <1>5 DEF ServerOK, ResultsOK, Busy
<1>7. LeavesOutIndexed(jobs', indexed', request'[s].source, request'[s].docs)
  BY <1>1, <1>4 DEF ServerOK
<1> QED
  BY <1>1, <1>4, <1>5, <1>6, <1>7, CallStep DEF Busy

\* Every document has its outcome when the chunks are embedded.
LEMMA EmbedRight ==
    ASSUME JobsInv, NEW s \in Servers, Embed(s)
    PROVE  JobsInv'
<1>1. ServerOK(s) /\ Types /\ pc[s] = "parse"
  BY DEF JobsInv, Embed
<1>2. \A d \in request[s].docs : outcome[s][d] # "none"
  BY DEF Embed, Unparsed
<1>3. UNCHANGED <<jobs, indexed, request, attempt, mine, outcome, written>>
  BY DEF Embed, locals
<1>4. Types' /\ OthersStay(s) /\ pc'[s] \in {"index", "fail"}
  BY <1>1, <1>3 DEF Embed, Goto, Types, OthersStay, Labels
<1>5. ResultsOK(s)'
  BY <1>1, <1>2, <1>3, <1>4 DEF ServerOK, ResultsOK, Busy
<1>6. LeavesOutIndexed(jobs', indexed', request'[s].source, request'[s].docs)
  BY <1>1, <1>3 DEF ServerOK
<1> QED
  BY <1>1, <1>3, <1>4, <1>5, <1>6, CallStep DEF Busy

\* One more document is in the index, and written.
LEMMA IndexRight ==
    ASSUME JobsInv, NEW s \in Servers, Index(s)
    PROVE  JobsInv'
<1>1. ServerOK(s) /\ Types /\ pc[s] = "index"
  BY DEF JobsInv, Index
<1>2. UNCHANGED <<jobs, request, attempt, mine, outcome>>
  BY DEF Index
<1>3. PICK more \in SUBSET Docs :
        /\ written' = [written EXCEPT ![s] = more]
        /\ indexed' \subseteq Docs /\ indexed \subseteq indexed' /\ more \subseteq indexed'
  <2>1. CASE UNCHANGED <<indexed, written>>
    <3>1. written' = [written EXCEPT ![s] = written[s]]
      BY <1>1, <2>1 DEF Types
    <3> QED
      BY <1>1, <2>1, <3>1 DEF Types, ServerOK, ResultsOK
  <2>2. CASE ~UNCHANGED <<indexed, written>>
    <3>1. PICK d \in Unwritten(s) :
            /\ indexed' = indexed \cup {d}
            /\ written' = [written EXCEPT ![s] = written[s] \cup {d}]
      BY <2>2 DEF Index
    <3>2. d \in Docs
      <4>1. request[s].docs \subseteq Docs
        BY <1>1 DEF Types, Request
      <4> QED
        BY <4>1 DEF Unwritten
    <3>3. written[s] \in SUBSET Docs /\ written[s] \subseteq indexed /\ indexed \subseteq Docs
      BY <1>1 DEF Types, ServerOK, ResultsOK
    <3> QED
      BY <3>1, <3>2, <3>3
  <2> QED
    BY <2>1, <2>2
<1>4. pc' = pc \/ pc' = [pc EXCEPT ![s] = "fail"]
  BY DEF Index, Goto
<1>5. Types' /\ OthersStay(s) /\ written'[s] = more /\ pc'[s] \in {"index", "fail"}
  BY <1>1, <1>2, <1>3, <1>4 DEF Types, OthersStay, Labels
<1>6. ResultsOK(s)'
  BY <1>1, <1>2, <1>3, <1>5 DEF ServerOK, ResultsOK, Busy
<1>7. LeavesOutIndexed(jobs', indexed', request'[s].source, request'[s].docs)
  BY <1>1, <1>2, <1>3 DEF ServerOK, LeavesOutIndexed
<1> QED
  BY <1>1, <1>2, <1>3, <1>5, <1>6, <1>7, CallStep DEF Busy

\* The record gets its summary, or the save raises.
LEMMA CompleteRight ==
    ASSUME JobsInv, NEW s \in Servers, Complete(s)
    PROVE  JobsInv'
<1>1. ServerOK(s) /\ Types /\ pc[s] = "index" /\ End(s) /\ UNCHANGED indexed
  BY DEF JobsInv, Complete
<1>2. CASE jobs' = jobs
  BY <1>1, <1>2, EndStep
<1>3. CASE jobs' # jobs
  <2> DEFINE r == WithSummary(jobs[mine[s]], outcome[s])
  <2>1. jobs' = [jobs EXCEPT ![mine[s]] = r]
    BY <1>3 DEF Complete
  <2>2. /\ OwnsJob(s) /\ ResultsOK(s) /\ jobs[mine[s]] \in Record
        /\ outcome[s] \in [Docs -> Outcomes \cup {"none"}]
    BY <1>1 DEF ServerOK, Types, Busy, OwnsJob
  <2>3. /\ r \in Record /\ r.docs = jobs[mine[s]].docs /\ r.source = jobs[mine[s]].source
        /\ r.results = outcome[s]
    <3>1. CompletedStatus(outcome[s]) \in Ended \cup {"running"}
      BY DEF CompletedStatus, Ended
    <3> QED
      BY <2>2, <3>1 DEF WithSummary, Record
  <2>4. \A d \in Docs : outcome[s][d] = "completed" => d \in indexed
    BY <1>1, <2>2 DEF Complete, Unwritten, ResultsOK
  <2>5. \A d \in request[s].docs : outcome[s][d] # "none"
    BY <1>1, <2>2 DEF ResultsOK
  <2>6. r.docs = request[s].docs /\ pc[s] \in Busy
    BY <1>1, <2>2, <2>3 DEF OwnsJob, Busy
  <2> HIDE DEF r
  <2> QED
    BY <1>1, <2>1, <2>3, <2>4, <2>5, <2>6, RecordStep
<1> QED
  BY <1>2, <1>3

\* The record ends as failed, or the save raises.
LEMMA FailRight ==
    ASSUME JobsInv, NEW s \in Servers, Fail(s)
    PROVE  JobsInv'
<1>1. ServerOK(s) /\ Types /\ pc[s] = "fail" /\ End(s) /\ UNCHANGED indexed
  BY DEF JobsInv, Fail
<1>2. CASE jobs' = jobs
  BY <1>1, <1>2, EndStep
<1>3. CASE jobs' # jobs
  <2> DEFINE r == [jobs[mine[s]] EXCEPT !.status = "failed"]
  <2>1. jobs' = [jobs EXCEPT ![mine[s]] = r]
    BY <1>3 DEF Fail
  <2>2. OwnsJob(s) /\ jobs[mine[s]] \in Record /\ RecordOK(mine[s])
    BY <1>1 DEF ServerOK, Types, Busy, OwnsJob, JobsInv
  <2>3. /\ r \in Record /\ r.docs = jobs[mine[s]].docs /\ r.source = jobs[mine[s]].source
        /\ r.results = jobs[mine[s]].results /\ r.status \notin Summarised
    BY <2>2 DEF Record, Ended, Summarised
  <2> HIDE DEF r
  <2> QED
    BY <1>1, <2>1, <2>2, <2>3, RecordStep DEF RecordOK, Busy
<1> QED
  BY <1>2, <1>3

\* Nothing but the records and the index is left.
LEMMA CrashRight ==
    ASSUME JobsInv, Crash
    PROVE  JobsInv'
<1>1. NoRequest \in Request /\ NoResults \in [Docs -> Outcomes \cup {"none"}] /\ "idle" \in Labels
  BY DEF NoRequest, Request, NoResults, Labels
<1>2. Types'
  BY <1>1 DEF Crash, Types, JobsInv
<1>3. ASSUME NEW s \in Servers PROVE ServerOK(s)'
  <2>1. /\ pc'[s] = "idle" /\ request'[s] = NoRequest
        /\ outcome'[s] = NoResults /\ written'[s] = {}
    BY DEF Crash
  <2> QED
    BY <2>1, NothingDone DEF ServerOK, Busy, LeavesOutIndexed, NoRequest
<1>4. ASSUME NEW i \in DOMAIN jobs' PROVE RecordOK(i)'
  BY DEF Crash, JobsInv, RecordOK
<1> QED
  BY <1>2, <1>3, <1>4 DEF JobsInv

\* Every step of a call keeps the invariant.
LEMMA CallRight ==
    ASSUME JobsInv, NumbersBounded, NEW s \in Servers, Step(s)
    PROVE  JobsInv'
BY LookupRight, NumberRight, OpenRight, ParseRight, EmbedRight, IndexRight,
   CompleteRight, FailRight DEF Step

\* Every step does.
LEMMA JobsStep ==
    ASSUME JobsInv, NumbersBounded, [Next]_vars
    PROVE  JobsInv'
<1>1. CASE UNCHANGED vars
  BY <1>1 DEF vars, JobsInv, Types, ServerOK, OwnsJob, ResultsOK, RecordOK
<1>2. CASE \E s \in Servers, docs \in SUBSET Docs, key \in Keys \cup {NoKey} :
                Submit(s, docs, key)
  BY <1>2, SubmitRight
<1>3. CASE \E s \in Servers, i \in DOMAIN jobs, mode \in Modes, key \in Keys \cup {NoKey} :
                Replay(s, i, mode, key)
  BY <1>3, ReplayRight
<1>4. CASE \E s \in Servers : Step(s)
  BY <1>4, CallRight
<1>5. CASE Crash
  BY <1>5, CrashRight
<1> QED
  BY <1>1, <1>2, <1>3, <1>4, <1>5 DEF Next

-----------------------------------------------------------------------------
(* What a step does to the records *)

\* A record that is saved again keeps what it was started with.
LEMMA SettledBy ==
    ASSUME JobsInv, NEW s \in Servers, pc[s] \in Busy, NEW r,
           jobs' = [jobs EXCEPT ![mine[s]] = r],
           r.docs = jobs[mine[s]].docs, r.key = jobs[mine[s]].key,
           r.source = jobs[mine[s]].source, r.attempt = jobs[mine[s]].attempt
    PROVE  RecordsSettle /\ Len(jobs') = Len(jobs)
<1>1. jobs \in Seq(Record) /\ mine[s] \in DOMAIN jobs /\ jobs[mine[s]].status = "running"
  BY DEF JobsInv, Types, ServerOK, OwnsJob
<1>2. "running" \notin Ended
  BY DEF Ended
<1>3. DOMAIN jobs' = DOMAIN jobs /\ Len(jobs') = Len(jobs)
  BY <1>1
<1>4. ASSUME NEW i \in DOMAIN jobs
      PROVE  /\ jobs'[i].docs = jobs[i].docs /\ jobs'[i].key = jobs[i].key
             /\ jobs'[i].source = jobs[i].source /\ jobs'[i].attempt = jobs[i].attempt
             /\ jobs[i].status \in Ended => jobs'[i] = jobs[i]
  BY <1>1, <1>2
<1> QED
  BY <1>3, <1>4 DEF RecordsSettle

Opened(s) ==
    /\ pc[s] = "open" /\ pc' = [pc EXCEPT ![s] = "parse"]
    /\ request' = request /\ attempt' = attempt
    /\ Len(jobs') = Len(jobs) + 1
    /\ LET r == jobs'[Len(jobs) + 1] IN
       r.attempt = attempt[s] /\ r.key = request[s].key /\ r.source = request[s].source

\* Every step keeps what the records were started with, and adds at most one
\* record, that of a call that is at open.
LEMMA RecordChanges ==
    ASSUME JobsInv, [Next]_vars
    PROVE  RecordsSettle /\ (Len(jobs') = Len(jobs) \/ \E s \in Servers : Opened(s))
<1>1. jobs \in Seq(Record)
  BY DEF JobsInv, Types
<1>2. CASE jobs' = jobs
  BY <1>2 DEF RecordsSettle
<1>3. ASSUME NEW s \in Servers, Complete(s), jobs' # jobs
      PROVE  RecordsSettle /\ Len(jobs') = Len(jobs)
  <2> DEFINE r == WithSummary(jobs[mine[s]], outcome[s])
  <2>1. jobs' = [jobs EXCEPT ![mine[s]] = r] /\ pc[s] = "index"
    BY <1>3 DEF Complete
  <2>2. jobs[mine[s]] \in Record
    BY <1>1, <2>1 DEF JobsInv, ServerOK, OwnsJob, Busy
  <2>3. /\ r.docs = jobs[mine[s]].docs /\ r.key = jobs[mine[s]].key
        /\ r.source = jobs[mine[s]].source /\ r.attempt = jobs[mine[s]].attempt
    BY <2>2 DEF WithSummary, Record
  <2> HIDE DEF r
  <2> QED
    BY <2>1, <2>3, SettledBy DEF Busy
<1>4. ASSUME NEW s \in Servers, Fail(s), jobs' # jobs
      PROVE  RecordsSettle /\ Len(jobs') = Len(jobs)
  <2> DEFINE r == [jobs[mine[s]] EXCEPT !.status = "failed"]
  <2>1. jobs' = [jobs EXCEPT ![mine[s]] = r] /\ pc[s] = "fail"
    BY <1>4 DEF Fail
  <2>2. jobs[mine[s]] \in Record
    BY <1>1, <2>1 DEF JobsInv, ServerOK, OwnsJob, Busy
  <2>3. /\ r.docs = jobs[mine[s]].docs /\ r.key = jobs[mine[s]].key
        /\ r.source = jobs[mine[s]].source /\ r.attempt = jobs[mine[s]].attempt
    BY <2>2 DEF Record
  <2> HIDE DEF r
  <2> QED
    BY <2>1, <2>3, SettledBy DEF Busy
<1>5. ASSUME NEW s \in Servers, Open(s), jobs' # jobs
      PROVE  RecordsSettle /\ Opened(s)
  <2> DEFINE r == [status |-> "running", docs |-> request[s].docs,
                   attempt |-> attempt[s], key |-> request[s].key,
                   source |-> request[s].source, results |-> NoResults]
  <2>1. /\ jobs' = Append(jobs, r) /\ pc[s] = "open" /\ Goto(s, "parse")
        /\ request' = request /\ attempt' = attempt
    BY <1>5 DEF Open
  <2>2. r.attempt = attempt[s] /\ r.key = request[s].key /\ r.source = request[s].source
    OBVIOUS
  <2> HIDE DEF r
  <2>3. /\ Len(jobs') = Len(jobs) + 1 /\ jobs'[Len(jobs) + 1] = r
        /\ \A i \in DOMAIN jobs : i \in DOMAIN jobs' /\ jobs'[i] = jobs[i]
    BY <1>1, <2>1
  <2> QED
    BY <2>1, <2>2, <2>3 DEF RecordsSettle, Opened, Goto
<1>6. \/ jobs' = jobs
      \/ \E s \in Servers : Complete(s) \/ Fail(s) \/ Open(s)
  <2>1. ASSUME NEW s \in Servers, Step(s)
        PROVE  jobs' = jobs \/ Complete(s) \/ Fail(s) \/ Open(s)
    BY <2>1 DEF Step, Lookup, NumberAttempt, Parse, Embed, Index
  <2> QED
    BY <2>1 DEF Next, Submit, Replay, Crash, vars
<1> QED
  BY <1>2, <1>3, <1>4, <1>5, <1>6

\* Only NumberAttempt gives a call another number than its own or none.
LEMMA AttemptChanges ==
    ASSUME JobsInv, [Next]_vars, NEW t \in Servers
    PROVE  attempt'[t] \in {attempt[t], 0, NextAttempt(request[t].source)}
<1>1. attempt \in [Servers -> Nat]
  BY DEF JobsInv, Types
<1>2. ASSUME NEW s \in Servers, Step(s)
      PROVE  \/ attempt' = attempt \/ attempt' = [attempt EXCEPT ![s] = 0]
             \/ attempt' = [attempt EXCEPT ![s] = NextAttempt(request[s].source)]
  BY <1>2 DEF Step, Lookup, NumberAttempt, Open, Parse, Embed, Index, Complete, Fail,
              End, locals
<1>3. attempt' = attempt \/ attempt' = [s \in Servers |-> 0] \/ \E s \in Servers : Step(s)
  BY DEF Next, Submit, Replay, Crash, vars
<1> QED
  BY <1>1, <1>2, <1>3

\* Numbers stay bounded by the records.
LEMMA NumbersStep ==
    ASSUME JobsInv, NumbersBounded, [Next]_vars
    PROVE  NumbersBounded'
<1>1. jobs \in Seq(Record) /\ jobs' \in Seq(Record) /\ attempt \in [Servers -> Nat]
  BY JobsStep DEF JobsInv, Types
<1>2. Len(jobs) \in Nat /\ (Len(jobs') = Len(jobs) \/ Len(jobs') = Len(jobs) + 1)
  BY <1>1, RecordChanges DEF Opened
<1>3. ASSUME NEW t \in Servers PROVE attempt'[t] <= Len(jobs') + 1
  <2>1. attempt[t] \in Nat /\ attempt[t] <= Len(jobs) + 1
    BY <1>1 DEF NumbersBounded
  <2>2. NextAttempt(request[t].source) \in Nat /\ NextAttempt(request[t].source) <= Len(jobs) + 1
    BY NextNumber
  <2> QED
    BY <1>2, <2>1, <2>2, AttemptChanges
<1>4. ASSUME NEW i \in DOMAIN jobs' PROVE jobs'[i].attempt <= i
  <2>1. CASE i \in DOMAIN jobs
    BY <2>1, RecordChanges DEF RecordsSettle, NumbersBounded
  <2>2. CASE i \notin DOMAIN jobs
    <3>1. i = Len(jobs) + 1 /\ Len(jobs') # Len(jobs)
      BY <1>1, <1>2, <2>2
    <3> QED
      BY <3>1, RecordChanges DEF Opened, NumbersBounded
  <2> QED
    BY <2>1, <2>2
<1> QED
  BY <1>3, <1>4 DEF NumbersBounded

-----------------------------------------------------------------------------
(* Theorems *)

\* Calls, jobs, the index and the numbers are related as JobsInv and
\* NumbersBounded say (ingest, replay_ingest_job and IngestJobManager).
THEOREM JobsCorrect == Spec => [](JobsInv /\ NumbersBounded)
<1>1. Init => JobsInv /\ NumbersBounded
  <2>1. NoRequest \in Request /\ NoResults \in [Docs -> Outcomes \cup {"none"}] /\ "idle" \in Labels
    BY DEF NoRequest, Request, NoResults, Labels
  <2>2. SUFFICES ASSUME Init PROVE JobsInv /\ NumbersBounded
    OBVIOUS
  <2>3. Types
    BY <2>1, <2>2 DEF Init, Types
  <2>4. ASSUME NEW s \in Servers PROVE ServerOK(s)
    BY <2>2 DEF Init, ServerOK, ResultsOK, Busy, NoResults, LeavesOutIndexed, NoRequest
  <2>5. DOMAIN jobs = {} /\ Len(jobs) = 0
    BY <2>2 DEF Init
  <2> QED
    BY <2>2, <2>3, <2>4, <2>5 DEF Init, JobsInv, NumbersBounded
<1>2. (JobsInv /\ NumbersBounded) /\ [Next]_vars => (JobsInv /\ NumbersBounded)'
  BY JobsStep, NumbersStep
<1> QED
  BY <1>1, <1>2, PTL DEF Spec

\* Summaries (ingest_job_manager.complete): no record reports a document as
\* completed before the index has it.
THEOREM ReportsCorrect == Spec => []ReportsOnlyIndexed
<1>1. JobsInv => ReportsOnlyIndexed
  BY DEF JobsInv, RecordOK, ReportsOnlyIndexed
<1> QED
  BY <1>1, JobsCorrect, PTL

\* Replays (replay_ingest_job, _replay_paths): a replay that ends well makes good
\* whatever the job it replays left undone, and replays of replays do.
THEOREM ReplayCorrect == Spec => []ReplayRecovers
<1>1. JobsInv => ReplayRecovers
  <2>1. SUFFICES ASSUME JobsInv, NEW i \in DOMAIN jobs, jobs[i].source # 0,
                        \A d \in jobs[i].docs : jobs[i].results[d] = "completed"
                 PROVE  jobs[jobs[i].source].docs \subseteq indexed
    BY DEF ReplayRecovers
  <2>2. jobs[i] \in Record
    BY <2>1 DEF JobsInv, Types
  <2>3. jobs[i].docs \subseteq indexed
    BY <2>1, <2>2 DEF JobsInv, RecordOK, Record
  <2>4. jobs[jobs[i].source].docs \ jobs[i].docs \subseteq indexed
    BY <2>1 DEF JobsInv, RecordOK, LeavesOutIndexed
  <2> QED
    BY <2>3, <2>4
<1> QED
  BY <1>1, JobsCorrect, PTL

\* Records (IngestJobManager, IngestJobRepository.save): none is lost, none
\* changes what it was started with, and one that has ended is never written.
THEOREM EndedCorrect == Spec => EndedForever
<1>1. JobsInv /\ [Next]_vars => [RecordsSettle]_vars
  BY RecordChanges
<1> QED
  BY <1>1, JobsCorrect, PTL DEF Spec, EndedForever

-----------------------------------------------------------------------------
(* The bounds, and with them the types *)

\* The calls that are to start a job.
Starting == {s \in Servers : pc[s] \in {"number", "open"}}

RoomLeft == Len(jobs) + Cardinality(Starting) <= MaxJobs

Bounds == RoomLeft /\ faults \in 0..MaxFaults

\* There are finitely many calls that are to start a job.
LEMMA StartingFinite ==
    /\ IsFiniteSet(Starting) /\ Cardinality(Starting) \in Nat
    /\ \A T \in SUBSET Starting : Cardinality(T) \in Nat /\ Cardinality(T) <= Cardinality(Starting)
<1>1. IsFiniteSet(Starting)
  BY JobAssumption, FS_Subset DEF Starting
<1> QED
  BY <1>1, FS_Subset, FS_CardinalityType

\* Calls join those that are to start a job one at a time, where there is room.
LEMMA StartingChanges ==
    ASSUME JobsInv, [Next]_vars
    PROVE  Starting' \subseteq Starting \/ \E s \in Servers : Room /\ Starting' = Starting \cup {s}
<1>1. pc \in [Servers -> Labels]
  BY DEF JobsInv, Types
<1>2. ASSUME NEW s \in Servers, NEW label, label \notin {"number", "open"}, Goto(s, label)
      PROVE  Starting' \subseteq Starting
  BY <1>1, <1>2 DEF Goto, Starting
<1>3. ASSUME NEW s \in Servers, Lookup(s)
      PROVE  Starting' \subseteq Starting \/ (Room /\ Starting' = Starting \cup {s})
  <2>1. CASE End(s)
    BY <1>2, <2>1 DEF End
  <2>2. CASE ~End(s)
    BY <1>1, <1>3, <2>2 DEF Lookup, Goto, Starting
  <2> QED
    BY <2>1, <2>2
<1>4. ASSUME NEW s \in Servers, NumberAttempt(s)
      PROVE  Starting' \subseteq Starting
  BY <1>1, <1>4 DEF NumberAttempt, Goto, Starting
<1>5. ASSUME pc' = pc
      PROVE  Starting' \subseteq Starting
  BY <1>5 DEF Starting
<1>6. ASSUME NEW s \in Servers, Step(s), ~Lookup(s), ~NumberAttempt(s)
      PROVE  Starting' \subseteq Starting
  <2>1. CASE Complete(s) \/ Fail(s) \/ Open(s)
    BY <1>2, <2>1 DEF Complete, Fail, Open, End
  <2>2. CASE Parse(s) \/ Embed(s) \/ Index(s)
    BY <1>2, <1>5, <2>2 DEF Parse, Embed, Index
  <2> QED
    BY <1>6, <2>1, <2>2 DEF Step
<1>7. CASE Crash
  BY <1>7 DEF Crash, Starting
<1>8. CASE \E s \in Servers : Step(s)
  BY <1>3, <1>4, <1>6, <1>8
<1>9. ASSUME NEW s \in Servers, NEW docs, NEW key, Submit(s, docs, key)
      PROVE  Starting' \subseteq Starting
  BY <1>2, <1>9 DEF Submit
<1>10. ASSUME NEW s \in Servers, NEW i, NEW mode, NEW key, Replay(s, i, mode, key)
       PROVE  Starting' \subseteq Starting
  BY <1>2, <1>10 DEF Replay
<1> QED
  BY <1>5, <1>7, <1>8, <1>9, <1>10 DEF Next, vars

\* Failures are counted one by one, up to the bound.
LEMMA FaultChanges ==
    ASSUME [Next]_vars
    PROVE  faults' = faults \/ (faults < MaxFaults /\ faults' = faults + 1)
<1>1. ASSUME NEW s \in Servers, Step(s)
      PROVE  faults' = faults \/ (faults < MaxFaults /\ faults' = faults + 1)
  BY <1>1 DEF Step, Lookup, NumberAttempt, Open, Parse, Embed, Index, Complete, Fail, Fault
<1> QED
  BY <1>1 DEF Next, Submit, Replay, Crash, Fault, vars

\* A started job takes the room its call had kept.
LEMMA BoundsStep ==
    ASSUME JobsInv, JobsInv', Bounds, [Next]_vars
    PROVE  Bounds'
<1>1. Len(jobs) \in Nat /\ Cardinality(Starting) \in Nat
  BY StartingFinite DEF JobsInv, Types
<1>2. ASSUME Len(jobs') = Len(jobs)
      PROVE  RoomLeft'
  <2>1. CASE Starting' \subseteq Starting
    BY <1>1, <1>2, <2>1, StartingFinite, JobAssumption DEF Bounds, RoomLeft
  <2>2. ASSUME NEW s \in Servers, Room, Starting' = Starting \cup {s}
        PROVE  RoomLeft'
    <3>1. Len(jobs) + Cardinality(Starting) < MaxJobs
      BY <2>2 DEF Room, Starting
    <3>2. Cardinality(Starting') = Cardinality(Starting)
          \/ Cardinality(Starting') = Cardinality(Starting) + 1
      BY <2>2, StartingFinite, FS_AddElement
    <3> QED
      BY <1>1, <1>2, <3>1, <3>2, JobAssumption DEF RoomLeft
  <2> QED
    BY <2>1, <2>2, StartingChanges
<1>3. ASSUME NEW s \in Servers, Opened(s)
      PROVE  RoomLeft'
  <2>1. s \in Starting /\ Starting' = Starting \ {s}
    BY <1>3 DEF Opened, Starting, JobsInv, Types
  <2>2. Cardinality(Starting') = Cardinality(Starting) - 1
    BY <2>1, StartingFinite, FS_RemoveElement
  <2> QED
    BY <1>1, <1>3, <2>2, JobAssumption DEF Opened, Bounds, RoomLeft
<1>4. faults' \in 0..MaxFaults
  BY FaultChanges, JobAssumption DEF Bounds
<1> QED
  BY <1>2, <1>3, <1>4, RecordChanges DEF Bounds

\* The types of all variables and the bounds on the records and the failures;
\* a call in the pipeline has a record of its own.
THEOREM TypeCorrect == Spec => []TypeOK
<1>1. Init => Bounds
  <2>1. SUFFICES ASSUME Init PROVE Bounds
    OBVIOUS
  <2>2. Starting = {} /\ Len(jobs) = 0
    BY <2>1 DEF Init, Starting
  <2> QED
    BY <2>1, <2>2, FS_EmptySet, JobAssumption DEF Init, Bounds, RoomLeft
<1>2. /\ JobsInv /\ NumbersBounded /\ (JobsInv /\ NumbersBounded)' /\ Bounds /\ [Next]_vars
      => Bounds'
  BY BoundsStep
<1>3. JobsInv /\ Bounds => TypeOK
  <2>1. ASSUME JobsInv, Bounds
        PROVE  Len(jobs) <= MaxJobs
    <3>1. Len(jobs) \in Nat /\ Cardinality(Starting) \in Nat
      BY <2>1, StartingFinite DEF JobsInv, Types
    <3> QED
      BY <2>1, <3>1, JobAssumption DEF Bounds, RoomLeft
  <2>2. ASSUME JobsInv, NEW s \in Servers, pc[s] \in {"parse", "index", "fail"}
        PROVE  mine[s] \in DOMAIN jobs
    BY <2>2 DEF JobsInv, ServerOK, OwnsJob, Busy
  <2> QED
    BY <2>1, <2>2 DEF JobsInv, Types, Bounds, TypeOK
<1> QED
  BY <1>1, <1>2, <1>3, JobsCorrect, PTL DEF Spec

-----------------------------------------------------------------------------
(* The shipped server runs one call at a time *)

OneServer == \A s, t \in Servers : s = t

\* Nobody has taken the key of a call that is to start a job.
KeysFree == \A s \in Servers : pc[s] \in {"number", "open"} => ~HasKey(request[s].key)

\* The number of a call that is to start a replay is above those it follows.
NumbersHigh ==
    \A s \in Servers :
        pc[s] = "open" /\ request[s].source # 0 =>
            \A x \in RelatedAttempts(request[s].source) : x < attempt[s]

\* With one server, a call is on its way to a job only by its own steps, which
\* write no record.
LEMMA OnTheWay ==
    ASSUME JobsInv, [Next]_vars, OneServer, NEW s \in Servers,
           pc'[s] \in {"number", "open"}
    PROVE  /\ jobs' = jobs /\ request'[s] = request[s]
           /\ \/ pc'[s] = pc[s] /\ attempt'[s] = attempt[s]
              \/ pc'[s] = "number" /\ ~HasKey(request[s].key)
              \/ /\ pc'[s] = "open" /\ pc[s] = "number"
                 /\ attempt'[s] = NextAttempt(request[s].source)
<1>1. Types
  BY DEF JobsInv
<1>2. CASE UNCHANGED vars
  BY <1>2 DEF vars
<1>3. ASSUME NEW label, Goto(s, label), label \notin {"number", "open"}
      PROVE  FALSE
  BY <1>1, <1>3 DEF Goto, Types
<1>4. ~End(s) /\ ~Crash
  BY <1>3 DEF End, Crash
<1>5. ASSUME Step(s)
      PROVE  Lookup(s) \/ NumberAttempt(s)
  <2>1. ~Complete(s) /\ ~Fail(s)
    BY <1>4 DEF Complete, Fail
  <2>2. ~Open(s) /\ ~Embed(s)
    BY <1>3, <1>4 DEF Open, Embed
  <2>3. ~Parse(s) /\ ~Index(s)
    BY <1>3 DEF Parse, Index
  <2> QED
    BY <1>5, <2>1, <2>2, <2>3 DEF Step
<1>6. CASE Lookup(s)
  <2>1. Goto(s, "number") /\ UNCHANGED <<jobs, request, attempt>> /\ ~HasKey(request[s].key)
    BY <1>4, <1>6 DEF Lookup, locals
  <2> QED
    BY <1>1, <2>1 DEF Goto, Types
<1>7. CASE NumberAttempt(s)
  BY <1>1, <1>7 DEF NumberAttempt, Goto, Types
<1>8. Step(s) \/ UNCHANGED vars
  <2>1. ASSUME NEW docs, NEW key PROVE ~Submit(s, docs, key)
    BY <1>3 DEF Submit
  <2>2. ASSUME NEW i, NEW mode, NEW key PROVE ~Replay(s, i, mode, key)
    BY <1>3 DEF Replay
  <2>3. \A t \in Servers : t = s
    BY DEF OneServer
  <2> QED
    BY <1>4, <2>1, <2>2, <2>3 DEF Next
<1> QED
  BY <1>2, <1>5, <1>6, <1>7, <1>8

\* One server: a free key stays free until its call has started its job.
LEMMA KeysStep ==
    ASSUME JobsInv, JobsInv', [Next]_vars, OneServer, KeysFree, OneJobPerKey
    PROVE  KeysFree' /\ OneJobPerKey'
<1>1. jobs \in Seq(Record) /\ jobs' \in Seq(Record)
  BY DEF JobsInv, Types
<1>2. KeysFree'
  <2>1. SUFFICES ASSUME NEW s \in Servers, pc'[s] \in {"number", "open"}
                 PROVE  ~HasKey(request[s].key)'
    BY DEF KeysFree
  <2>2. jobs' = jobs /\ request'[s] = request[s] /\ ~HasKey(request[s].key)
    BY <2>1, OnTheWay DEF KeysFree
  <2> QED
    BY <2>2 DEF HasKey
<1>3. \A i \in DOMAIN jobs : i \in DOMAIN jobs' /\ jobs'[i].key = jobs[i].key
  BY RecordChanges DEF RecordsSettle
<1>4. ASSUME Len(jobs') = Len(jobs)
      PROVE  OneJobPerKey'
  <2>1. DOMAIN jobs' = DOMAIN jobs
    BY <1>1, <1>4
  <2>2. ASSUME NEW i \in DOMAIN jobs', NEW k \in DOMAIN jobs',
               jobs'[i].key = jobs'[k].key, jobs'[i].key # NoKey
        PROVE  i = k
    BY <1>3, <2>1, <2>2 DEF OneJobPerKey
  <2> QED
    BY <2>2 DEF OneJobPerKey
<1>5. ASSUME NEW s \in Servers, Opened(s)
      PROVE  OneJobPerKey'
  <2>1. jobs'[Len(jobs) + 1].key = request[s].key /\ ~HasKey(request[s].key)
    BY <1>5 DEF Opened, KeysFree
  <2>2. \A i \in DOMAIN jobs' : i \in DOMAIN jobs \/ i = Len(jobs) + 1
    BY <1>1, <1>5 DEF Opened
  <2>3. ASSUME NEW i \in DOMAIN jobs, jobs'[i].key = jobs'[Len(jobs) + 1].key
        PROVE  jobs'[i].key = NoKey
    BY <1>3, <2>1, <2>3 DEF HasKey
  <2>4. ASSUME NEW i \in DOMAIN jobs', NEW k \in DOMAIN jobs',
               jobs'[i].key = jobs'[k].key, jobs'[i].key # NoKey
        PROVE  i = k
    <3>1. CASE i \in DOMAIN jobs /\ k \in DOMAIN jobs
      BY <1>3, <2>4, <3>1 DEF OneJobPerKey
    <3>2. CASE i = Len(jobs) + 1 \/ k = Len(jobs) + 1
      BY <2>2, <2>3, <2>4, <3>2
    <3> QED
      BY <2>2, <3>1, <3>2
  <2> QED
    BY <2>4 DEF OneJobPerKey
<1> QED
  BY <1>2, <1>4, <1>5, RecordChanges

\* Idempotency (IngestJobManager.find_by_idempotency_key before start): while
\* one call runs at a time, a key starts one job, however its calls end.
THEOREM IdempotencyCorrect == ASSUME OneServer PROVE Spec => []OneJobPerKey
<1>1. Init => KeysFree /\ OneJobPerKey
  BY DEF Init, KeysFree, OneJobPerKey
<1>2. /\ JobsInv /\ NumbersBounded /\ (JobsInv /\ NumbersBounded)' /\ [Next]_vars
      /\ KeysFree /\ OneJobPerKey
      => (KeysFree /\ OneJobPerKey)'
  BY KeysStep, OneServer
<1> QED
  BY <1>1, <1>2, JobsCorrect, PTL DEF Spec

\* One server: a number stays above the others until its job has started.
LEMMA NumbersHighStep ==
    ASSUME JobsInv, NumbersBounded, JobsInv', [Next]_vars, OneServer,
           NumbersHigh, ReplaysNumbered
    PROVE  NumbersHigh' /\ ReplaysNumbered'
<1>1. jobs \in Seq(Record) /\ jobs' \in Seq(Record)
  BY DEF JobsInv, Types
<1>2. NumbersHigh'
  <2>1. SUFFICES ASSUME NEW s \in Servers, pc'[s] = "open", request'[s].source # 0
                 PROVE  \A x \in RelatedAttempts(request[s].source)' : x < attempt'[s]
    BY DEF NumbersHigh
  <2>2. /\ jobs' = jobs /\ request'[s] = request[s]
        /\ \/ pc[s] = "open" /\ attempt'[s] = attempt[s]
           \/ attempt'[s] = NextAttempt(request[s].source)
    BY <2>1, OnTheWay
  <2>3. RelatedAttempts(request[s].source)' = RelatedAttempts(request[s].source)
    BY <2>2 DEF RelatedAttempts
  <2>4. \A x \in RelatedAttempts(request[s].source) : x < NextAttempt(request[s].source)
    BY <2>1, <2>2, NextNumber
  <2> QED
    BY <2>1, <2>2, <2>3, <2>4 DEF NumbersHigh
<1>3. \A i \in DOMAIN jobs :
            /\ i \in DOMAIN jobs' /\ i \in 1..Len(jobs)
            /\ jobs'[i].source = jobs[i].source /\ jobs'[i].attempt = jobs[i].attempt
  BY <1>1, RecordChanges DEF RecordsSettle
<1>4. ASSUME Len(jobs') = Len(jobs)
      PROVE  ReplaysNumbered'
  <2>1. DOMAIN jobs' = DOMAIN jobs
    BY <1>1, <1>4
  <2>2. ASSUME NEW i \in DOMAIN jobs', NEW k \in DOMAIN jobs'
        PROVE  /\ jobs'[k].source = i => jobs'[i].attempt < jobs'[k].attempt
               /\ jobs'[i].source = jobs'[k].source /\ jobs'[i].source # 0 /\ i < k
                    => jobs'[i].attempt < jobs'[k].attempt
    BY <1>3, <2>1 DEF ReplaysNumbered
  <2> QED
    BY <2>2 DEF ReplaysNumbered
<1>5. ASSUME NEW s \in Servers, Opened(s)
      PROVE  ReplaysNumbered'
  <2> DEFINE n == Len(jobs) + 1
             source == request[s].source
  <2>1. jobs'[n].attempt = attempt[s] /\ jobs'[n].source = source /\ pc[s] = "open"
    BY <1>5 DEF Opened
  <2>2. DOMAIN jobs' = DOMAIN jobs \cup {n} /\ n \notin DOMAIN jobs /\ n \in Nat \ {0}
    <3>1. n \in Nat /\ n # 0 /\ Len(jobs') = n
      BY <1>1, <1>5 DEF Opened
    <3>2. DOMAIN jobs = 1..(n - 1) /\ DOMAIN jobs' = 1..n
      BY <1>1, <3>1
    <3> HIDE DEF n
    <3> QED
      BY <3>1, <3>2
  <2>3. \A i \in DOMAIN jobs : i < n
    BY <1>1
  <2>4. source = 0 \/ source \in DOMAIN jobs
    BY DEF JobsInv, ServerOK, LeavesOutIndexed
  <2>5. ASSUME NEW i \in DOMAIN jobs PROVE jobs[i].source = 0 \/ jobs[i].source \in DOMAIN jobs
    BY DEF JobsInv, RecordOK, LeavesOutIndexed
  <2>6. ASSUME NEW i \in DOMAIN jobs, source # 0, i = source \/ jobs[i].source = source
        PROVE  jobs'[i].attempt < jobs'[n].attempt
    <3>1. jobs[i].attempt \in RelatedAttempts(source)
      BY <2>6 DEF RelatedAttempts
    <3> QED
      BY <1>3, <2>1, <2>6, <3>1 DEF NumbersHigh
  <2>7. 0 \notin DOMAIN jobs
    BY <1>1
  <2> HIDE DEF n, source
  <2>8. ASSUME NEW i \in DOMAIN jobs', NEW k \in DOMAIN jobs', jobs'[k].source = i
        PROVE  jobs'[i].attempt < jobs'[k].attempt
    <3>1. CASE k = n
      BY <2>1, <2>2, <2>4, <2>6, <2>7, <2>8, <3>1
    <3>2. CASE k \in DOMAIN jobs
      <4>1. jobs[k].source = i
        BY <1>3, <2>8, <3>2
      <4>2. i \in DOMAIN jobs
        BY <2>2, <2>5, <2>8, <3>2, <4>1, <1>1
      <4> QED
        BY <1>3, <3>2, <4>1, <4>2 DEF ReplaysNumbered
    <3> QED
      BY <2>2, <3>1, <3>2
  <2>9. ASSUME NEW i \in DOMAIN jobs', NEW k \in DOMAIN jobs',
               jobs'[i].source = jobs'[k].source, jobs'[i].source # 0, i < k
        PROVE  jobs'[i].attempt < jobs'[k].attempt
    <3>1. CASE k = n
      <4>1. i \in DOMAIN jobs
        BY <2>2, <2>9, <3>1
      <4> QED
        BY <1>3, <2>1, <2>6, <2>9, <3>1, <4>1
    <3>2. CASE k \in DOMAIN jobs
      <4>1. i \in DOMAIN jobs
        <5>1. k < n /\ k \in Nat
          BY <1>1, <2>3, <3>2
        <5> QED
          BY <2>2, <2>9, <5>1
      <4> QED
        BY <1>3, <2>9, <3>2, <4>1 DEF ReplaysNumbered
    <3> QED
      BY <2>2, <3>1, <3>2
  <2> QED
    BY <2>8, <2>9 DEF ReplaysNumbered
<1> QED
  BY <1>2, <1>4, <1>5, RecordChanges

\* Attempt numbers (next_attempt_number): while one call runs at a time, the
\* replays of a job are numbered upwards from above its number.
THEOREM NumberingCorrect == ASSUME OneServer PROVE Spec => []ReplaysNumbered
<1>1. Init => NumbersHigh /\ ReplaysNumbered
  BY DEF Init, NumbersHigh, ReplaysNumbered
<1>2. /\ JobsInv /\ NumbersBounded /\ (JobsInv /\ NumbersBounded)' /\ [Next]_vars
      /\ NumbersHigh /\ ReplaysNumbered
      => (NumbersHigh /\ ReplaysNumbered)'
  BY NumbersHighStep, OneServer
<1> QED
  BY <1>1, <1>2, JobsCorrect, PTL DEF Spec

=============================================================================
