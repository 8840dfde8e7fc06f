---------------------------- MODULE Serving_proofs ----------------------------
(***************************************************************************)
(* Proofs about Serving, for any limit, any length of a window, any number *)
(* of keys, any requests and any settings of the server.                   *)
(***************************************************************************)
EXTENDS Serving, TLAPS

-----------------------------------------------------------------------------
(* One key: the times at which it was let through, its window, the clock. *)

\* The times are in order and past.
Ordered(times, t) ==
    /\ times \in Seq(Nat)
    /\ \A i \in 1..Len(times) : times[i] <= t
    /\ \A i, j \in 1..Len(times) : i <= j => times[i] <= times[j]

\* The window counts the latest requests, and opened with the first of them.
Counts(times, w) ==
    /\ w \in [reset : Nat, count : 1..RateLimit] /\ w.count <= Len(times)
    /\ times[Len(times) - w.count + 1] + WindowSeconds = w.reset

\* Only the last RateLimit - 1 requests before the window may have come less
\* than the length of a window before it opened.
LeavesOne(times, w) ==
    \A i \in 1..Len(times) :
        i <= Len(times) - w.count - RateLimit + 1 =>
            times[i] + 2 * WindowSeconds <= w.reset

\* The bound on the requests of one key.
Bounded(times) ==
    \A i, j \in 1..Len(times) :
        i <= j /\ times[j] < times[i] + WindowSeconds => j - i + 1 <= 2 * RateLimit - 1

KeyInv(times, w, t) ==
    Ordered(times, t) /\ Counts(times, w) /\ LeavesOne(times, w) /\ Bounded(times)

LimiterInv ==
    /\ now \in Nat
    /\ DOMAIN windows = DOMAIN admitted
    /\ \A key \in DOMAIN windows : KeyInv(admitted[key], windows[key], now)

\* The limit and the window are positive.
LEMMA Limits == RateLimit \in Nat \ {0} /\ WindowSeconds \in Nat \ {0}
BY ServingAssumption

\* The clock moves on.
LEMMA LaterStillHolds ==
    ASSUME NEW times, NEW w, NEW t \in Nat, KeyInv(times, w, t)
    PROVE  KeyInv(times, w, t + 1)
<1>1. Ordered(times, t + 1)
  BY DEF KeyInv, Ordered
<1> QED
  BY <1>1 DEF KeyInv

\* A request after the others keeps the times in order.
LEMMA AppendOrdered ==
    ASSUME NEW times, NEW t \in Nat, Ordered(times, t)
    PROVE  /\ Ordered(Append(times, t), t)
           /\ Len(Append(times, t)) = Len(times) + 1 /\ Len(times) \in Nat
           /\ \A i \in 1..Len(times) : Append(times, t)[i] = times[i] /\ times[i] \in Nat
           /\ Append(times, t)[Len(times) + 1] = t
BY DEF Ordered

\* A request keeps the bound when those 2 * RateLimit - 1 places before it came
\* a window's length earlier.
LEMMA AppendBounded ==
    ASSUME NEW times, NEW t \in Nat, Ordered(times, t), Bounded(times),
           \A i \in 1..Len(times) :
                i <= Len(times) - 2 * RateLimit + 2 => times[i] + WindowSeconds <= t
    PROVE  Bounded(Append(times, t))
<1> DEFINE n == Len(times)
           all == Append(times, t)
<1> USE Limits
<1>1. /\ Len(all) = n + 1 /\ n \in Nat
      /\ \A i \in 1..n : all[i] = times[i] /\ times[i] \in Nat
      /\ all[n + 1] = t
  BY AppendOrdered
<1> HIDE DEF n, all
<1>2. SUFFICES ASSUME NEW i \in 1..(n + 1), NEW j \in 1..(n + 1), i <= j,
                      all[j] < all[i] + WindowSeconds
               PROVE  j - i + 1 <= 2 * RateLimit - 1
  BY <1>1 DEF Bounded, all, n
<1>3. CASE j = n + 1 /\ i = n + 1
  BY <1>3
<1>4. CASE j = n + 1 /\ i \in 1..n
  <2>1. ~(times[i] + WindowSeconds <= t)
    BY <1>1, <1>2, <1>4
  <2>2. ~(i <= n - 2 * RateLimit + 2)
    BY <2>1, <1>4 DEF n
  <2> QED
    BY <2>2, <1>4, <1>1
<1>5. CASE j \in 1..n
  <2>1. i \in 1..n
    BY <1>5, <1>2, <1>1
  <2>2. all[i] = times[i] /\ all[j] = times[j]
    BY <1>1, <1>5, <2>1
  <2> QED
    BY <1>2, <1>5, <2>1, <2>2 DEF Bounded, n
<1> QED
  BY <1>1, <1>3, <1>4, <1>5

\* The first request of a key opens its window.
LEMMA FirstRequest ==
    ASSUME NEW t \in Nat
    PROVE  KeyInv(Append(<<>>, t), [reset |-> t + WindowSeconds, count |-> 1], t)
<1> DEFINE times == Append(<<>>, t)
<1> USE Limits
<1>1. times \in Seq(Nat) /\ Len(times) = 1 /\ times[1] = t
  OBVIOUS
<1> HIDE DEF times
<1>2. Ordered(times, t)
  BY <1>1 DEF Ordered
<1>3. Counts(times, [reset |-> t + WindowSeconds, count |-> 1])
  BY <1>1 DEF Counts
<1>4. LeavesOne(times, [reset |-> t + WindowSeconds, count |-> 1])
  BY <1>1 DEF LeavesOne
<1>5. Bounded(times)
  BY <1>1 DEF Bounded
<1> QED
  BY <1>2, <1>3, <1>4, <1>5 DEF KeyInv, times

\* A request at or after the reset time opens a new window.
LEMMA NewWindow ==
    ASSUME NEW times, NEW w, NEW t \in Nat, KeyInv(times, w, t), t >= w.reset
    PROVE  KeyInv(Append(times, t), [reset |-> t + WindowSeconds, count |-> 1], t)
<1> DEFINE n == Len(times)
           all == Append(times, t)
           next == [reset |-> t + WindowSeconds, count |-> 1]
<1> USE Limits
<1>1. /\ Ordered(all, t) /\ Len(all) = n + 1 /\ n \in Nat
      /\ \A i \in 1..n : all[i] = times[i] /\ times[i] \in Nat
      /\ all[n + 1] = t
  BY AppendOrdered DEF KeyInv
<1>2. /\ w.count \in 1..RateLimit /\ w.count <= n /\ w.reset \in Nat
      /\ times[n - w.count + 1] + WindowSeconds = w.reset
  BY DEF KeyInv, Counts
<1>3. \A i, j \in 1..n : i <= j => times[i] <= times[j]
  BY DEF KeyInv, Ordered
<1> HIDE DEF n, all, next
<1>4. ASSUME NEW i \in 1..n, i <= n - w.count + 1
      PROVE  times[i] + WindowSeconds <= t
  <2>1. n - w.count + 1 \in 1..n
    BY <1>1, <1>2
  <2>2. times[i] <= times[n - w.count + 1]
    BY <1>3, <1>4, <2>1
  <2> QED
    BY <1>1, <1>2, <2>1, <2>2, SMTT(30)
<1>5. /\ next.reset = t + WindowSeconds /\ next.count = 1
      /\ next \in [reset : Nat, count : 1..RateLimit]
  BY DEF next
<1>6. Counts(all, next)
  BY <1>1, <1>5 DEF Counts
<1>7. LeavesOne(all, next)
  <2>1. SUFFICES ASSUME NEW i \in 1..(n + 1), i <= n + 1 - 1 - RateLimit + 1
                 PROVE  all[i] + 2 * WindowSeconds <= t + WindowSeconds
    BY <1>1, <1>5 DEF LeavesOne
  <2>2. i \in 1..n /\ i <= n - w.count + 1
    BY <2>1, <1>1, <1>2
  <2> QED
    BY <2>2, <1>4, <1>1
<1>8. Bounded(all)
  <2>1. \A i \in 1..n : i <= n - 2 * RateLimit + 2 => times[i] + WindowSeconds <= t
    BY <1>4, <1>2, <1>1
  <2> QED
    BY <2>1, AppendBounded DEF KeyInv, n, all
<1> QED
  BY <1>1, <1>6, <1>7, <1>8 DEF KeyInv, all, next

\* A request before the reset time is counted in the window, while there is room.
LEMMA SameWindow ==
    ASSUME NEW times, NEW w, NEW t \in Nat, KeyInv(times, w, t),
           w.count < RateLimit
    PROVE  KeyInv(Append(times, t), [w EXCEPT !.count = @ + 1], t)
<1> DEFINE n == Len(times)
           all == Append(times, t)
           next == [w EXCEPT !.count = @ + 1]
<1> USE Limits
<1>1. /\ Ordered(all, t) /\ Len(all) = n + 1 /\ n \in Nat
      /\ \A i \in 1..n : all[i] = times[i] /\ times[i] \in Nat
      /\ all[n + 1] = t
  BY AppendOrdered DEF KeyInv
<1>2. /\ w.count \in 1..RateLimit /\ w.count <= n /\ w.reset \in Nat
      /\ times[n - w.count + 1] + WindowSeconds = w.reset
      /\ times[n - w.count + 1] <= t
  BY <1>1 DEF KeyInv, Counts, Ordered
<1>3. \A i \in 1..n : i <= n - w.count - RateLimit + 1 => times[i] + 2 * WindowSeconds <= w.reset
  BY DEF KeyInv, LeavesOne
<1>7. next.reset = w.reset /\ next.count = w.count + 1
      /\ next \in [reset : Nat, count : 1..RateLimit]
  BY DEF KeyInv, Counts
<1> HIDE DEF n, all, next
<1>4. Counts(all, next)
  <2>1. n + 1 - next.count + 1 = n - w.count + 1 /\ n - w.count + 1 \in 1..n
    BY <1>1, <1>2, <1>7, SMTT(30)
  <2> QED
    BY <1>1, <1>2, <1>7, <2>1, SMTT(30) DEF Counts
<1>5. LeavesOne(all, next)
  <2>1. ASSUME NEW i \in 1..(n + 1), i <= n + 1 - (w.count + 1) - RateLimit + 1
        PROVE  all[i] + 2 * WindowSeconds <= w.reset
    <3>1. i \in 1..n /\ i <= n - w.count - RateLimit + 1
      BY <2>1, <1>1, <1>2
    <3> QED
      BY <3>1, <1>3, <1>1
  <2> QED
    BY <2>1, <1>1, <1>2, <1>7 DEF LeavesOne
<1>6. Bounded(all)
  <2>1. ASSUME NEW i \in 1..n, i <= n - 2 * RateLimit + 2
        PROVE  times[i] + WindowSeconds <= t
    <3>1. i <= n - w.count - RateLimit + 1
      BY <2>1, <1>1, <1>2
    <3>2. times[i] + 2 * WindowSeconds <= w.reset
      BY <3>1, <1>3
    <3>3. /\ w.reset <= t + WindowSeconds
          /\ times[i] \in Nat
      BY <1>1, <1>2
    <3> QED
      BY <3>2, <3>3, <1>2
  <2> QED
    BY <2>1, AppendBounded DEF KeyInv, n, all
<1> QED
  BY <1>1, <1>4, <1>5, <1>6 DEF KeyInv, all, next

-----------------------------------------------------------------------------
(* All keys *)

\* Letting a key through changes its window and its times, and no other.
LEMMA AdmitChanges ==
    ASSUME NEW key, Admit(key), DOMAIN windows = DOMAIN admitted
    PROVE  /\ DOMAIN windows' = DOMAIN windows \cup {key} /\ DOMAIN admitted' = DOMAIN windows'
           /\ windows'[key] = NextWindow(key)
           /\ admitted'[key] = Append(TimesOf(key), now)
           /\ \A k \in DOMAIN windows \ {key} :
                windows'[k] = windows[k] /\ admitted'[k] = admitted[k]
BY DEF Admit, Put

\* A request that is let through keeps the windows right.
LEMMA AdmitStep ==
    ASSUME LimiterInv, NEW key, Allowed(key), Admit(key), now' = now
    PROVE  LimiterInv'
<1>1. now \in Nat /\ now' \in Nat
  BY DEF LimiterInv
<1>2. ASSUME key \notin DOMAIN windows
      PROVE  KeyInv(Append(TimesOf(key), now), NextWindow(key), now)
  <2>1. WindowOf(key) = [reset |-> 0, count |-> 0] /\ TimesOf(key) = <<>>
    BY <1>2 DEF WindowOf, TimesOf, LimiterInv
  <2>2. NextWindow(key) = [reset |-> now + WindowSeconds, count |-> 1]
    BY <2>1, <1>1 DEF NextWindow
  <2> QED
    BY <2>1, <2>2, <1>1, FirstRequest
<1>3. ASSUME key \in DOMAIN windows
      PROVE  KeyInv(Append(TimesOf(key), now), NextWindow(key), now)
  <2>1. /\ WindowOf(key) = windows[key] /\ TimesOf(key) = admitted[key]
        /\ KeyInv(TimesOf(key), WindowOf(key), now)
    BY <1>3 DEF WindowOf, TimesOf, LimiterInv
  <2>2. CASE now >= WindowOf(key).reset
    <3>1. NextWindow(key) = [reset |-> now + WindowSeconds, count |-> 1]
      BY <2>2 DEF NextWindow
    <3> QED
      BY <2>1, <2>2, <3>1, <1>1, NewWindow
  <2>3. CASE ~(now >= WindowOf(key).reset)
    <3>1. WindowOf(key).count < RateLimit
      BY <2>3 DEF Allowed
    <3>2. NextWindow(key) = [WindowOf(key) EXCEPT !.count = @ + 1]
      BY <2>3 DEF NextWindow
    <3> QED
      BY <2>1, <3>1, <3>2, <1>1, SameWindow
  <2> QED
    BY <2>2, <2>3
<1>4. KeyInv(admitted'[key], windows'[key], now)
  <2>1. windows'[key] = NextWindow(key) /\ admitted'[key] = Append(TimesOf(key), now)
    BY AdmitChanges DEF LimiterInv
  <2> QED
    BY <2>1, <1>2, <1>3
<1>5. ASSUME NEW k \in DOMAIN windows', k # key
      PROVE  KeyInv(admitted'[k], windows'[k], now)
  <2>1. DOMAIN windows = DOMAIN admitted
    BY DEF LimiterInv
  <2>2. k \in DOMAIN windows \ {key}
    BY <1>5, <2>1, AdmitChanges
  <2>3. windows'[k] = windows[k] /\ admitted'[k] = admitted[k]
    BY <2>1, <2>2, AdmitChanges
  <2> QED
    BY <2>2, <2>3 DEF LimiterInv
<1> QED
  BY <1>1, <1>4, <1>5, AdmitChanges DEF LimiterInv

\* Every step keeps the windows right: one of the limiter, one of the clock, or
\* one that touches neither.
LEMMA LimiterStep ==
    ASSUME LimiterInv, [Next]_vars
    PROVE  LimiterInv'
<1>1. CASE UNCHANGED <<now, windows, admitted>>
  BY <1>1 DEF LimiterInv
<1>2. CASE Tick
  BY <1>2, LaterStillHolds DEF Tick, LimiterInv
<1>3. ASSUME NEW c \in Conns, Accept(c)
      PROVE  LimiterInv'
  <2>1. CASE UNCHANGED <<windows, admitted>>
    BY <2>1, <1>1, <1>3 DEF Accept
  <2>2. CASE ~UNCHANGED <<windows, admitted>>
    <3> DEFINE key == RateLimitKey(load[c])
    <3>1. Allowed(key) /\ Admit(key)
      BY <2>2, <1>3 DEF Accept
    <3>2. now' = now
      BY <1>3 DEF Accept
    <3> QED
      BY <3>1, <3>2, AdmitStep
  <2> QED
    BY <2>1, <2>2
<1>4. ASSUME NEW c \in Conns, Resume(c)
      PROVE  UNCHANGED <<now, windows, admitted>>
  BY <1>4 DEF Resume, ReceivePart, Disconnect, Send
<1>5. CASE Finished
  BY <1>5, <1>1 DEF Finished, vars
<1>6. CASE UNCHANGED vars
  BY <1>6, <1>1 DEF vars
<1> QED
  BY <1>1, <1>2, <1>3, <1>4, <1>5, <1>6 DEF Next

\* The limiter (FixedWindowRateLimiter.allow): the windows of every key are as
\* LimiterInv says, at all times.
THEOREM LimiterCorrect == Spec => []LimiterInv
<1>1. Init => LimiterInv
  BY DEF Init, LimiterInv
<1>2. LimiterInv /\ [Next]_vars => LimiterInv'
  BY LimiterStep
<1> QED
  BY <1>1, <1>2, PTL DEF Spec

\* The bound (FixedWindowRateLimiter.allow): however the requests of a key fall
\* on the windows, an interval as long as a window holds at most
\* 2 * RateLimit - 1 that were let through.
THEOREM RateBoundCorrect == Spec => []RateBound
<1>1. LimiterInv => RateBound
  <2>1. SUFFICES ASSUME LimiterInv, NEW key \in DOMAIN admitted
                 PROVE  \A i, j \in DOMAIN admitted[key] :
                            /\ i <= j
                            /\ admitted[key][j] < admitted[key][i] + WindowSeconds
                            => j - i + 1 <= 2 * RateLimit - 1
    BY DEF RateBound
  <2>2. Bounded(admitted[key]) /\ admitted[key] \in Seq(Nat)
    BY <2>1 DEF LimiterInv, KeyInv, Ordered
  <2>3. DOMAIN admitted[key] = 1..Len(admitted[key])
    BY <2>2
  <2> QED
    BY <2>2, <2>3 DEF Bounded
<1> QED
  BY <1>1, LimiterCorrect, PTL

-----------------------------------------------------------------------------
(* Requests *)

Functions ==
    /\ DOMAIN pc = Conns /\ DOMAIN ran = Conns /\ DOMAIN status = Conns
    /\ got \in [Conns -> Nat]

\* A request that has not been answered has no status; one whose body is being
\* read was authorized, and so was one an operation ran for.  An authorized one
\* that is answered 401 has had its operation run.
CallOK(c) ==
    /\ pc[c] \in {"waiting", "reading", "sending"} \cup Over
    /\ got[c] \in 0..load[c].parts /\ ran[c] \in BOOLEAN /\ status[c] \in Codes
    /\ pc[c] \in {"sending", "answered"} <=> status[c] # 0
    /\ pc[c] = "waiting" => ran[c] = FALSE /\ got[c] = 0
    /\ pc[c] = "reading" => /\ AuthorizationError(load[c]) = "none"
                            /\ got[c] < load[c].parts /\ ran[c] = FALSE
    /\ status[c] = 429 => ran[c] = FALSE /\ got[c] = 0
    /\ IF AuthorizationError(load[c]) = "none" THEN status[c] = 401 => ran[c] = TRUE
       ELSE ran[c] = FALSE /\ got[c] = 0 /\ status[c] \in {0, 401, 500}

CallsInv ==
    /\ load \in Loads /\ config \in Configurations /\ Functions
    /\ \A c \in Conns \ DOMAIN load : pc[c] = "waiting"
    /\ \A c \in DOMAIN load : CallOK(c)

\* The requests are as ServingAssumption says.
LEMMA LoadFacts ==
    ASSUME load \in Loads
    PROVE  DOMAIN load \subseteq Conns /\ \A c \in DOMAIN load : load[c] \in Request
BY ServingAssumption

\* What the end of a dispatch leaves of a request that had no status.
EndsWith(c, codes) ==
    \/ /\ pc' = [pc EXCEPT ![c] = "sending"]
       /\ \E code \in codes : status' = [status EXCEPT ![c] = code]
    \/ /\ pc' = [pc EXCEPT ![c] = "escaped"]
       /\ status' = status

Permitted == Codes \ {0, 401, 429}

\* After an operation.
Ran == Codes \ {0, 429}

\* The errors that are not about the token or the limit, and that of a file
\* whose path makes it look like one about the token.
InnerErrors == {"validation_error", "value_error", "bad_reference", "unavailable",
                "http_ingest_disabled", "file_permission", "crash"}
RanErrors == InnerErrors \cup {"authorization_path"}

\* No error but those about the token and the limit says that it is one, save
\* that of a file.
LEMMA Statuses ==
    ASSUME NEW error
    PROVE  /\ ErrorStatus(error) \in Codes \ {0}
           /\ error \in InnerErrors => ErrorStatus(error) \in Permitted
           /\ error \in RanErrors => ErrorStatus(error) \in Ran
<1>1. ErrorStatus(error) \in {400, 503, 429, 401, 403, 500}
  BY DEF ErrorStatus
<1>2. error \in InnerErrors => ErrorStatus(error) \in {400, 503, 403, 500}
  BY DEF ErrorStatus, InnerErrors
<1>3. error = "authorization_path" => ErrorStatus(error) = 401
  BY DEF ErrorStatus
<1> QED
  BY <1>1, <1>2, <1>3 DEF Codes, Permitted, Ran, RanErrors

\* A request that fails ends with such a status, or without any.
LEMMA FailEnds ==
    ASSUME NEW c, NEW error, Fail(c, error)
    PROVE  /\ EndsWith(c, Codes \ {0})
           /\ EndsWith(c, {ErrorStatus(error)})
           /\ error \in InnerErrors => EndsWith(c, Permitted)
           /\ error \in RanErrors => EndsWith(c, Ran)
BY Statuses DEF Fail, EndsWith

\* So does one for which an operation ran.
LEMMA RunEnds ==
    ASSUME NEW c, NEW codes \in SUBSET Ran, NEW errors \in SUBSET RanErrors,
           Run(c, codes, errors)
    PROVE  ran' = [ran EXCEPT ![c] = TRUE] /\ EndsWith(c, Ran)
BY FailEnds DEF Run, Answer, EndsWith

\* Either end of a dispatch.
Dispatched(c) == \/ EndsWith(c, Permitted) /\ ran' = ran
                 \/ EndsWith(c, Ran) /\ ran' = [ran EXCEPT ![c] = TRUE]

\* GET (_dispatch_get) ends the request.
LEMMA GetEnds ==
    ASSUME NEW c, DispatchGet(c)
    PROVE  Dispatched(c)
<1> DEFINE path == load[c].path
<1>1. CASE path = "health"
  <2>1. Run(c, {200}, {})
    BY <1>1 DEF DispatchGet
  <2>2. {200} \in SUBSET Ran /\ {} \in SUBSET RanErrors
    BY DEF Ran, Codes
  <2> QED
    BY <2>1, <2>2, RunEnds DEF Dispatched
<1>2. CASE path = "ready"
  <2>1. Run(c, {Readiness}, {})
    BY <1>2 DEF DispatchGet
  <2>2. {Readiness} \in SUBSET Ran /\ {} \in SUBSET RanErrors
    BY DEF Readiness, Ran, Codes
  <2> QED
    BY <2>1, <2>2, RunEnds DEF Dispatched
<1>3. CASE path = "job" /\ ~(~load[c].named)
  <2>1. Run(c, {200, 404}, OperationErrors \ {"value_error"})
    BY <1>3 DEF DispatchGet
  <2>2. {200, 404} \in SUBSET Ran /\ OperationErrors \ {"value_error"} \in SUBSET RanErrors
    BY DEF Ran, Codes, InnerErrors, RanErrors, OperationErrors, FileErrors
  <2> QED
    BY <2>1, <2>2, RunEnds DEF Dispatched
<1>4. CASE (path = "job" /\ ~load[c].named) \/ path \notin {"health", "ready", "job"}
  <2>1. Reply(c, 400) \/ Reply(c, 404)
    BY <1>4 DEF DispatchGet
  <2> QED
    BY <2>1 DEF Reply, Answer, Dispatched, EndsWith, Permitted, Codes
<1> QED
  BY <1>1, <1>2, <1>3, <1>4

\* The schemas and the body's form give no other errors.
LEMMA PayloadErrors ==
    ASSUME NEW path, NEW body
    PROVE  PayloadError(path, body) \in InnerErrors \cup {"none"}
           /\ (body = "not_json" => PayloadError(path, body) # "none")
BY DEF PayloadError, InnerErrors

\* POST (_dispatch_post), once its body has been read, ends the request.
LEMMA PostEnds ==
    ASSUME NEW c, NEW body, DispatchPost(c, body)
    PROVE  Dispatched(c)
<1> DEFINE error == PayloadError(load[c].path, body)
<1>1. \/ Reply(c, 404) \/ Reply(c, 400)
      \/ error # "none" /\ Refuse(c, error)
      \/ Refuse(c, "unavailable") \/ Refuse(c, "http_ingest_disabled")
      \/ Run(c, {200}, OperationErrors)
  BY PayloadErrors DEF DispatchPost
<1>2. CASE Reply(c, 404) \/ Reply(c, 400)
  BY <1>2 DEF Reply, Answer, Dispatched, EndsWith, Permitted, Codes
<1>3. ASSUME NEW e \in InnerErrors, Refuse(c, e)
      PROVE  Dispatched(c)
  BY <1>3, FailEnds DEF Refuse, Dispatched
<1>4. ASSUME Run(c, {200}, OperationErrors)
      PROVE  Dispatched(c)
  <2>1. {200} \in SUBSET Ran /\ OperationErrors \in SUBSET RanErrors
    BY DEF Ran, Codes, InnerErrors, RanErrors, OperationErrors, FileErrors
  <2> QED
    BY <1>4, <2>1, RunEnds DEF Dispatched
<1>5. /\ error # "none" => error \in InnerErrors
      /\ "unavailable" \in InnerErrors /\ "http_ingest_disabled" \in InnerErrors
  BY PayloadErrors DEF InnerErrors
<1> QED
  BY <1>1, <1>2, <1>3, <1>4, <1>5

\* A step of one request leaves the others as they are.
LEMMA OneCall ==
    ASSUME CallsInv, NEW c \in DOMAIN load, UNCHANGED <<config, load>>, Functions',
           \A d \in Conns \ {c} : /\ pc'[d] = pc[d] /\ got'[d] = got[d]
                                  /\ ran'[d] = ran[d] /\ status'[d] = status[d],
           CallOK(c)'
    PROVE  CallsInv'
<1>1. ASSUME NEW d \in DOMAIN load, d # c
      PROVE  CallOK(d)'
  <2>1. d \in Conns /\ CallOK(d)
    BY <1>1, LoadFacts DEF CallsInv
  <2>2. /\ pc'[d] = pc[d] /\ got'[d] = got[d] /\ ran'[d] = ran[d] /\ status'[d] = status[d]
        /\ load'[d] = load[d] /\ AuthorizationError(load[d])' = AuthorizationError(load[d])
    BY <1>1, <2>1 DEF AuthorizationError
  <2> QED
    BY <2>1, <2>2 DEF CallOK
<1> QED
  BY <1>1 DEF CallsInv

\* What a request may end with: once it is authorized, with its operation run,
\* without it, or over the limit; and before, with its refusal.
EndOK(c, codes) ==
    IF AuthorizationError(load[c]) = "none"
    THEN \/ codes \subseteq Ran /\ ran' = [ran EXCEPT ![c] = TRUE]
         \/ codes \subseteq Permitted /\ ran' = ran
         \/ codes \subseteq {429} /\ ran' = ran /\ pc[c] = "waiting" /\ got' = got
    ELSE codes \subseteq {401, 500} /\ ran' = ran /\ pc[c] = "waiting" /\ got' = got

\* A request that had no answer and ends in a dispatch is as it should be.
LEMMA EndedCall ==
    ASSUME CallsInv, NEW c \in DOMAIN load, NEW codes \in SUBSET (Codes \ {0}),
           UNCHANGED <<config, load>>,
           pc[c] \in {"waiting", "reading"},
           EndsWith(c, codes),
           \E n \in 0..load[c].parts : got' = [got EXCEPT ![c] = n],
           EndOK(c, codes)
    PROVE  CallsInv'
<1>0. load[c].parts \in Nat
  BY LoadFacts DEF CallsInv, Request
<1>1. c \in Conns /\ CallOK(c) /\ Functions
  BY LoadFacts DEF CallsInv
<1>2. status[c] = 0 /\ ran[c] = FALSE
  BY <1>1 DEF CallOK
<1>3. Functions' /\ \A d \in Conns \ {c} : /\ pc'[d] = pc[d] /\ got'[d] = got[d]
                                           /\ ran'[d] = ran[d] /\ status'[d] = status[d]
  <2>1. ran' \in {ran, [ran EXCEPT ![c] = TRUE]}
    BY DEF EndOK
  <2> QED
    BY <1>0, <1>1, <2>1 DEF Functions, EndsWith
<1>4. \/ pc'[c] = "sending" /\ status'[c] \in codes
      \/ pc'[c] = "escaped" /\ status'[c] = 0
  BY <1>1, <1>2 DEF Functions, EndsWith
<1>5. ran'[c] \in BOOLEAN
  BY <1>1, <1>2 DEF Functions, EndOK
<1>6. got'[c] \in 0..load[c].parts
  BY <1>1 DEF Functions
<1>7. /\ status'[c] = 429 => ran'[c] = FALSE /\ got'[c] = 0
      /\ IF AuthorizationError(load[c]) = "none" THEN status'[c] = 401 => ran'[c] = TRUE
         ELSE ran'[c] = FALSE /\ got'[c] = 0 /\ status'[c] \in {0, 401, 500}
  <2>1. CASE codes \subseteq Ran /\ ran' = [ran EXCEPT ![c] = TRUE]
                /\ AuthorizationError(load[c]) = "none"
    <3>1. ran'[c] = TRUE
      BY <1>1, <2>1 DEF Functions
    <3> QED
      BY <1>4, <2>1, <3>1 DEF Ran
  <2>2. CASE codes \subseteq Permitted /\ AuthorizationError(load[c]) = "none"
    BY <1>4, <2>2 DEF Permitted
  <2>3. CASE ran' = ran /\ pc[c] = "waiting" /\ got' = got
    <3>1. ran'[c] = FALSE /\ got'[c] = 0
      BY <1>1, <1>2, <2>3 DEF CallOK
    <3>2. ran' # [ran EXCEPT ![c] = TRUE]
      BY <1>1, <1>2, <2>3 DEF Functions
    <3>3. IF AuthorizationError(load[c]) = "none" THEN codes \subseteq Permitted \cup {429}
          ELSE codes \subseteq {401, 500}
      BY <3>2 DEF EndOK
    <3> QED
      BY <1>4, <3>1, <3>3 DEF Permitted
  <2> QED
    BY <2>1, <2>2, <2>3 DEF EndOK
<1>8. load'[c] = load[c] /\ AuthorizationError(load[c])' = AuthorizationError(load[c])
  BY DEF AuthorizationError
<1>9. status'[c] \in Codes /\ (pc'[c] \in {"sending", "answered"} <=> status'[c] # 0)
  <2>1. codes \subseteq Codes /\ 0 \notin codes /\ 0 \in Codes
    BY DEF Codes
  <2> QED
    BY <1>4, <2>1
<1>10. CallOK(c)'
  BY <1>4, <1>5, <1>6, <1>7, <1>8, <1>9, SMTT(30) DEF CallOK, Over
<1> QED
  BY <1>3, <1>10, OneCall

\* So is one that is authorized and was dispatched.
LEMMA DispatchedCall ==
    ASSUME CallsInv, NEW c \in DOMAIN load, UNCHANGED <<config, load>>,
           pc[c] \in {"waiting", "reading"}, AuthorizationError(load[c]) = "none",
           Dispatched(c),
           \E n \in 0..load[c].parts : got' = [got EXCEPT ![c] = n]
    PROVE  CallsInv'
<1>1. Permitted \in SUBSET (Codes \ {0}) /\ Ran \in SUBSET (Codes \ {0})
  BY DEF Permitted, Ran
<1>2. CASE EndsWith(c, Permitted) /\ ran' = ran
  <2>1. EndOK(c, Permitted)
    BY <1>2 DEF EndOK
  <2> QED
    BY <1>1, <1>2, <2>1, EndedCall
<1>3. CASE EndsWith(c, Ran) /\ ran' = [ran EXCEPT ![c] = TRUE]
  <2>1. EndOK(c, Ran)
    BY <1>3 DEF EndOK
  <2> QED
    BY <1>1, <1>3, <2>1, EndedCall
<1> QED
  BY <1>2, <1>3 DEF Dispatched

\* A refusal by the authorizer says so, or that its comparison failed.
LEMMA RefusalCodes ==
    ASSUME NEW r \in Request, AuthorizationError(r) # "none"
    PROVE  ErrorStatus(AuthorizationError(r)) \in {401, 500}
<1>1. ASSUME NEW error, error \in {"authorization_unconfigured", "missing_authorization",
                                   "invalid_authorization"}
      PROVE  ErrorStatus(error) = 401
  BY <1>1 DEF ErrorStatus
<1>2. ErrorStatus("type_error") = 500
  BY DEF ErrorStatus
<1>3. r.token \in {"missing", "wrong", "foreign", "right"}
  BY DEF Request
<1>4. AuthorizationError(r) \in {"authorization_unconfigured", "missing_authorization",
                               "invalid_authorization", "type_error", "none"}
  BY <1>3 DEF AuthorizationError
<1> QED
  BY <1>1, <1>2, <1>4

\* Everything up to the first await (_handle_http).
LEMMA AcceptCalls ==
    ASSUME CallsInv, NEW c \in Conns, Accept(c)
    PROVE  CallsInv'
<1>1. /\ c \in DOMAIN load /\ pc[c] = "waiting" /\ CallOK(c) /\ Functions
      /\ UNCHANGED <<config, load>> /\ got' = got
  BY DEF Accept, CallsInv
<1>2. /\ got[c] = 0 /\ got' = [got EXCEPT ![c] = 0] /\ load[c] \in Request
      /\ 0 \in 0..load[c].parts
  <2>1. load[c] \in Request
    BY <1>1, LoadFacts DEF CallsInv
  <2>2. got[c] = 0 /\ got \in [Conns -> Nat]
    BY <1>1 DEF CallOK, Functions
  <2> QED
    BY <1>1, <2>1, <2>2 DEF Request
<1>3. ASSUME NEW error, Refuse(c, error),
             \/ AuthorizationError(load[c]) = "none" /\ error = "rate_limit_exceeded"
             \/ error = AuthorizationError(load[c]) /\ error # "none"
      PROVE  CallsInv'
  <2> DEFINE codes == {ErrorStatus(error)}
  <2>1. EndsWith(c, codes) /\ codes \in SUBSET (Codes \ {0}) /\ ran' = ran
    BY <1>3, FailEnds, Statuses DEF Refuse
  <2>2. error = "rate_limit_exceeded" => ErrorStatus(error) = 429
    BY DEF ErrorStatus
  <2>3. error = AuthorizationError(load[c]) /\ error # "none" => ErrorStatus(error) \in {401, 500}
    BY <1>2, RefusalCodes
  <2>4. EndOK(c, codes)
    BY <1>1, <1>3, <2>1, <2>2, <2>3 DEF EndOK
  <2> QED
    BY <1>1, <1>2, <2>1, <2>4, EndedCall
<1>4. ASSUME AuthorizationError(load[c]) = "none", Dispatch(c)
      PROVE  CallsInv'
  <2>1. CASE Dispatched(c)
    BY <1>1, <1>2, <1>4, <2>1, DispatchedCall
  <2>2. CASE DispatchGet(c)
    BY <2>1, <2>2, GetEnds
  <2>3. CASE Reply(c, 405)
    <3>1. 405 \in Permitted
      BY DEF Permitted, Codes
    <3>2. Dispatched(c)
      BY <2>3, <3>1 DEF Reply, Answer, Dispatched, EndsWith
    <3> QED
      BY <2>1, <3>2
  <2>4. CASE pc' = [pc EXCEPT ![c] = "reading"] /\ UNCHANGED <<ran, status>>
    <3>1. Functions' /\ \A d \in Conns \ {c} : pc'[d] = pc[d]
      BY <1>1, <2>4 DEF Functions
    <3>2. CallOK(c)'
      BY <1>1, <1>2, <1>4, <2>4 DEF CallOK, Functions, AuthorizationError, Request
    <3> QED
      BY <1>1, <2>4, <3>1, <3>2, OneCall
  <2> QED
    BY <1>4, <2>2, <2>3, <2>4 DEF Dispatch
<1>5. \/ AuthorizationError(load[c]) # "none" /\ Refuse(c, AuthorizationError(load[c]))
      \/ AuthorizationError(load[c]) = "none" /\ Refuse(c, "rate_limit_exceeded")
      \/ AuthorizationError(load[c]) = "none" /\ Dispatch(c)
  BY DEF Accept
<1> QED
  BY <1>3, <1>4, <1>5

\* A message of the body, or the client's leaving (_read_body), and what
\* follows when there is no more to read.
LEMMA ReadCalls ==
    ASSUME CallsInv, NEW c \in Conns, ReceivePart(c) \/ Disconnect(c)
    PROVE  CallsInv'
<1>1. /\ pc[c] = "reading" /\ c \in DOMAIN load /\ CallOK(c) /\ Functions
      /\ UNCHANGED <<config, load>>
  BY DEF ReceivePart, Disconnect, CallsInv
<1>2. /\ AuthorizationError(load[c]) = "none" /\ load[c] \in Request
      /\ got[c] \in Nat /\ got[c] < load[c].parts /\ load[c].parts \in Nat
  BY <1>1, LoadFacts DEF CallOK, CallsInv, Request
<1>3. got' = [got EXCEPT ![c] = got[c]] \/ got' = [got EXCEPT ![c] = got[c] + 1]
  <2>1. got' = [got EXCEPT ![c] = got[c] + 1] \/ got' = got
    BY DEF ReceivePart, Disconnect
  <2>2. got \in [Conns -> Nat]
    BY <1>1 DEF Functions
  <2> QED
    BY <2>1, <2>2
<1>4. \E n \in 0..load[c].parts : got' = [got EXCEPT ![c] = n]
  BY <1>2, <1>3
<1>5. CASE \E body : DispatchPost(c, body)
  BY <1>1, <1>2, <1>4, <1>5, PostEnds, DispatchedCall
<1>6. CASE /\ UNCHANGED <<pc, ran, status>> /\ got' = [got EXCEPT ![c] = got[c] + 1]
           /\ got[c] + 1 < load[c].parts
  <2>1. Functions' /\ \A d \in Conns \ {c} : got'[d] = got[d]
    BY <1>1, <1>6 DEF Functions
  <2>2. CallOK(c)'
    <3>1. got'[c] = got[c] + 1
      BY <1>1, <1>6 DEF Functions
    <3>2. /\ load'[c] = load[c]
          /\ AuthorizationError(load[c])' = AuthorizationError(load[c])
      BY <1>1 DEF AuthorizationError
    <3>3. pc'[c] = "reading" /\ ran'[c] = ran[c] /\ status'[c] = status[c]
      BY <1>1, <1>6
    <3> QED
      BY <1>1, <1>2, <1>6, <3>1, <3>2, <3>3 DEF CallOK
  <2> QED
    BY <1>1, <1>6, <2>1, <2>2, OneCall
<1> QED
  BY <1>5, <1>6 DEF ReceivePart, Disconnect

\* The end of the response (_write_json).
LEMMA SendCalls ==
    ASSUME CallsInv, NEW c \in Conns, Send(c)
    PROVE  CallsInv'
<1>1. c \in DOMAIN load /\ pc[c] = "sending" /\ CallOK(c) /\ Functions
  BY DEF Send, CallsInv
<1>2. Functions' /\ \A d \in Conns \ {c} : pc'[d] = pc[d]
  BY <1>1 DEF Send, Functions
<1>3. CallOK(c)'
  BY <1>1, ZenonT(40) DEF Send, CallOK, Functions, AuthorizationError, Over
<1> QED
  BY <1>1, <1>2, <1>3, OneCall DEF Send

\* Every step keeps the requests right.
LEMMA CallsStep ==
    ASSUME CallsInv, [Next]_vars
    PROVE  CallsInv'
<1>1. CASE UNCHANGED <<config, load, pc, got, ran, status>>
  <2>1. ASSUME NEW c \in DOMAIN load PROVE CallOK(c)'
    <3>1. CallOK(c)
      BY DEF CallsInv
    <3>2. AuthorizationError(load[c])' = AuthorizationError(load[c])
      BY <1>1 DEF AuthorizationError
    <3> QED
      BY <1>1, <3>1, <3>2 DEF CallOK
  <2> QED
    BY <1>1, <2>1 DEF CallsInv, Functions
<1>2. ASSUME NEW c \in Conns, Accept(c) \/ Resume(c)
      PROVE  CallsInv'
  BY <1>2, AcceptCalls, ReadCalls, SendCalls DEF Resume
<1> QED
  BY <1>1, <1>2 DEF Next, Tick, Finished, vars

\* The requests (LexRAGASGIApplication._handle_http): every one is as CallOK
\* says, at all times.
THEOREM RequestsCorrect == Spec => []CallsInv
<1>1. Init => CallsInv
  <2>1. SUFFICES ASSUME Init PROVE CallsInv
    OBVIOUS
  <2>2. ASSUME NEW c \in DOMAIN load PROVE CallOK(c)
    <3>1. c \in Conns /\ load[c] \in Request
      BY <2>1, <2>2, LoadFacts DEF Init
    <3> QED
      BY <2>1, <3>1 DEF Init, CallOK, Request, Codes
  <2> QED
    BY <2>1, <2>2 DEF Init, CallsInv, Functions
<1>2. CallsInv /\ [Next]_vars => CallsInv'
  BY CallsStep
<1> QED
  BY <1>1, <1>2, PTL DEF Spec

\* Refusals (_handle_http, RequestAuthorizer.authorize, _enforce_rate_limit,
\* _permission_denied): without the right token a request has no effect but on
\* the open paths, nor has one over the limit, and an authorized one that is
\* answered 401 is so only after its operation ran.
THEOREM RefusalCorrect == Spec => []RefusedWithoutEffect
<1>1. CallsInv => RefusedWithoutEffect
  <2>1. ASSUME CallsInv, NEW c \in DOMAIN load, load[c].path \notin Open
        PROVE  AuthorizationError(load[c]) = "none" <=> config.keyed /\ load[c].token = "right"
    <3>1. load[c] \in Request /\ config.keyed \in BOOLEAN
      BY <2>1, LoadFacts, ServingAssumption DEF CallsInv
    <3>2. load[c].token \in {"missing", "wrong", "foreign", "right"}
      BY <3>1 DEF Request
    <3> QED
      BY <2>1, <3>1, <3>2 DEF AuthorizationError
  <2>2. ASSUME CallsInv, NEW c \in DOMAIN load
        PROVE  /\ ran[c] \in BOOLEAN
               /\ status[c] = 429 => ran[c] = FALSE /\ got[c] = 0
               /\ IF AuthorizationError(load[c]) = "none" THEN status[c] = 401 => ran[c] = TRUE
                  ELSE ran[c] = FALSE /\ got[c] = 0 /\ status[c] \in {0, 401, 500}
    BY <2>2 DEF CallsInv, CallOK
  <2>3. ASSUME CallsInv, NEW c \in DOMAIN load
        PROVE  (~ran[c] <=> ran[c] = FALSE) /\ (ran[c] <=> ran[c] = TRUE)
    BY <2>2, <2>3
  <2>4. ASSUME CallsInv, NEW c \in DOMAIN load, load[c].path \notin Open
        PROVE  IF config.keyed /\ load[c].token = "right"
               THEN /\ status[c] = 429 => ~ran[c] /\ got[c] = 0
                    /\ status[c] = 401 => ran[c]
               ELSE (~ran[c] /\ got[c] = 0) /\ status[c] \in {0, 401, 500}
    <3>1. CASE AuthorizationError(load[c]) = "none"
      BY <2>1, <2>2, <2>3, <2>4, <3>1, ZenonT(30)
    <3>2. CASE AuthorizationError(load[c]) # "none"
      BY <2>1, <2>2, <2>3, <2>4, <3>2, ZenonT(30)
    <3> QED
      BY <3>1, <3>2
  <2> QED
    BY <2>4, ZenonT(30) DEF RefusedWithoutEffect
<1> QED
  BY <1>1, RequestsCorrect, PTL

\* The types of all variables (the whole application).
THEOREM TypeCorrect == Spec => []TypeOK
<1> DEFINE Clock == now \in 0..MaxTime
<1>1. Init => Clock
  BY ServingAssumption DEF Init
<1>2. Clock /\ [Next]_vars => Clock'
  <2>1. SUFFICES ASSUME Clock, [Next]_vars PROVE Clock'
    OBVIOUS
  <2>2. CASE Tick
    BY <2>1, <2>2, ServingAssumption DEF Tick
  <2>3. CASE UNCHANGED now
    BY <2>1, <2>3
  <2>4. Tick \/ UNCHANGED now
    BY <2>1 DEF Next, Accept, Resume, ReceivePart, Disconnect, Send, Finished, vars
  <2> QED
    BY <2>2, <2>3, <2>4
<1>3. Spec => []Clock
  BY <1>1, <1>2, PTL DEF Spec
<1>4. Clock /\ LimiterInv /\ CallsInv => TypeOK
  <2>1. ASSUME LimiterInv, NEW key \in DOMAIN windows
        PROVE  windows[key].count \in 1..RateLimit /\ windows[key].reset \in Nat
    BY <2>1 DEF LimiterInv, KeyInv, Counts
  <2>2. ASSUME CallsInv, NEW c \in DOMAIN load
        PROVE  /\ pc[c] \in {"waiting", "reading", "sending"} \cup Over
               /\ got[c] \in 0..load[c].parts /\ ran[c] \in BOOLEAN
               /\ status[c] \in Codes
               /\ pc[c] \in {"sending", "answered"} <=> status[c] # 0
    BY <2>2 DEF CallsInv, CallOK
  <2> QED
    BY <2>1, <2>2 DEF TypeOK, LimiterInv
<1> QED
  BY <1>3, <1>4, LimiterCorrect, RequestsCorrect, PTL

=============================================================================
