---------------------------- MODULE CircuitBreaker ----------------------------
(***************************************************************************)
(* The circuit breaker of one upstream profile (proxy/resilience.py) and   *)
(* the calls that use it (ProxyForwarder.forward in proxy/forwarder.py).   *)
(*                                                                         *)
(* forward asks check_can_execute, awaits the upstream, and reports the    *)
(* outcome with record_success or record_failure.  Calls overlap at the    *)
(* await, so an outcome may be reported long after the circuit moved on:   *)
(* failures of calls admitted while it was closed arrive while it is open, *)
(* and their successes count as probes while it is half open.              *)
(* The OPEN -> HALF_OPEN move is made lazily, by whoever reads the state   *)
(* property: a request or a scrape of the metrics.                         *)
(*                                                                         *)
(* Time is the number of ticks since _last_state_change, which the code    *)
(* compares with the recovery timeout and with nothing else, so it is      *)
(* counted up to that timeout; likewise the failures, which are only       *)
(* compared with their threshold, are counted up to it.                    *)
(***************************************************************************)
EXTENDS Naturals

CONSTANTS
    Caller,                     \* concurrent requests to this profile
    FailureThreshold,           \* failure_threshold
    RecoveryTimeout,            \* recovery_timeout, in ticks
    HalfOpenSuccessThreshold    \* half_open_success_threshold

ASSUME ThresholdAssumption ==
    /\ FailureThreshold \in Nat \ {0}
    /\ RecoveryTimeout \in Nat \ {0}
    /\ HalfOpenSuccessThreshold \in Nat \ {0}

VARIABLES
    state,      \* _state
    fails,      \* _consecutive_failures, up to FailureThreshold
    succs,      \* _consecutive_successes
    elapsed,    \* time since _last_state_change, up to RecoveryTimeout
    call,       \* what each caller is doing
    healthy,    \* whether the upstream answers below 500 at the moment
    sinceTrip,  \* ghost: time since the circuit last opened, up to RecoveryTimeout
    good,       \* ghost: successes reported since the last failure, up to the threshold
    bad         \* ghost: failures reported since the last success, up to the threshold

breakerVars == <<state, fails, succs, elapsed>>
ghosts == <<sinceTrip, good, bad>>
vars == <<breakerVars, call, healthy, ghosts>>

UpTo(bound, n) == IF n < bound THEN n ELSE bound

Init ==
    /\ state = "closed"
    /\ fails = 0
    /\ succs = 0
    /\ elapsed = 0
    /\ call = [r \in Caller |-> "idle"]
    /\ healthy = TRUE
    /\ sinceTrip = RecoveryTimeout
    /\ good = 0
    /\ bad = 0

TimedOut == state = "open" /\ elapsed >= RecoveryTimeout

\* Mutant: the successes of an earlier half-open period are kept.
EvaluateKeepingSuccesses ==
    /\ state' = IF TimedOut THEN "half_open" ELSE state
    /\ elapsed' = IF TimedOut THEN 0 ELSE elapsed
    /\ UNCHANGED succs

\* Mutant: the timeout restarts a half-open period as well.
EvaluateHalfOpenToo ==
    LET over == state # "closed" /\ elapsed >= RecoveryTimeout
    IN  /\ state' = IF over THEN "half_open" ELSE state
        /\ succs' = IF over THEN 0 ELSE succs
        /\ elapsed' = IF over THEN 0 ELSE elapsed

\* The state property: reading it may move an open circuit to half open.
Evaluate ==
    /\ state' = IF TimedOut THEN "half_open" ELSE state
    /\ succs' = IF TimedOut THEN 0 ELSE succs
    /\ elapsed' = IF TimedOut THEN 0 ELSE elapsed

\* check_can_execute returns: the call goes upstream.
Admit(r) ==
    /\ call[r] # "upstream"
    /\ Evaluate
    /\ state' # "open"
    /\ call' = [call EXCEPT ![r] = "upstream"]
    /\ UNCHANGED <<fails, healthy, ghosts>>

\* Mutant: a rejected request restarts the recovery timeout.
RejectRestarts(r) ==
    /\ call[r] # "upstream"
    /\ ~TimedOut
    /\ state = "open"
    /\ elapsed' = 0
    /\ call' = [call EXCEPT ![r] = "rejected"]
    /\ UNCHANGED <<state, succs, fails, healthy, ghosts>>

\* check_can_execute raises CircuitBreakerOpenError: 503, nothing goes upstream.
Reject(r) ==
    /\ call[r] # "upstream"
    /\ Evaluate
    /\ state' = "open"
    /\ call' = [call EXCEPT ![r] = "rejected"]
    /\ UNCHANGED <<fails, healthy, ghosts>>

\* GET /metrics renders breaker.state.
Scrape ==
    /\ Evaluate
    /\ UNCHANGED <<fails, call, healthy, ghosts>>

CloseOnProbe == state = "half_open" /\ succs + 1 >= HalfOpenSuccessThreshold

\* Mutant: closing the circuit keeps the failures that opened it.
RecordSuccessKeepingFailures ==
    /\ state' = IF CloseOnProbe THEN "closed" ELSE state
    /\ succs' = IF state = "half_open" THEN succs + 1 ELSE succs
    /\ fails' = IF state = "half_open" THEN fails ELSE 0
    /\ elapsed' = IF CloseOnProbe THEN 0 ELSE elapsed

\* Mutant: any success closes the circuit, an open one included.
RecordSuccessCloses ==
    /\ state' = IF state = "open" \/ CloseOnProbe THEN "closed" ELSE state
    /\ succs' = IF state = "half_open" THEN succs + 1 ELSE succs
    /\ fails' = IF state = "half_open" /\ ~CloseOnProbe THEN fails ELSE 0
    /\ elapsed' = IF CloseOnProbe THEN 0 ELSE elapsed

\* Mutant: a success while closed does not interrupt a run of failures.
RecordSuccessNoReset ==
    /\ state' = IF CloseOnProbe THEN "closed" ELSE state
    /\ succs' = IF state = "half_open" THEN succs + 1 ELSE succs
    /\ fails' = IF CloseOnProbe THEN 0 ELSE fails
    /\ elapsed' = IF CloseOnProbe THEN 0 ELSE elapsed

\* Mutant: successes are counted in every state.
RecordSuccessAlwaysCounting ==
    /\ state' = IF CloseOnProbe THEN "closed" ELSE state
    /\ succs' = succs + 1
    /\ fails' = IF state = "half_open" /\ ~CloseOnProbe THEN fails ELSE 0
    /\ elapsed' = IF CloseOnProbe THEN 0 ELSE elapsed

\* record_success
RecordSuccess ==
    /\ state' = IF CloseOnProbe THEN "closed" ELSE state
    /\ succs' = IF state = "half_open" THEN succs + 1 ELSE succs
    /\ fails' = IF state = "half_open" /\ ~CloseOnProbe THEN fails ELSE 0
    /\ elapsed' = IF CloseOnProbe THEN 0 ELSE elapsed

\* record_failure
RecordFailure ==
    /\ fails' = UpTo(FailureThreshold, fails + 1)
    /\ elapsed' = 0
    /\ state' = IF state = "half_open" \/ fails + 1 >= FailureThreshold THEN "open" ELSE state
    /\ UNCHANGED succs

\* An answer below 500 arrives.
Succeed(r) ==
    /\ call[r] = "upstream"
    /\ healthy
    /\ RecordSuccess
    /\ call' = [call EXCEPT ![r] = "idle"]
    /\ good' = UpTo(HalfOpenSuccessThreshold, good + 1)
    /\ bad' = 0
    /\ UNCHANGED <<healthy, sinceTrip>>

\* A 5xx answer or an httpx.RequestError.
Fail(r) ==
    /\ call[r] = "upstream"
    /\ ~healthy
    /\ RecordFailure
    /\ call' = [call EXCEPT ![r] = "idle"]
    /\ good' = 0
    /\ bad' = UpTo(FailureThreshold, bad + 1)
    /\ sinceTrip' = IF state # "open" /\ state' = "open" THEN 0 ELSE sinceTrip
    /\ UNCHANGED healthy

\* The call ends with nothing reported: it is cancelled, or raises an exception
\* that is not an httpx.RequestError.
Abandon(r) ==
    /\ call[r] = "upstream"
    /\ call' = [call EXCEPT ![r] = "idle"]
    /\ UNCHANGED <<breakerVars, healthy, ghosts>>

Tick ==
    /\ elapsed' = UpTo(RecoveryTimeout, elapsed + 1)
    /\ sinceTrip' = UpTo(RecoveryTimeout, sinceTrip + 1)
    /\ UNCHANGED <<state, fails, succs, call, healthy, good, bad>>

UpstreamChanges ==
    /\ healthy' = ~healthy
    /\ UNCHANGED <<breakerVars, call, ghosts>>

Next ==
    \/ \E r \in Caller : Admit(r) \/ Reject(r) \/ Succeed(r) \/ Fail(r) \/ Abandon(r)
    \/ Scrape
    \/ Tick
    \/ UpstreamChanges

Spec == Init /\ [][Next]_vars

(* Time passes, every call ends (httpx has a timeout), clients keep asking, *)
(* and not every call to a healthy upstream is cancelled.                   *)
Fairness ==
    /\ WF_vars(Tick)
    /\ \A r \in Caller :
         /\ WF_vars(Admit(r) \/ Reject(r))
         /\ WF_vars(Succeed(r) \/ Fail(r) \/ Abandon(r))
         /\ SF_vars(Succeed(r))

FairSpec == Spec /\ Fairness

-----------------------------------------------------------------------------
TypeOK ==
    /\ state \in {"closed", "open", "half_open"}
    /\ fails \in 0..FailureThreshold
    /\ succs \in 0..HalfOpenSuccessThreshold
    /\ elapsed \in 0..RecoveryTimeout
    /\ call \in [Caller -> {"idle", "upstream", "rejected"}]
    /\ healthy \in BOOLEAN
    /\ sinceTrip \in 0..RecoveryTimeout
    /\ good \in 0..HalfOpenSuccessThreshold
    /\ bad \in 0..FailureThreshold

(* Once the circuit has opened nothing goes upstream for at least the      *)
(* recovery timeout, whatever calls in flight report meanwhile.            *)
FailFast ==
    [][\A r \in Caller :
          call[r] # "upstream" /\ call'[r] = "upstream" => sinceTrip >= RecoveryTimeout]_vars

(* The circuit closes only after half_open_success_threshold successes     *)
(* were reported with no failure between them: the successes of an         *)
(* earlier, failed recovery never count.                                   *)
CloseIsEarned ==
    [][state # "closed" /\ state' = "closed" => good' >= HalfOpenSuccessThreshold]_vars

(* A closed circuit opens only when failure_threshold outcomes in a row,   *)
(* in the order they were reported, were failures.                         *)
TripIsEarned ==
    [][state = "closed" /\ state' = "open" => bad' >= FailureThreshold]_vars

(* A closed circuit always tolerates at least one more failure: it never   *)
(* starts a closed period with the failures of the one before.             *)
ClosedToleratesFailure == state = "closed" => fails < FailureThreshold

(* An open circuit does not stay open: late failures push the recovery     *)
(* back, but no call is admitted meanwhile, so they run out.               *)
OpenEnds == state = "open" ~> state # "open"

(* Once the upstream stays healthy the circuit closes and stays closed.    *)
Recovers == <>[]healthy => <>[](state = "closed")
===============================================================================
