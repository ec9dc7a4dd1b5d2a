------------------------- MODULE CircuitBreakerProofs -------------------------
(* What CircuitBreaker guarantees for any number of callers and any        *)
(* thresholds and timeout.                                                 *)
EXTENDS CircuitBreaker, TLAPS

(* The strengthening: the two clocks agree as far as the breaker relies on *)
(* them, and its counters never run ahead of the outcomes reported.        *)
ClockInv ==
    /\ state = "open" => elapsed <= sinceTrip
    /\ state # "open" => sinceTrip = RecoveryTimeout

CountInv ==
    /\ state = "half_open" => succs < HalfOpenSuccessThreshold /\ succs <= good
    /\ state = "closed" => fails < FailureThreshold /\ fails <= bad

IInv == TypeOK /\ ClockInv /\ CountInv

LEMMA InitIInv == Init => IInv
  BY ThresholdAssumption DEF Init, IInv, TypeOK, ClockInv, CountInv

(* Reading the state keeps the invariant, whoever reads it. *)
LEMMA EvaluateKeeps ==
  ASSUME IInv, Evaluate, UNCHANGED <<fails, healthy, ghosts>>,
         call' \in [Caller -> {"idle", "upstream", "rejected"}]
  PROVE  IInv'
<1>. USE ThresholdAssumption DEF IInv
<1>1. TypeOK'
  BY DEF TypeOK, Evaluate, ghosts
<1>2. ClockInv'
  BY DEF TypeOK, ClockInv, Evaluate, TimedOut, ghosts
<1>3. CountInv'
  BY DEF TypeOK, CountInv, Evaluate, TimedOut, ghosts
<1>4. QED
  BY <1>1, <1>2, <1>3

LEMMA StepIInv ==
  ASSUME IInv, [Next]_vars
  PROVE  IInv'
<1>. USE ThresholdAssumption DEF IInv
<1>1. ASSUME NEW r \in Caller, Admit(r) PROVE IInv'
  BY <1>1, EvaluateKeeps DEF Admit, TypeOK
<1>2. ASSUME NEW r \in Caller, Reject(r) PROVE IInv'
  BY <1>2, EvaluateKeeps DEF Reject, TypeOK
<1>3. ASSUME NEW r \in Caller, Succeed(r) PROVE IInv'
  <2>1. TypeOK'
    BY <1>3 DEF Succeed, RecordSuccess, CloseOnProbe, TypeOK, CountInv, UpTo
  <2>2. ClockInv'
    BY <1>3 DEF Succeed, RecordSuccess, CloseOnProbe, TypeOK, ClockInv
  <2>3. CountInv'
    BY <1>3 DEF Succeed, RecordSuccess, CloseOnProbe, TypeOK, CountInv, UpTo
  <2>4. QED
    BY <2>1, <2>2, <2>3
<1>4. ASSUME NEW r \in Caller, Fail(r) PROVE IInv'
  <2>1. TypeOK'
    BY <1>4 DEF Fail, RecordFailure, TypeOK, UpTo
  <2>2. ClockInv'
    BY <1>4 DEF Fail, RecordFailure, TypeOK, ClockInv
  <2>3. CountInv'
    BY <1>4 DEF Fail, RecordFailure, TypeOK, CountInv, UpTo
  <2>4. QED
    BY <2>1, <2>2, <2>3
<1>5. ASSUME NEW r \in Caller, Abandon(r) PROVE IInv'
  BY <1>5 DEF Abandon, breakerVars, ghosts, TypeOK, ClockInv, CountInv
<1>6. CASE Scrape
  BY <1>6, EvaluateKeeps DEF Scrape, TypeOK
<1>7. CASE Tick
  BY <1>7 DEF Tick, UpTo, TypeOK, ClockInv, CountInv
<1>8. CASE UpstreamChanges
  BY <1>8 DEF UpstreamChanges, breakerVars, ghosts, TypeOK, ClockInv, CountInv
<1>9. CASE UNCHANGED vars
  BY <1>9 DEF vars, breakerVars, ghosts, TypeOK, ClockInv, CountInv
<1>10. QED
  BY <1>1, <1>2, <1>3, <1>4, <1>5, <1>6, <1>7, <1>8, <1>9 DEF Next

LEMMA IInvariant == Spec => []IInv
  BY InitIInv, StepIInv, PTL DEF Spec

(* Every variable keeps its type; the counters stay within the thresholds. *)
THEOREM TypeCorrect == Spec => []TypeOK
  BY IInvariant, PTL DEF IInv

(* A closed circuit tolerates at least one more failure.                   *)
THEOREM Tolerates == Spec => []ClosedToleratesFailure
<1>1. IInv => ClosedToleratesFailure
  BY DEF IInv, CountInv, ClosedToleratesFailure
<1>2. QED
  BY <1>1, IInvariant, PTL

-----------------------------------------------------------------------------
(* The action properties: each step that admits, closes or trips is one of *)
(* the actions below, and the invariant gives what the property asks of it. *)

(* Nothing goes upstream within the recovery timeout of a trip.            *)
THEOREM FailsFast == Spec => FailFast
<1>1. ASSUME IInv, [Next]_vars, NEW r \in Caller, call[r] # "upstream", call'[r] = "upstream"
      PROVE  sinceTrip >= RecoveryTimeout
  <2>. USE <1>1, ThresholdAssumption DEF IInv
  <2>1. Admit(r)
    BY DEF Next, vars, TypeOK, Admit, Reject, Scrape, Succeed, Fail, Abandon, Tick, UpstreamChanges
  <2>2. CASE TimedOut
    BY <2>2 DEF TimedOut, ClockInv, TypeOK
  <2>3. CASE ~TimedOut
    BY <2>1, <2>3 DEF Admit, Evaluate, ClockInv, TypeOK
  <2>4. QED
    BY <2>2, <2>3
<1>2. IInv /\ [Next]_vars
      => [\A r \in Caller :
             call[r] # "upstream" /\ call'[r] = "upstream" => sinceTrip >= RecoveryTimeout]_vars
  BY <1>1
<1>3. QED
  BY <1>2, IInvariant, PTL DEF Spec, FailFast

(* The circuit closes after half_open_success_threshold successes in a row. *)
THEOREM ClosesWhenEarned == Spec => CloseIsEarned
<1>1. ASSUME IInv, [Next]_vars, state # "closed", state' = "closed"
      PROVE  good' >= HalfOpenSuccessThreshold
  <2>. USE <1>1, ThresholdAssumption DEF IInv
  <2>1. PICK r \in Caller : Succeed(r)
    BY DEF Next, vars, breakerVars, TypeOK, Admit, Reject, Scrape, Evaluate, Fail, RecordFailure,
           Abandon, Tick, UpstreamChanges
  <2>2. CloseOnProbe
    BY <2>1 DEF Succeed, RecordSuccess
  <2>3. QED
    BY <2>1, <2>2 DEF Succeed, CloseOnProbe, CountInv, TypeOK, UpTo
<1>2. IInv /\ [Next]_vars
      => [state # "closed" /\ state' = "closed" => good' >= HalfOpenSuccessThreshold]_vars
  BY <1>1
<1>3. QED
  BY <1>2, IInvariant, PTL DEF Spec, CloseIsEarned

(* A closed circuit opens after failure_threshold failures in a row.       *)
THEOREM TripsWhenEarned == Spec => TripIsEarned
<1>1. ASSUME IInv, [Next]_vars, state = "closed", state' = "open"
      PROVE  bad' >= FailureThreshold
  <2>. USE <1>1, ThresholdAssumption DEF IInv
  <2>1. PICK r \in Caller : Fail(r)
    BY DEF Next, vars, breakerVars, TypeOK, Admit, Reject, Scrape, Evaluate, TimedOut, Succeed,
           RecordSuccess, CloseOnProbe, Abandon, Tick, UpstreamChanges
  <2>2. fails + 1 >= FailureThreshold
    BY <2>1 DEF Fail, RecordFailure
  <2>3. QED
    BY <2>1, <2>2 DEF Fail, CountInv, TypeOK, UpTo
<1>2. IInv /\ [Next]_vars
      => [state = "closed" /\ state' = "open" => bad' >= FailureThreshold]_vars
  BY <1>1
<1>3. QED
  BY <1>2, IInvariant, PTL DEF Spec, TripIsEarned
===============================================================================
