------------------------------ MODULE SpendGate ------------------------------
(***************************************************************************)
(* A limit on usage that is checked before a request is forwarded and      *)
(* charged after it has been answered.  What such a gate can promise, when *)
(* requests overlap between the check and the charge and the limit may be  *)
(* changed at any time, is a bounded overshoot.  policy/budget_limiter.py  *)
(* is three of them: calls per minute, dollars per hour, dollars per day.  *)
(***************************************************************************)
EXTENDS Naturals, FiniteSets

CONSTANTS
    Request,    \* requests that can be in flight together
    MaxWeight,  \* the most one request is charged
    Limit,      \* limits the gate may be given
    NoLimit     \* the gate before a limit is configured

\* What the theorems about a gate assume of its constants.
GateAssumption ==
    /\ IsFiniteSet(Request)
    /\ MaxWeight \in Nat
    /\ Limit \subseteq Nat
    /\ NoLimit \notin Nat

VARIABLES
    limit,      \* usage up to which requests are admitted
    usage,      \* what the requests of the current window were charged
    inflight,   \* requests admitted and not yet answered
    owed        \* usage and outstanding charges when the limit was last set

vars == <<limit, usage, inflight, owed>>

Outstanding == MaxWeight * Cardinality(inflight)

Init ==
    /\ limit = NoLimit
    /\ usage = 0
    /\ inflight = {}
    /\ owed = 0

\* A limit is configured or changed; usage so far is kept.
SetLimit(l) ==
    /\ limit' = l
    /\ owed' = usage + Outstanding
    /\ UNCHANGED <<usage, inflight>>

\* The check: usage so far is within the limit.
Admit(r) ==
    /\ r \notin inflight
    /\ limit # NoLimit => usage <= limit
    /\ inflight' = inflight \cup {r}
    /\ UNCHANGED <<limit, usage, owed>>

\* The request has been answered and is charged.
Charge(r, weight) ==
    /\ r \in inflight
    /\ usage' = usage + weight
    /\ inflight' = inflight \ {r}
    /\ UNCHANGED <<limit, owed>>

\* The request ends without a charge.
Waive(r) ==
    /\ r \in inflight
    /\ inflight' = inflight \ {r}
    /\ UNCHANGED <<limit, usage, owed>>

\* The window slides: old charges no longer count.
Slide(u) ==
    /\ u <= usage
    /\ usage' = u
    /\ UNCHANGED <<limit, inflight, owed>>

Next ==
    \/ \E l \in Limit : SetLimit(l)
    \/ \E r \in Request : Admit(r) \/ Waive(r) \/ \E x \in 0..MaxWeight : Charge(r, x)
    \/ \E u \in 0..usage : Slide(u)

Spec == Init /\ [][Next]_vars

-----------------------------------------------------------------------------
TypeOK ==
    /\ limit \in Limit \cup {NoLimit}
    /\ usage \in Nat
    /\ inflight \in SUBSET Request
    /\ owed \in Nat

Overshoot == MaxWeight * Cardinality(Request)

(* Usage exceeds the limit by at most one charge per concurrent request,   *)
(* beyond what was already used or outstanding when the limit was set.     *)
OvershootBounded ==
    limit # NoLimit => usage <= limit + Overshoot \/ usage <= owed
==============================================================================
