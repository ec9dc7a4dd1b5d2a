---------------------------- MODULE BudgetLimiter ----------------------------
(***************************************************************************)
(* The sliding-window limiter of policy/budget_limiter.py for one service, *)
(* and the requests of that service as server.py runs them: check_budget   *)
(* when a request arrives, record_spend when its upstream has answered.    *)
(* The limiter's methods contain no await, so each is one step, but the    *)
(* whole forwarding lies between the two, and other requests run there.    *)
(* Services share nothing but the dictionaries that hold their entries.    *)
(*                                                                         *)
(* A transaction carries its age instead of its time stamp; ages grow with *)
(* Tick and stop one tick past the longest window, where every comparison  *)
(* of the code has the same outcome.  Dollars are integers.  server.py     *)
(* leaves estimated_cost at its default 0.                                 *)
(***************************************************************************)
EXTENDS Integers, Sequences, FiniteSets, FiniteSetsExt

CONSTANTS
    Request,        \* concurrent requests of the service
    Minute, Hour, Day,  \* 60, 3600 and 86400 seconds, in ticks
    Budget,         \* the budgets the service may be given
    Cost,           \* what CostEstimator may answer for a response
    NoBudget,       \* the service before set_budget
    MaxTransactions \* bound of the model: no request starts on a longer deque

ServiceBudget == [daily : Nat, hourly : Nat, rpm : Nat \ {0}]

ASSUME BudgetAssumption ==
    /\ Minute \in Nat /\ Hour \in Nat /\ Day \in Nat
    /\ Minute < Hour /\ Hour < Day
    /\ Budget \subseteq ServiceBudget
    /\ NoBudget \notin ServiceBudget \cup Nat
    /\ Cost \subseteq Int
    /\ IsFiniteSet(Request)
    /\ IsFiniteSet(Cost)

VARIABLES
    budget,     \* _budgets[service_id]
    txs,        \* _transactions[service_id]
    status,     \* what each request is doing
    owed        \* ghost: per window, usage and outstanding charges at set_budget

vars == <<budget, txs, status, owed>>

Window == {"minute", "hour", "day"}
Length(w) == CASE w = "minute" -> Minute [] w = "hour" -> Hour [] w = "day" -> Day

Transaction == [age : 0..(Day + 1), cost : Nat]
Inflight == {r \in Request : status[r] = "forwarding"}

\* Calls count one each in the minute, their cost in the hour and the day.
Weight(w, tx) == IF w = "minute" THEN 1 ELSE tx.cost
Total(w, s, within) == MapThenSumSet(LAMBDA i : Weight(w, s[i]),
                                     {i \in DOMAIN s : s[i].age <= within})

\* Mutant: at most one expired transaction is removed.
PruneOnce(s) == IF s # << >> /\ Head(s).age > Day THEN Tail(s) ELSE s

\* _prune_old_transactions: pop the oldest while it is more than a day old.
Prune(s) ==
    LET live == {i \in DOMAIN s : s[i].age <= Day}
    IN  IF live = {} THEN << >> ELSE SubSeq(s, Min(live), Len(s))

-----------------------------------------------------------------------------
(* check_budget *)

count_1m  == Total("minute", Prune(txs), Minute)
spend_1h  == Total("hour", Prune(txs), Hour)
spend_24h == Total("day", Prune(txs), Day + 1)

\* Mutant: one more call than the limit.
RateExceededLate == budget # NoBudget /\ count_1m > budget.rpm

RateExceeded   == budget # NoBudget /\ count_1m >= budget.rpm

\* Mutant: the hourly spend is compared with the daily limit.
HourlyExceededOfDay == budget # NoBudget /\ spend_1h > budget.daily

HourlyExceeded == budget # NoBudget /\ spend_1h > budget.hourly

DailyExceeded  == budget # NoBudget /\ spend_24h > budget.daily

Admissible == ~RateExceeded /\ ~HourlyExceeded /\ ~DailyExceeded

PruneOnCheck == txs' = IF budget = NoBudget THEN txs ELSE Prune(txs)

-----------------------------------------------------------------------------
Init ==
    /\ budget = NoBudget
    /\ txs = << >>
    /\ status = [r \in Request |-> "idle"]
    /\ owed = [w \in Window |-> 0]

LimitOf(w, b) == CASE w = "minute" -> b.rpm - 1 [] w = "hour" -> b.hourly [] w = "day" -> b.daily
Usage(w) == Total(w, txs, Length(w))
MaxCharge(w) == IF w = "minute" THEN 1 ELSE Max(Cost \cup {0})
Outstanding(w) == MaxCharge(w) * Cardinality(Inflight)

\* set_budget configures the service or changes its limits; its transactions stay.
SetBudget(b) ==
    /\ budget' = b
    /\ owed' = [w \in Window |-> Usage(w) + Outstanding(w)]
    /\ UNCHANGED <<txs, status>>

\* check_budget returns: the request goes on to its upstream.
Admit(r) ==
    /\ status[r] # "forwarding"
    /\ Len(txs) < MaxTransactions
    /\ Admissible
    /\ PruneOnCheck
    /\ status' = [status EXCEPT ![r] = "forwarding"]
    /\ UNCHANGED <<budget, owed>>

\* Mutant: a refused call counts as the latest one, so callers who retry keep the window full.
RejectRateRefreshing(r) ==
    /\ status[r] # "forwarding"
    /\ RateExceeded
    /\ txs' = [Prune(txs) EXCEPT ![Len(Prune(txs))] = [@ EXCEPT !.age = 0]]
    /\ status' = [status EXCEPT ![r] = "rate_limited"]
    /\ UNCHANGED <<budget, owed>>

\* check_budget raises RateLimitExceededError: 429.
RejectRate(r) ==
    /\ status[r] # "forwarding"
    /\ RateExceeded
    /\ PruneOnCheck
    /\ status' = [status EXCEPT ![r] = "rate_limited"]
    /\ UNCHANGED <<budget, owed>>

\* check_budget raises BudgetExceededError: 429, and an alert.
RejectSpend(r) ==
    /\ status[r] # "forwarding"
    /\ ~RateExceeded
    /\ HourlyExceeded \/ DailyExceeded
    /\ PruneOnCheck
    /\ status' = [status EXCEPT ![r] = "budget_exhausted"]
    /\ UNCHANGED <<budget, owed>>

\* Mutant: an estimate below zero is a credit.
RecordUnclamped(r) ==
    /\ status[r] = "forwarding"
    /\ \E c \in Cost : txs' = Append(Prune(txs), [age |-> 0, cost |-> c])
    /\ status' = [status EXCEPT ![r] = "idle"]
    /\ UNCHANGED <<budget, owed>>

\* The upstream has answered: record_spend, which clamps the cost at zero.
Record(r) ==
    /\ status[r] = "forwarding"
    /\ \E c \in Cost : txs' = Append(Prune(txs), [age |-> 0, cost |-> Max({c, 0})])
    /\ status' = [status EXCEPT ![r] = "idle"]
    /\ UNCHANGED <<budget, owed>>

\* The request ends before record_spend: it is blocked by the DLP guard, served
\* from the cache, refused by the circuit breaker, or its upstream is unreachable.
End(r) ==
    /\ status[r] = "forwarding"
    /\ status' = [status EXCEPT ![r] = "idle"]
    /\ UNCHANGED <<budget, txs, owed>>

\* get_metrics (the admin endpoints and the 80% warning) only prunes.
GetMetrics ==
    /\ budget # NoBudget
    /\ txs' = Prune(txs)
    /\ UNCHANGED <<budget, status, owed>>

Tick ==
    /\ txs' = [i \in DOMAIN txs |-> [txs[i] EXCEPT !.age = Min({@ + 1, Day + 1})]]
    /\ UNCHANGED <<budget, status, owed>>

Next ==
    \/ \E b \in Budget : SetBudget(b)
    \/ \E r \in Request : Admit(r) \/ RejectRate(r) \/ RejectSpend(r) \/ Record(r) \/ End(r)
    \/ GetMetrics
    \/ Tick

Spec == Init /\ [][Next]_vars

(* Time passes; a forwarded request may take for ever. *)
FairSpec == Spec /\ WF_vars(Tick)

-----------------------------------------------------------------------------
TypeOK ==
    /\ budget \in Budget \cup {NoBudget}
    /\ txs \in Seq(Transaction)
    /\ status \in [Request -> {"idle", "forwarding", "rate_limited", "budget_exhausted"}]
    /\ owed \in [Window -> Nat]

(* check_budget adds up the deque it has pruned; that is the spend of the  *)
(* last day, no more and no less, because the deque is in order of age.    *)
DailySpendIsExact == spend_24h = Usage("day")

LimitsOf(w) == {LimitOf(w, b) : b \in Budget}
CurrentLimit(w) == IF budget = NoBudget THEN NoBudget ELSE LimitOf(w, budget)

MinuteGate == INSTANCE SpendGate WITH
    limit <- CurrentLimit("minute"), usage <- Usage("minute"), inflight <- Inflight, owed <- owed["minute"],
    MaxWeight <- MaxCharge("minute"), Limit <- LimitsOf("minute"), NoLimit <- NoBudget

HourGate == INSTANCE SpendGate WITH
    limit <- CurrentLimit("hour"), usage <- Usage("hour"), inflight <- Inflight, owed <- owed["hour"],
    MaxWeight <- MaxCharge("hour"), Limit <- LimitsOf("hour"), NoLimit <- NoBudget

DayGate == INSTANCE SpendGate WITH
    limit <- CurrentLimit("day"), usage <- Usage("day"), inflight <- Inflight, owed <- owed["day"],
    MaxWeight <- MaxCharge("day"), Limit <- LimitsOf("day"), NoLimit <- NoBudget

(* Check, forward and charge implement a gate on the calls of a minute,    *)
(* with a limit one below rpm because the code compares with >= there, one *)
(* on the dollars of an hour and one on those of a day, although they all  *)
(* work on one deque and check_budget adds up for the day what pruning     *)
(* left and not what its age allows.                                       *)
WindowsAreGates ==
    /\ MinuteGate!Spec
    /\ HourGate!Spec
    /\ DayGate!Spec

(* In no window does usage exceed the limit by more than one charge per    *)
(* concurrent request, beyond what was used or outstanding at set_budget.  *)
OvershootBounded ==
    MinuteGate!OvershootBounded /\ HourGate!OvershootBounded /\ DayGate!OvershootBounded

(* Callers may retry as often as they like and charges of old requests may *)
(* still come in: a service that is refused is let in again some time      *)
(* later, unless it is given a budget with nothing in it.                  *)
RefusalEnds ==
    LET Positive == budget # NoBudget => budget.hourly > 0 /\ budget.daily > 0
    IN  ~Admissible ~> Admissible \/ ~Positive

(* docs/architecture.md:59, "checks whether the caller has remaining quota *)
(* for the current sliding hour and day windows.  If exhausted, it rejects *)
(* the request": nothing is admitted once the limit has been spent.        *)
SpentIsRefused ==
    [][\A r \in Request :
          status[r] # "forwarding" /\ status'[r] = "forwarding" /\ budget # NoBudget
          => spend_1h < budget.hourly /\ spend_24h < budget.daily]_vars
==============================================================================
