------------------------------- MODULE CallMeter -------------------------------
(***************************************************************************)
(* What the proxy promises of its accounts.  A call that has been answered *)
(* is charged and counted in one step and is then open until the audit     *)
(* ledger has its record or gives it up; a hit in the cache is counted and *)
(* costs nothing.  The meters live in memory, the ledger survives a crash. *)
(***************************************************************************)
EXTENDS Naturals, FiniteSets

CONSTANT Request    \* the calls that can be in progress at the same time

VARIABLES
    spent,      \* charges of the budget limiter
    counted,    \* requests in the metrics
    open,       \* calls that are charged and not yet recorded
    recorded,   \* records of the audit ledger
    charged     \* all charges there ever were

vars == <<spent, counted, open, recorded, charged>>

Init ==
    /\ spent = 0
    /\ counted = 0
    /\ open = {}
    /\ recorded = 0
    /\ charged = 0

Charge(r) ==
    /\ r \notin open
    /\ spent' = spent + 1
    /\ counted' = counted + 1
    /\ open' = open \cup {r}
    /\ charged' = charged + 1
    /\ UNCHANGED recorded

Hit ==
    /\ counted' = counted + 1
    /\ UNCHANGED <<spent, open, recorded, charged>>

Record(r) ==
    /\ r \in open
    /\ open' = open \ {r}
    /\ recorded' = recorded + 1
    /\ UNCHANGED <<spent, counted, charged>>

GiveUp(r) ==
    /\ r \in open
    /\ open' = open \ {r}
    /\ UNCHANGED <<spent, counted, recorded, charged>>

Crash ==
    /\ spent' = 0
    /\ counted' = 0
    /\ open' = {}
    /\ UNCHANGED <<recorded, charged>>

Next ==
    \/ \E r \in Request : Charge(r) \/ Record(r) \/ GiveUp(r)
    \/ Hit
    \/ Crash

Spec == Init /\ [][Next]_vars

(* No call is recorded twice or without having been charged: the records   *)
(* and the open calls together are never more than the charges.            *)
RecordedWereCharged == recorded + Cardinality(open) <= charged
================================================================================
