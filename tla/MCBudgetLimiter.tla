--------------------------- MODULE MCBudgetLimiter ---------------------------
(* Instances of BudgetLimiter for TLC. *)
EXTENDS BudgetLimiter

\* A budget of one call a minute, which one response exhausts for an hour and spends
\* to the dollar for a day, and one that a response exhausts for an hour, two for a day.
Tight == [daily |-> 2, hourly |-> 1, rpm |-> 1]
Roomy == [daily |-> 3, hourly |-> 1, rpm |-> 2]

Budgets == {Tight, Roomy}
Costs == {-1, 2}

\* A budget that one response spends to the dollar.
Even == [daily |-> 2, hourly |-> 2, rpm |-> 2]

EvenBudget == {Even}
EvenCost == {2}
==============================================================================
