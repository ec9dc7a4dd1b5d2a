---------------------------- MODULE MCRequestGuards ----------------------------
(* An instance of RequestGuards for TLC. *)
EXTENDS RequestGuards

CONSTANT key

Services == {Nobody.explicit, Nobody.transparent, "orders"}
Keys == [s \in {"orders"} |-> key]

All == [profile |-> Profile, method |-> Method, path |-> Path]
Nothing == [d \in Dimension |-> {}]

\* A rule with a denial that takes from what it allows, and a narrower one with an empty list.
Rules == {[allow |-> [All EXCEPT !.method = {"GET", "DELETE"}], deny |-> [Nothing EXCEPT !.method = {"DELETE"}]],
          [allow |-> [All EXCEPT !.method = {}], deny |-> [Nothing EXCEPT !.method = {"GET", "DELETE"}]]}

\* Cards and keys are always looked for; a guard that only audits needs no more than that.
Guards == {g \in GuardSettings : g.scan["card"] /\ (g.mode = "audit" => ~g.scan["ssn"] /\ ~g.scan["email"])}

Prices == [m \in {"small", "large"} |-> IF m = "small" THEN [in |-> 0, out |-> 1] ELSE [in |-> 2, out |-> 8]]
================================================================================
