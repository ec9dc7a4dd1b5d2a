------------------------------ MODULE HashChain ------------------------------
(***************************************************************************)
(* What the audit ledger promises (README.md, docs/architecture.md): one   *)
(* linear, append-only history of payloads.  Every record commits to the   *)
(* whole history that precedes it, so an abstract ledger is just that      *)
(* history.                                                                *)
(***************************************************************************)
EXTENDS Sequences

CONSTANT Payload

VARIABLE history

Init == history = << >>

Extend == \E p \in Payload : history' = Append(history, p)

Spec == Init /\ [][Extend]_history
=============================================================================
