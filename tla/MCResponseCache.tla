--------------------------- MODULE MCResponseCache ----------------------------
(* An instance of ResponseCache for TLC. *)
EXTENDS ResponseCache, TLC

Symmetry == Permutations(Key)
===============================================================================
