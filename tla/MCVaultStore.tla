----------------------------- MODULE MCVaultStore -----------------------------
(* Instances of VaultStore for TLC. *)
EXTENDS VaultStore, TLC

Symmetry == Permutations(Client) \cup Permutations(Name) \cup Permutations(Url) \cup Permutations(Secret \ {Empty})
===============================================================================
