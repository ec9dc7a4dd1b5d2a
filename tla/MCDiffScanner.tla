---------------------------- MODULE MCDiffScanner ----------------------------
(* Instances of DiffScanner for TLC. *)
EXTENDS DiffScanner
===============================================================================
