--------------------------- MODULE MCRequestPipeline ---------------------------
(* Instances of RequestPipeline for TLC. *)
EXTENDS RequestPipeline
================================================================================
