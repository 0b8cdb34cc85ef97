----------------------------- MODULE MCHttpLoop -----------------------------
(* Instances of HttpLoop for TLC. *)
EXTENDS HttpLoop
=============================================================================
