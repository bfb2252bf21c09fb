----------------------------- MODULE MCHandoff ------------------------------
(* A small instance of Handoff. *)
EXTENDS Handoff
=============================================================================
