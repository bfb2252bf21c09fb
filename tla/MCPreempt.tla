----------------------------- MODULE MCPreempt ------------------------------
(* A small instance of Preempt. *)
EXTENDS Preempt
=============================================================================
