---------------------------- MODULE MCTimerWheel ----------------------------
(* TimerWheel for TLC: the lengths are around one and two turns of the wheel. *)
EXTENDS TimerWheel
=============================================================================
