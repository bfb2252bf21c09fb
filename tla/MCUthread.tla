------------------------------ MODULE MCUthread -----------------------------
(***************************************************************************)
(* UthreadSched and its documented claims for TLC.  The values of the      *)
(* constants are in the .cfg files.                                        *)
(***************************************************************************)
EXTENDS UthreadClaims, TLC

(* The blocks other than the main coroutine's are interchangeable, and so   *)
(* are the fds: used by the runs that check safety only.                    *)
Symmetry == Permutations(Ut \ {Main}) \cup Permutations(Fd)

=============================================================================
