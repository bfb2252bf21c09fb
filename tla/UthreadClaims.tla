--------------------------- MODULE UthreadClaims ----------------------------
(***************************************************************************)
(* What the comments, the assertions and the manual of the repository say  *)
(* of the runtime and the code does not do: each definition is violated by *)
(* a run of its own.                                                       *)
(***************************************************************************)
EXTENDS UthreadSched

(* The manual on pthread_join: it returns 1 when it times out.  In          *)
(* _uthread_resume_expired every sleeper is taken for a waiter on an fd,    *)
(* and the assertion of _uthread_cancel_event fails for a joiner.           *)
JoinTimeoutReturns ==
    outcome = "abort_epoll_del_expired" =>
        ~ \E u \in sleeping : Due(u) /\ frame[u] = "join"

(* The manual: the timeout of epoll_wait does not lie behind the first      *)
(* wake-up time, so that a timed wait ends.                                 *)
TimedWaitAlwaysEnds ==
    \A u \in Ut :
        (u \in sleeping /\ wakeup_time[u] <= MaxNow) ~> (u \notin sleeping \/ Ended)

(* _uthread_resume: a coroutine that ends wakes the one that joined it.     *)
(* Here with coroutines that have been through a timed-out read before.     *)
JoinerIsKept == NoLostJoiner

=============================================================================
