------------------------------ MODULE SocketIO ------------------------------
(***************************************************************************)
(* uthread_socket.c and the socket hooks of myhook.c: the retry loops that *)
(* turn non-blocking system calls into calls that block a coroutine only.  *)
(* A client and a server coroutine of one process share one TCP connection *)
(* and one kernel thread, as in test/test_socket_io.c.  A coroutine may be *)
(* preempted between any two steps; errno belongs to the thread.           *)
(*                                                                         *)
(* A step is one turn's test and system call, one turn's look at the       *)
(* result, or one wake-up.  _register_event and the scheduler behind it    *)
(* are a wait that ends with the event, with a hang-up or, for a timeout   *)
(* other than 0, at any time (module UthreadSched has the details); each   *)
(* fd has one coroutine that waits on it.                                  *)
(*                                                                         *)
(* The k-th byte that an end sends is the number k.  A coroutine goes on   *)
(* in its stream by what its calls report, and stops at the first error    *)
(* that leaves its place in the stream open.                               *)
(***************************************************************************)
EXTENDS Integers, Sequences

CONSTANTS
    Calls,      \* the functions of uthread_socket.c that are called
    Builds,     \* of {"plain", "hooked"}: without, with myhook.c linked in
    Lengths,    \* lengths passed to the calls
    Iovs,       \* sequences of iov_len passed to uthread_writev
    Capacity,   \* bytes the kernel holds for a reader
    StreamLen   \* bounds: bytes that each end sends in all

(* The families of functions that share a loop, up to the system call. *)
ReadCalls == {"read", "recv", "recvmsg", "recvfrom"}
ExactCalls == {"read_exact", "recv_exact"}
WriteCalls == {"write", "send"}
MessageCalls == {"sendmsg", "sendto"}
Receiving == ReadCalls \cup ExactCalls
Sending == WriteCalls \cup MessageCalls \cup {"writev"}
AllCalls == Receiving \cup Sending \cup {"accept", "connect"}

Ut == {"client", "server"}

ASSUME SocketAssumption ==
    /\ Calls \subseteq AllCalls
    /\ Builds \subseteq {"plain", "hooked"}
    /\ Lengths \subseteq Nat \ {0}
    /\ \A iov \in Iovs : iov \in Seq(Nat) /\ iov # <<>>
    /\ Capacity \in Nat \ {0} /\ StreamLen \in [Ut -> Nat]

Peer(u) == IF u = "client" THEN "server" ELSE "client"

VARIABLES
    co,         \* per coroutine: the call it is in, with its locals
    bits,       \* per coroutine: the EXPIRED and FDEOF bits of ut->status
    errno,      \* of the kernel thread
    build, outcome,
    conn,       \* the connection: none, syn, open or reset
    opened,     \* whose end the program has, by connect or accept
    nonblock,   \* whose end has O_NONBLOCK
    rcv,        \* per end: the bytes its reader has not taken yet
    shut,       \* whose end was closed
    total,      \* per end: bytes its calls reported as sent
    inn,        \* per end: bytes its calls returned
    failed      \* who stopped after an error

kernelVars == <<conn, opened, nonblock, rcv, shut>>
appVars == <<total, inn, failed>>
vars == <<co, bits, errno, build, outcome, kernelVars, appVars>>

(* A coroutine outside of any call.  at: "top" of the loop, "ret" behind   *)
(* the system call, "wait" in _register_event, "woken" behind it; "ended"  *)
(* once its function has returned.                                         *)
Idle == [call |-> "none", nested |-> FALSE, at |-> "user", want |-> 0,
         done |-> 0, ret |-> 0, iov |-> <<>>, got |-> <<>>]

(* uthread_socket: the client's socket is made, and is non-blocking; the    *)
(* server's listener exists as well.                                        *)
uthread_socket ==
    /\ opened = [u \in Ut |-> FALSE]
    /\ nonblock = [u \in Ut |-> u = "client"]

Init ==
    /\ co = [u \in Ut |-> Idle] /\ bits = [u \in Ut |-> {}] /\ errno = "none"
    /\ build \in Builds /\ outcome = "up"
    /\ uthread_socket
    /\ conn = "none" /\ rcv = [u \in Ut |-> <<>>] /\ shut = [u \in Ut |-> FALSE]
    /\ total = [u \in Ut |-> 0] /\ inn = [u \in Ut |-> <<>>]
    /\ failed = [u \in Ut |-> FALSE]

-----------------------------------------------------------------------------
(* What the functions differ in *)

\* Fault: a write waits until the fd is readable.
WaitsForRead(c) == "RD"

WaitsFor(c) == IF c \in Sending \cup {"connect"} THEN "WR" ELSE "RD"

(* Only read passes _register_event a timeout other than 0. *)
Timed(c) == c = "read"

ChecksEof(c) == c \notin {"accept", "connect", "writev"}
ChecksExpired(c) == c \in Receiving \cup {"connect"}
SetsNonblock(c) == c \in ReadCalls

(* Functions that call what myhook.c redefines as themselves, at once or   *)
(* through recv: in the library that the Makefile builds they recurse      *)
(* until the stack of the coroutine ends.                                  *)
Recurses(c) ==
    build = "hooked"
        /\ c \in {"recv", "recvmsg", "recvfrom", "recv_exact", "send", "writev"}
                    \cup MessageCalls

(* uthread_read_exact calls read, which myhook.c redefines as uthread_read. *)
Nests(c) == build = "hooked" /\ c = "read_exact"

(* Which errno makes a call wait.  Others end it, but for ECONNABORTED in   *)
(* accept.                                                                  *)
WaitErrnos(c) ==
    CASE c = "accept"  -> {"EAGAIN", "EMFILE"}
      [] c = "connect" -> {"EAGAIN", "EINPROGRESS"}
      [] OTHER         -> {"EAGAIN"}

-----------------------------------------------------------------------------
(* A call begins; a call returns r. *)

In(u, place) == outcome = "up" /\ co[u].at = place

Callable(u, c) ==
    CASE c = "connect" -> u = "client" /\ conn = "none"
      [] c = "accept"  -> u = "server" /\ ~ opened[u]
      [] OTHER         -> opened[u] /\ ~ shut[u]

Begin(u, c, n, iov) ==
    /\ In(u, "user") /\ c \in Calls /\ Callable(u, c) /\ ~ failed[u]
    /\ c \in Sending => total[u] + n <= StreamLen[u]
    /\ co' = [co EXCEPT ![u] = [Idle EXCEPT !.call = c, !.at = "top",
                                            !.want = n, !.iov = iov]]
    /\ UNCHANGED <<bits, errno, build, outcome, kernelVars, appVars>>

(* The program takes the bytes that were reported.  An error after a part   *)
(* of a send or of an exact read, or of a send whose part is unknown, ends  *)
(* its use of the connection.  A nested read returns into read_exact.       *)
Return(u, r) ==
    LET c == co[u] IN
    IF c.nested
      THEN /\ co' = [co EXCEPT ![u] = [@ EXCEPT !.call = "read_exact",
                               !.nested = FALSE, !.at = "ret", !.ret = r]]
           /\ UNCHANGED appVars
      ELSE /\ co' = [co EXCEPT ![u] = Idle]
           /\ total' = [total EXCEPT ![u] =
                            IF c.call \in Sending /\ r > 0 THEN @ + r ELSE @]
           /\ inn' = [inn EXCEPT ![u] =
                            IF c.call \in Receiving /\ r > 0
                              THEN @ \o SubSeq(c.got, 1, r) ELSE @]
           /\ failed' = [failed EXCEPT ![u] =
                            @ \/ (r < 0 /\ (c.call \in Sending \/ c.got # <<>>))]

(* Back to the top of the loop, or into _register_event. *)
GoTo(u, place) == co' = [co EXCEPT ![u].at = place] /\ UNCHANGED appVars

-----------------------------------------------------------------------------
(* The system calls *)

(* The call fails; or, on a blocking fd, does not come back: the client and *)
(* the server share the thread.                                             *)
Fails(u, e) ==
    /\ errno' = e
    /\ co' = [co EXCEPT ![u].ret = -1, ![u].at = "ret"]
    /\ UNCHANGED <<outcome, rcv>>

WouldBlock(u) ==
    \/ nonblock'[u] /\ Fails(u, "EAGAIN")
    \/ ~ nonblock'[u] /\ outcome' = "blocked" /\ UNCHANGED <<co, errno, rcv>>

(* The bytes go into the buffer behind the ones that are there already. *)
sys_read(u) ==
    LET c == co[u]
        n == IF c.want - c.done < Len(rcv[u]) THEN c.want - c.done ELSE Len(rcv[u])
    IN
    \/ /\ conn = "reset" /\ Fails(u, "ECONNRESET")
    \/ /\ conn # "reset" /\ (rcv[u] # <<>> \/ shut[Peer(u)])
       /\ rcv' = [rcv EXCEPT ![u] = SubSeq(@, n + 1, Len(@))]
       /\ co' = [co EXCEPT ![u].ret = n, ![u].at = "ret",
                           ![u].got = SubSeq(@, 1, c.done) \o SubSeq(rcv[u], 1, n)]
       /\ UNCHANGED <<errno, outcome>>
    \/ /\ conn # "reset" /\ rcv[u] = <<>> /\ ~ shut[Peer(u)]
       /\ WouldBlock(u)

(* The bytes in the buffers of an iovec. *)
Sum(iov) ==
    LET upTo[k \in 0..Len(iov)] == IF k = 0 THEN 0 ELSE upTo[k - 1] + iov[k]
    IN upTo[Len(iov)]

Room(u) == Capacity - Len(rcv[Peer(u)])

(* The bytes left in the buffer, or in the buffers of writev. *)
Unsent(c) == IF c.call = "writev" THEN Sum(c.iov) ELSE c.want - c.done

\* Fault: a retry sends from the start of the buffer again.
FirstUnsentAtStart(u) == total[u] + 1

(* The number of the first byte that has not been sent. *)
FirstUnsent(u) == total[u] + co[u].want - Unsent(co[u]) + 1

(* The kernel takes what it has room for.  A blocking send does not return  *)
(* before all is taken.  A peer that is gone means an error and, without    *)
(* MSG_NOSIGNAL, SIGPIPE.                                                   *)
sys_write(u) ==
    LET n == IF Unsent(co[u]) < Room(u) THEN Unsent(co[u]) ELSE Room(u)
        gone == conn = "reset" \/ shut[Peer(u)]
    IN
    \/ gone /\ Fails(u, "ECONNRESET")
    \/ /\ gone /\ co[u].call \in {"write", "writev"}
       /\ outcome' = "sigpipe"
       /\ UNCHANGED <<co, errno, rcv>>
    \/ /\ ~ gone /\ (n > 0 \/ Unsent(co[u]) = 0)
       /\ nonblock[u] \/ n = Unsent(co[u])
       /\ rcv' = [rcv EXCEPT ![Peer(u)] =
                    @ \o [i \in 1..n |-> FirstUnsent(u) + i - 1]]
       /\ co' = [co EXCEPT ![u].ret = n, ![u].at = "ret"]
       /\ UNCHANGED <<errno, outcome>>
    \/ /\ ~ gone /\ Unsent(co[u]) > 0
       /\ IF nonblock[u] THEN Room(u) = 0 ELSE Room(u) < Unsent(co[u])
       /\ WouldBlock(u)

(* A connection is waiting at the listener. *)
Pending == conn = "open" /\ ~ opened["server"]

(* The fd that accept returns does not inherit O_NONBLOCK. *)
sys_accept(u) ==
    \/ /\ Pending
       /\ opened' = [opened EXCEPT ![u] = TRUE]
       /\ co' = [co EXCEPT ![u].ret = 0, ![u].at = "ret"]
       /\ UNCHANGED <<errno, outcome, rcv>>
    \/ /\ \E e \in {"EMFILE", "ECONNABORTED", "other"} : Pending /\ Fails(u, e)
       /\ UNCHANGED opened
    \/ ~ Pending /\ Fails(u, "EAGAIN") /\ UNCHANGED opened

sys_connect(u) ==
    \/ /\ conn = "none" /\ Fails(u, "EINPROGRESS")
       /\ conn' = "syn" /\ UNCHANGED opened
    \/ /\ conn = "open"
       /\ opened' = [opened EXCEPT ![u] = TRUE]
       /\ co' = [co EXCEPT ![u].ret = 0, ![u].at = "ret"]
       /\ UNCHANGED <<errno, outcome, rcv, conn>>
    \/ conn \in {"syn", "reset"} /\ Fails(u, "other") /\ UNCHANGED <<conn, opened>>

-----------------------------------------------------------------------------
(* The top of a loop *)

(* while (recvd != length), while (sent != length): all is done; or the     *)
(* FDEOF bit is set, by whatever hang-up there was.                         *)
LeaveLoop(u) ==
    /\ In(u, "top")
    /\ LET c == co[u] IN
       \/ /\ c.call \in ExactCalls \cup WriteCalls /\ c.done = c.want
          /\ Return(u, c.done)
       \/ /\ c.call \in ExactCalls \cup WriteCalls => c.done # c.want
          /\ ChecksEof(c.call) /\ "FDEOF" \in bits[u]
          /\ Return(u, -1)
    /\ UNCHANGED <<bits, errno, build, outcome, kernelVars>>

Stays(u) ==
    /\ In(u, "top")
    /\ co[u].call \in ExactCalls \cup WriteCalls => co[u].done # co[u].want
    /\ ~ (ChecksEof(co[u].call) /\ "FDEOF" \in bits[u])

Recurse(u) ==
    /\ Stays(u) /\ Recurses(co[u].call)
    /\ outcome' = "overflow"
    /\ UNCHANGED <<co, bits, errno, build, kernelVars, appVars>>

Nest(u) ==
    /\ Stays(u) /\ Nests(co[u].call)
    /\ co' = [co EXCEPT ![u].call = "read", ![u].nested = TRUE]
    /\ UNCHANGED <<bits, errno, build, outcome, kernelVars, appVars>>

SystemCall(u) ==
    LET c == co[u].call IN
    /\ Stays(u) /\ ~ Recurses(c) /\ ~ Nests(c)
    /\ nonblock' = [nonblock EXCEPT ![u] = @ \/ SetsNonblock(c)]
    /\ \/ c \in Receiving /\ sys_read(u) /\ UNCHANGED <<conn, opened>>
       \/ c \in Sending /\ sys_write(u) /\ UNCHANGED <<conn, opened>>
       \/ c = "accept" /\ sys_accept(u) /\ UNCHANGED conn
       \/ c = "connect" /\ sys_connect(u)
    /\ UNCHANGED <<bits, build, shut, appVars>>

-----------------------------------------------------------------------------
(* Behind the system call: the loops of the families.  errno is read here   *)
(* and may have come from another coroutine's call by now.                  *)

(* -1 means wait for some values of errno and ends the call for the others. *)
Failed(u) ==
    /\ co[u].ret = -1
    /\ \/ errno \in WaitErrnos(co[u].call) /\ GoTo(u, "wait")
       \/ errno \notin WaitErrnos(co[u].call) /\ Return(u, -1)

(* uthread_read, uthread_recv, uthread_recvmsg, uthread_recvfrom,           *)
(* uthread_sendmsg and uthread_sendto: a result is returned as it is.       *)
ReadLoop(u) == Failed(u) \/ (co[u].ret >= 0 /\ Return(u, co[u].ret))
MessageLoop(u) == Failed(u) \/ (co[u].ret >= 0 /\ Return(u, co[u].ret))

\* Fault: the first part ends an exact read.
ExactLoopOnce(u) == Failed(u) \/ (co[u].ret >= 0 /\ Return(u, co[u].ret))

(* uthread_recv_exact and uthread_read_exact: 0 ends the call, a part is    *)
(* added up, and the -2 of a nested read that timed out is not looked at.   *)
ExactLoop(u) ==
    \/ Failed(u)
    \/ co[u].ret = 0 /\ Return(u, co[u].done)
    \/ /\ co[u].ret > 0
       /\ co' = [co EXCEPT ![u].done = @ + co[u].ret, ![u].at = "top"]
       /\ UNCHANGED appVars
    \/ co[u].ret = -2 /\ GoTo(u, "top")

(* uthread_write and uthread_send. *)
WriteLoop(u) ==
    \/ Failed(u)
    \/ co[u].ret = 0 /\ Return(u, co[u].done)
    \/ /\ co[u].ret > 0
       /\ co' = [co EXCEPT ![u].done = @ + co[u].ret, ![u].at = "top"]
       /\ UNCHANGED appVars

(* uthread_writev's inner loop: n bytes are taken off the front of iov.     *)
(* Empty entries behind the last byte stay.                                 *)
Advance(iov, n) ==
    LET Before(k) == Sum(SubSeq(iov, 1, k))
        k == CHOOSE i \in 1..Len(iov) : Before(i - 1) < n /\ n <= Before(i)
        rest == SubSeq(iov, k + 1, Len(iov))
    IN IF n = Before(k) THEN rest ELSE <<Before(k) - n>> \o rest

WritevLoop(u) ==
    LET c == co[u] IN
    \/ Failed(u)
    \/ c.ret = 0 /\ Return(u, 0)
    \/ /\ c.ret > 0
       /\ LET left == Advance(c.iov, c.ret) IN
          IF left = <<>>
            THEN Return(u, c.done + c.ret)
            ELSE /\ co' = [co EXCEPT ![u].done = @ + c.ret, ![u].iov = left,
                                     ![u].at = "top"]
                 /\ UNCHANGED appVars

(* uthread_accept: an aborted connection is tried again. *)
AcceptLoop(u) ==
    \/ co[u].ret = -1 /\ errno = "ECONNABORTED" /\ GoTo(u, "top")
    \/ errno # "ECONNABORTED" /\ Failed(u)
    \/ co[u].ret >= 0 /\ Return(u, co[u].ret)

ConnectLoop(u) == Failed(u) \/ (co[u].ret >= 0 /\ Return(u, co[u].ret))

LookAtResult(u) ==
    LET c == co[u].call IN
    /\ In(u, "ret")
    /\ \/ c \in ReadCalls /\ ReadLoop(u)
       \/ c \in ExactCalls /\ ExactLoop(u)
       \/ c \in WriteCalls /\ WriteLoop(u)
       \/ c \in MessageCalls /\ MessageLoop(u)
       \/ c = "writev" /\ WritevLoop(u)
       \/ c = "accept" /\ AcceptLoop(u)
       \/ c = "connect" /\ ConnectLoop(u)
    /\ UNCHANGED <<bits, errno, build, outcome, kernelVars>>

-----------------------------------------------------------------------------
(* _register_event *)

Ready(u) ==
    LET c == co[u].call IN
    \/ conn = "reset"
    \/ c = "accept" /\ Pending
    \/ c = "connect" /\ conn = "open"
    \/ /\ c \in AllCalls \ {"accept", "connect"}
       /\ \/ WaitsFor(c) = "RD" /\ (rcv[u] # <<>> \/ shut[Peer(u)])
          \/ WaitsFor(c) = "WR" /\ (Room(u) > 0 \/ shut[Peer(u)])

(* A hang-up of a connection sets FDEOF and errno; the listener has none.   *)
Wake(u) ==
    /\ In(u, "wait") /\ Ready(u)
    /\ LET hup == conn = "reset" /\ co[u].call # "accept" IN
       /\ bits' = [bits EXCEPT ![u] = IF hup THEN @ \cup {"FDEOF"} ELSE @]
       /\ errno' = IF hup THEN "ECONNRESET" ELSE errno
    /\ co' = [co EXCEPT ![u].at = "woken"]
    /\ UNCHANGED <<build, outcome, kernelVars, appVars>>

(* The timeout passes. *)
Expire(u) ==
    /\ In(u, "wait") /\ Timed(co[u].call)
    /\ bits' = [bits EXCEPT ![u] = @ \cup {"EXPIRED"}]
    /\ co' = [co EXCEPT ![u].at = "woken"]
    /\ UNCHANGED <<errno, build, outcome, kernelVars, appVars>>

(* The test of EXPIRED behind _register_event, whoever set the bit. *)
Woken(u) ==
    LET c == co[u].call
        late == ChecksExpired(c) /\ "EXPIRED" \in bits[u]
    IN
    /\ In(u, "woken")
    /\ \/ ~ late /\ GoTo(u, "top") /\ UNCHANGED errno
       \/ late /\ c # "connect" /\ Return(u, -2) /\ UNCHANGED errno
       \/ late /\ c = "connect" /\ Return(u, -1) /\ errno' = "ETIMEDOUT"
    /\ UNCHANGED <<bits, build, outcome, kernelVars>>

-----------------------------------------------------------------------------
(* The network, and the end of a connection *)

Establish ==
    /\ outcome = "up" /\ conn = "syn"
    /\ conn' \in {"open", "reset"}
    /\ UNCHANGED <<co, bits, errno, build, outcome, opened, nonblock, rcv, shut,
                   appVars>>

ResetByNetwork ==
    /\ outcome = "up" /\ conn = "open"
    /\ conn' = "reset"
    /\ UNCHANGED <<co, bits, errno, build, outcome, opened, nonblock, rcv, shut,
                   appVars>>

Close(u) ==
    /\ In(u, "user") /\ opened[u] /\ ~ shut[u]
    /\ shut' = [shut EXCEPT ![u] = TRUE]
    /\ UNCHANGED <<co, bits, errno, build, outcome, conn, opened, nonblock, rcv,
                   appVars>>

(* The function of the coroutine returns, with its fd open or closed. *)
End(u) ==
    /\ In(u, "user")
    /\ co' = [co EXCEPT ![u].at = "ended"]
    /\ UNCHANGED <<bits, errno, build, outcome, kernelVars, appVars>>

(* The process is over, or each coroutine is done, does something else or   *)
(* waits for the other.                                                     *)
Rests ==
    /\ \/ outcome # "up"
       \/ \A u \in Ut : In(u, "user") \/ In(u, "ended")
                            \/ (In(u, "wait") /\ ~ Ready(u))
    /\ UNCHANGED vars

(* What a coroutine does in a call while it runs. *)
RunsInCall(u) ==
    \/ LeaveLoop(u) \/ Recurse(u) \/ Nest(u) \/ SystemCall(u) \/ LookAtResult(u)
    \/ Woken(u)

InCall(u) == RunsInCall(u) \/ Wake(u)

(* _uthread_poll looks at the fds only when no coroutine is ready.          *)
NotReady(u) == co[u].at \in {"wait", "ended"}
Polled(u) == NotReady(Peer(u)) /\ Wake(u)

Next ==
    \/ \E u \in Ut :
        \/ \E c \in {"accept", "connect"} : Begin(u, c, 0, <<>>)
        \/ \E c \in (Receiving \cup Sending) \ {"writev"}, n \in Lengths :
                Begin(u, c, n, <<>>)
        \/ \E iov \in Iovs : Begin(u, "writev", Sum(iov), iov)
        \/ InCall(u) \/ Expire(u) \/ Close(u) \/ End(u)
    \/ Establish \/ ResetByNetwork
    \/ Rests

(* A coroutine that is ready in the middle of a call goes on.  One that     *)
(* waits for an event that has come is woken if, again and again, the other *)
(* is not ready: a poll gets the events of both.  Beside a coroutine that   *)
(* stays ready nothing promises that the fds are looked at.                 *)
Spec ==
    /\ Init /\ [][Next]_vars
    /\ \A u \in Ut : WF_vars(RunsInCall(u)) /\ SF_vars(Polled(u))

-----------------------------------------------------------------------------
(* What an end has received, is just receiving and is still to receive. *)
Stream(u) == inn[u] \o co[u].got \o rcv[u]

(* Partial writes, partial reads, retries and writev's bookkeeping neither  *)
(* lose, repeat nor reorder a byte: what arrives at an end, in its buffers  *)
(* and on the way is the beginning of what the other end sends, and as long *)
(* as a sender has met no error it is exactly what its calls reported.      *)
StreamIntact ==
    \A u \in Ut :
        ~ failed[u] =>
            /\ Stream(u) = [i \in 1..Len(Stream(u)) |-> i]
            /\ (co[Peer(u)].call = "none" /\ ~ failed[Peer(u)]) =>
                    Len(Stream(u)) = total[Peer(u)]

(* A successful write reports all it was given; an exact read that reports  *)
(* less than that has met the end of the stream.                            *)
NoShortCount ==
    [][\A u \in Ut :
        co[u].call # "none" /\ co'[u].call = "none" =>
            /\ (co[u].call \notin MessageCalls /\ total'[u] # total[u]) =>
                    total'[u] = total[u] + co[u].want
            /\ (co[u].call \in ExactCalls /\ inn'[u] # inn[u]) =>
                    \/ Len(inn'[u]) = Len(inn[u]) + co[u].want
                    \/ shut[Peer(u)] /\ rcv[u] = <<>>]_vars

Asked(u) == co[u].want - co[u].done

(* A write and an exact read of no more bytes do not wait for each other,   *)
(* however little the kernel can hold: the read ends, unless the process    *)
(* does, or the writer runs on for ever without a wait and so keeps         *)
(* _uthread_poll from looking at the fds.                                   *)
TransferCompletes ==
    \A u \in Ut :
        (/\ co[u].call \in ExactCalls /\ co[Peer(u)].call = "write"
         /\ co[u].at = "top" /\ co[Peer(u)].at = "top"
         /\ Asked(u) <= Len(rcv[u]) + Asked(Peer(u)))
            ~> \/ co[u].call = "none" \/ outcome # "up"
               \/ [](~ NotReady(Peer(u)))

=============================================================================
