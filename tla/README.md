# uthread: a verification project

uthread is a user-level thread runtime in C. It redefines the pthread and socket
functions, so that the threads of a program become coroutines that one kernel
thread multiplexes. This directory holds TLA+ models of the runtime, TLC
configurations, and TLAPS proofs. Line numbers refer to the C source next to it.

## The system

| Part | State | Operations | Talks to |
|---|---|---|---|
| Coroutines, `uthread.c` | `struct uthread`: status bits, id, `ut_joined`, `fd_wait`, wake-up time | `uthread_create`, `_uthread_yield`, `uthread_exit`, `uthread_detach`, `uthread_join`, `_uthread_resume` | the scheduler, by `_switch`; each other, by `ut_joined` |
| Scheduler, `uthread_sched.c` | `struct p` (ready queue, sleeping and waiting tree, fetched events), `struct sched`, `struct global_data` | `_sched_run` and what it calls, `_register_event`, `_uthread_sched_sleep` | coroutines; the kernel, by epoll and the clock |
| Timer wheel, `timer.c` | ten slots of nodes, the hand | `tick` (SIGALRM), `add_timer` | sends SIGUSR1 to the thread of a coroutine whose time is up |
| Socket functions, `uthread_socket.c` | none of their own | retry loops around system calls | `_register_event`; they read the EXPIRED and FDEOF bits |
| Hooks, `myhook.c` | none | one call each | all of the above |
| Disk I/O, `uthread.c` 330-387 | idle schedulers, who owns the p | hand the p to a new kernel thread, then block | the scheduler |
| Trees, `tree.h` | BSD red-black trees | | used as ordered sets |

What is hard here, each at its line in `PROJECT.json`, "hazards":

* A coroutine is moved between a queue, two trees and the processor by four kinds
  of event (yield, join wake-up, fd event, timeout). A wrong order loses it, or
  puts its one queue link to two uses.
* A coroutine's struct is freed while handles to it exist, and the block is recycled.
* Status bits outlive the wait that set them.
* EPOLLONESHOT events are fetched in a batch and handled one by one, and coroutines
  run in between.
* Progress depends on who is looked at when: I/O only if nothing is ready, sleepers
  once per turn, a round of the queue until a remembered coroutine.
* Signals may arrive anywhere; the timer's lists are shared without a lock; a disk
  read moves the whole p to another kernel thread.

What makes each part correct:

* Coroutines: one that is created runs, until it ends, from exactly one place; a join
  returns when its target has ended, and not before; ids are those of one coroutine.
* Scheduler: everyone ready runs; a wait ends with its event or its timeout; a fetched
  event is not dropped; the process exits after the last coroutine, and not earlier.
* Timer wheel: a timer goes off once, on its tick; the signal reaches a coroutine that
  still runs, and no other.
* Socket functions: a call returns what its system call returned, or a timeout or
  hang-up that is its own.
* Disk I/O: the p has one owner, and no event or coroutine stays behind.

## The modules

`UthreadState` declares the constants and the state, and the helpers that both C
files use. `Uthread` extends it with the calls of a coroutine and with
`_uthread_resume`. `UthreadSched` adds the loop, the kernel, `Next`, the fairness and
the properties. `UthreadClaims` states what comments, assertions and the manual say
and the code does not do. `RunQueue` is the abstract scheduler that `UthreadSched`
implements. `Countdown` is the abstract timer, which `TimerWheel` implements and
`Preempt` uses. `SocketIO`, `Preempt` and `Handoff` each look at one concern that
`UthreadSched` abstracts, with the scheduler reduced to what that concern sees of it.
Each has an `MC` module for its runs. The theorems about a module are in one named
after it with `Proofs`; those about `UthreadSched` are in four, each of which extends the
one before: `UthreadProofs` (types, rounds), `UthreadPlacementProofs` (places and count),
`UthreadEpollProofs` (waits), `UthreadJoinProofs` (joins, the run queue).

### UthreadState, Uthread, UthreadSched: one thread, one p

* A coroutine is the address of its struct (`Ut`). `live` is the set of allocated
  blocks. A freed block keeps its fields until `uthread_create` takes it again; the
  program keeps every handle it ever got (`Handles`).
* `status` is the set of bits. `ready` is a sequence, `sleeping` and `waiting` are
  sets, ordered by what `_uthread_sleep_cmp` and `_uthread_wait_cmp` compare.
* `control` says whose code the thread executes: the loop's, a coroutine's, or the
  part of `_uthread_resume` behind its `_switch`. `loop` is the place in `_sched_run`;
  while a coroutine runs, the place to go on at. `frame` and `target` stand for a
  coroutine's stack: which call it sleeps in, and the call's argument.
* `interest` is epoll's list: not registered, armed, or spent (EPOLLONESHOT has
  fired). `hot` is the kernel's ready list.
* `outcome` says if the process runs, has left by `exit(0)`, was aborted, and by
  which assertion, or is about to queue or run a coroutine that is in the queue already
  ("twice"): behind that point the links of the queue mean nothing.

One action is one stretch of code between two context switches. A call of a
coroutine is one action up to its yield, and one from its return. With the feature
"signals", `uthread_join` and `_register_event` are also taken in steps (`JoinCheck`,
`JoinLink`, `EventAdd`, `EventWait`, `SleepInsert`, `SleepBit`), and SIGUSR1 may make the
coroutine yield between any two of them, and behind its wake-up; `frame` says how far the
call has come (`Midway`). The loop is cut where it calls `_uthread_resume` and, in
`_uthread_min_timeout`, between its two readings of the clock. The client is the most general one: any call at any time on
any handle. `Features` switches on what an instance is to include: detach, close of
an fd that is waited for, failing stack allocations, hang-ups, signals inside of calls.

Abstractions: payloads and return values; the contents of freed memory beyond the
struct's own fields; the length of a microsecond (the clock counts small numbers;
`Forever` stands for the 34 years that a timeout of 0 becomes). Of the value that
`uthread_exit` hands to `uthread_join` the model has the place it is stored at: the
frame of the join that set `retval`.

### RunQueue: what the scheduler promises

One coroutine runs, the others are in a first-in-first-out queue or blocked. One that
is blocked in a join goes to the tail of the queue when its target ends; one that is
blocked on I/O comes back by itself. No trees, status bits, clock, epoll or loop.
The mapping (`Q` in `UthreadSched`): the queue is `ready`; the running coroutine is
`cur_uthread`; blocked is the sleeping tree without `cur_uthread` (a coroutine is
inserted before it has switched away); what a blocked coroutine waits for is its
`target`. Steps of the loop, of the kernel and of the clock are stutters.

### TimerWheel and Countdown

`TimerWheel` models `timer.c`: slots, rotations and the hand. `Countdown` is what it
promises: a timer of length n goes off once, on the tick that n others precede. The
mapping is `left`, the distance of a node's slot from the hand plus ten times its
rotation.

### SocketIO: the retry loops

The functions of `uthread_socket.c` over one TCP connection between a client and a
server coroutine, as in `test/test_socket_io.c`. `co` holds the locals of the call a
coroutine is in; a step is one test and system call at the top of the loop
(`SystemCall`), one look at its result (`LookAtResult`), or one wake-up (`Wake`,
`Expire`, `Woken`). A preemption may come between any two of them, and errno is the
thread's, so that a coroutine may find another one's. Functions whose loops are the
same share one operator (`ReadLoop`, `ExactLoop`, `WriteLoop`, `MessageLoop`,
`WritevLoop`, `AcceptLoop`, `ConnectLoop`); what they differ in is a table each
(`WaitsFor`, `Timed`, `ChecksEof`, `ChecksExpired`, `SetsNonblock`). Bytes are
numbered, so that a lost, repeated or reordered one shows. `build` says if `myhook.c` is
linked in: then the functions that call a hooked name recurse (`Recurses`), and
`uthread_read_exact` runs `uthread_read` inside (`Nests`). The EXPIRED and FDEOF bits
are never cleared, as in the code. A coroutine that has returned (`End`) is not ready any
more, which tells it from one that computes. The kernel (partial transfers, resets, closes,
SIGPIPE, blocking fds) is external.

### Preempt: SIGUSR1

One worker thread and the timer's. The worker's steps are as small as a signal can tell
apart in `_uthread_resume` before and behind the switch, in `_uthread_free`, in
`uthread_create` around the mutex, and in `_uthread_sched_sleep` between the tree and the
bit; signals in `uthread_join` and `_register_event` are `Uthread`'s. `tick` tests
`is_wating_yield_signal` (`TickNode`) and sends the signal (`kill`) in two steps, and moves
the hand at its end (`TickEnd`). `add_timer` may be overtaken by ticks between its read of
the hand and its write of the slot; if `tick` is at that slot when the node is linked
(`Linked`), it may look at the new node, miss it, unlink it together with the one it is at
(`lost`), or have freed that one. Nodes outlive the run they were added for, and their
coroutine.
Where the signal does harm (`Harm`), the process ends with an outcome that says how.

### Handoff: disk I/O

Every scheduler is a thread in `_sched_run`; the p has an `owner`. `disk_io` moves the p
to a spare scheduler if another coroutine is ready, and the old one goes on without.
The steps are the places where a thread looks at `sched->p` or at what other threads
change. `flag` is `is_wating_yield_signal`, which a disk operation clears for the rest of
the run: a late signal may still come, but nothing promises one. A dereference of the missing p, a queue changed by two threads with no lock, and
a coroutine resumed on a second thread are outcomes.

## The runs

| Run | Instance | Shows |
|---|---|---|
| `join` | Main and two coroutines, 2 ids, detach, fairness | none is lost (`NoneLost`) or in two places (`NeverTwice`); a joiner stays linked to its target (`NoLostJoiner`), and only the target's end wakes it (`JoinWakesOnExit`); the exit value goes into the frame of a join that has not returned (`ResultHasOwner`); a round of the queue ends (`RoundBounded`); the count is exact (`CountOK`); the loop is a run queue (`ImplementsRunQueue`); everyone ready runs (`ReadyRuns`), joins return (`JoinDelivers`), the process ends (`ExitsWhenDone`); types |
| `io` | two coroutines, two fds, both events, timeouts 0 and 1, hang-ups | trees and epoll's list agree (`EpollMatchesWaiting`), so EPOLL_CTL_DEL does not fail (`DelFailsForJoinersOnly`); a fetched one-shot event reaches its waiter (`EventNotLost`); `ImplementsRunQueue`, `NeverTwice`, `NoneLost` |
| `io_faults` | two coroutines, one fd, close, failing allocations, signals inside of calls, fairness | what holds even then: nobody is in two places but one that a signal has stopped in the middle of a call (`NeverTwice`), `CountOK`, and a timed wait ends (`TimedWaitEnds`) |
| `timer_wheel` | two timers, lengths 0, 1, 9, 10, 11, 20 | the wheel is a countdown (`CountdownSpec`), and well formed (`WheelOK`) |
| `socket` | eight functions, both builds, a buffer of one byte | no byte is lost, repeated or reordered (`StreamIntact`), no count is short (`NoShortCount`), a write meets its exact read, unless the writer then computes for ever (`TransferCompletes`) |
| `preempt` | two coroutines, two timer nodes, one of which may leak, a wheel of 3 | the coroutine that runs has a node or a signal on its way (`TimedWhileRunning`), is made to yield (`PreemptionHappens`), and one that waits for the mutex does not keep its holder from running (`MutexReleased`) |
| `handoff` | three coroutines, two schedulers | each is in one place (`PlacedOnce`), the harm begins with the first hand-off (`HarmNeedsHandoff`), ready ones run unless one that is behind a disk operation computes for ever (`ReadyRuns`), the process ends once and last (`EndsOnce`) |

### Bounds

Three coroutines are a joiner, its target and a third that takes the target's recycled
block or joins one of the two; every hazard of `join` needs no more. Blocks are recycled
without end, so creates are not bounded in number; `MaxCount` limits `n_uthread` only. Two
fds let a batch of two events be handled while the coroutine run for the first touches
the second. `MaxNow` is 1 or 2: in between, timeouts are pending, due, and past. `join`
lets the clock run but not to the join's timeout, which has a run of its own. In `join` and
`io` signals come in the coroutines' own code only; `io_faults` has them inside of calls,
where two coroutines suffice: the one that is stopped, and the one it joins or whose turn
lets its event or timeout come. The lengths of `timer_wheel` lie around no, one and two turns.

`socket`: with room for one byte, every write and exact read of two is done in parts, and
three bytes in all let a second call start behind the first. The server sends, the
client receives; the loops are the same for both ends. Of functions that share a loop one
is called: `read` for `recv`, `recvmsg` and `recvfrom`, `write` for `send`, `sendmsg` for
`sendto`. The buffers of `writev` have empty entries at the front and in the middle; one
at the end shows a defect (below). `preempt`: two nodes are the one of this run and an
older one, and with a wheel of 3 a node that misses its slot comes back after two
ticks; `MaxLost` lets one of them leak, as without nodes the thread would have to
stop; one of several coroutines in the queue suffices, as the order of the queue is
`join`'s question. `handoff`: with two schedulers there is one hand-off, and the second
one fails; three coroutines are the one on the disk, one that runs on, one that waits
or joins. The invariants were also checked with three schedulers.

The blocks other than Main's, and the fds, are interchangeable: `Symmetry`, in the run
`io` and in two of the violations, where all properties are about states and steps.

### Fairness

* `UthreadSched`: the thread keeps executing the scheduler's code (weak fairness of
  `SchedStep`). A coroutine that does not give up the thread is preempted: the wheel
  sends SIGUSR1 one to two ticks after each resume, and the handler yields, hence weak
  fairness of yield, of the return of a call, and of what follows in `_uthread_resume`;
  `PreemptionHappens` is where this is checked. Time passes. No coroutine is assumed to
  call anything, no fd to become ready.
* `SocketIO`: a coroutine that is ready in the middle of a call goes on (weak fairness of
  `RunsInCall`), which is `ReadyRuns`. An event that has come wakes its waiter if, again
  and again, the other coroutine is not ready (strong fairness of `Polled`): the loop
  polls then, and one poll gets the events of both. Beside a coroutine that stays ready
  no wake-up is assumed, as `uthread_sched.c:146` does not look, and `TransferCompletes`
  names that case. Neither the network nor the peer's program is assumed to do anything.
* `Preempt`: both threads run and signals are delivered (weak fairness). Strong fairness
  of `ResumeReady`: due sleepers may come again and again, but the loop turns to the
  queue after each look at them. Strong fairness of `InLibrary`: a coroutine in the few
  instructions of a library function has 10 ms for them whenever it is resumed.
* `Handoff`: every thread goes on and every disk operation ends. The coroutine of the owner
  is preempted only while its flag is set; behind a disk operation that kept the p it is
  not, and `ReadyRuns` and `BlockingIsNoObstacle` name that case (`Unpreempted`). Strong fairness of
  `NoneExpired`: a wait takes its time, so the loop over the expired ones ends.
  `SlowSpec` leaves out that disk operations end.

Deadlock is checked everywhere. `Stopped`, `Rests` and `Over` name the states where
nothing needs to happen: the process is over, or nobody can be woken before the clock's
bound.

### Findings

Each is a run that violates a property; `PROJECT.json` quotes the comment, assertion or
line of the manual.

| Run | What the code does |
|---|---|
| `join_timeout` | a join that times out trips the epoll assertion (`uthread_sched.c:84`); it never returns 1 |
| `wrapped_timeout` | two readings of the clock: the timeout wraps, `epoll_wait` gets none |
| `sticky_expired` | EXPIRED is never cleared: a later join drops another coroutine's joiner |
| `preempt_signal` | SIGUSR1 arrives after its coroutine has left the thread, inside the scheduler |
| `handoff_blocked` | a disk operation that begins while nothing is ready keeps the p; waits that end meanwhile are not served |

Defects that the models reproduce and that have no run of their own. The properties are
stated so that they hold around them, and each such place names the state it excludes.

Coroutines and scheduler:

* equal wake-up times trip the assertion of `uthread_sched.c:428`;
* epoll is not asked while anything is ready (`uthread_sched.c:146`): a ready fd starves
  next to a coroutine that never stops; timed waits end (`TimedWaitEnds`);
* a signal in `uthread_join` behind its link (`uthread.c:446`) puts the joiner into the queue,
  and the end of its target inserts the same link again (`uthread.c:303-305`; outcome
  "twice"); one between the check and the link (440-446) lets the joiner sleep for a
  coroutine that is over, or take the link of another joiner;
* a signal in `_register_event` behind the waiting tree (`uthread_sched.c:393`) lets an
  event, and one behind the sleeping tree (428) a timeout, run the coroutine while it is
  queued (outcome "twice"); one between EPOLL_CTL_ADD and the waiting tree (386-393) lets
  the one-shot event find nobody, and the coroutine sleeps on;
* the tail of a join (`uthread.c:458`) clears the slot of the recycled block's new owner;
* a second waiter on an fd, whatever its event, trips the assertion of
  `uthread_sched.c:386` (`register_event_fails`);
* `close` is not hooked, and the waiter on a closed fd is not woken, although the manual
  says so;
* a create whose stack allocation fails leaves `n_uthread` too high, and the process
  never exits (`CountOK` is an inequality there);
* `next_ut_id` is never compared with `bitmap_ut` (`uthread.c:182`), so that ids are given
  out twice after a wrap;
* a join of a terminated coroutine sets the slot of its id instead of clearing it
  (`uthread.c:441`);
* the first run of a coroutine forgets that it was detached (`uthread.c:240`).

Sockets (outcomes "overflow" and "blocked" of `SocketIO`):

* with `myhook.c` linked in, `recv`, `recv_exact`, `recvmsg`, `recvfrom`, `send`, `sendmsg`,
  `sendto` and `writev` call themselves until the stack ends (`uthread_socket.c:108` ff.);
* the fd that accept returns is a blocking one until the first read, although the manual
  says that it is not (`项目功能说明书.md:114`): a write on it stops the whole thread;
* `writev` whose last entry is empty returns 0 after it has sent everything;
* the manual gives `connect`, `recv` and `send` timeouts of 1000 ms (lines 305, 357, 400);
  the code passes 0, that is none.

Preemption (outcomes "segv", "corrupt", "killed", "twice" of `Preempt`):

* a signal before the main coroutine's `sigaction` (`uthread.c:146`) ends the process;
* one between the insertion into the sleeping tree and the SLEEPING bit
  (`uthread_sched.c:428`) leaves the coroutine in the tree and in the queue;
* a node that `add_timer` links while `tick` is in the same slot (`timer.c:64`, 83-84) may be
  unlinked with its neighbour and leaks, and its coroutine is not preempted in this run;
  or it is linked to a node that has just been freed;
* the scheduler waits in `_uthread_free` (`uthread.c:247`) for a mutex that a preempted
  coroutine of the same thread holds: for ever;
* after a disk operation `is_wating_yield_signal` stays 0 (`uthread.c:337`), and the
  coroutine cannot be preempted in this run.

Hand-off (outcomes "segv", "corrupt", "two_threads" of `Handoff`):

* `sched->p` is dereferenced when it is NULL (`uthread_sched.c:228`, 261, 386;
  `uthread.c:203`, 314);
* no scheduler becomes spare again, and an empty list is not expected
  (`uthread.c:340-342`);
* events that were fetched and not handled are dropped by the new owner's poll
  (`uthread_sched.c:142`);
* a joiner on a thread without a p is in the tree before it has switched away, and may
  be woken and run on a second thread;
* schedulers without work spin until the process ends, although the manual says that
  their threads are destroyed (`项目功能说明书.md:98`).

## The proofs

Every safety property that a passing run checks, invariant or action property, is also
a theorem: TLC shows it on the instance, TLAPS for every value of the constants that
satisfies the assumptions of their module. These assumptions (`ConstantsAssumption`,
`TimerAssumption`, `SocketAssumption`, `PreemptAssumption`, `HandoffAssumption`) say that
coroutines, fds and numbers are what their names say, that a null pointer differs from
all of them, and that no size is zero. The `Features`, `Builds` and timeouts are left
open.

| Module | Theorems | Hypotheses |
|---|---|---|
| `UthreadProofs` | `TypeCorrect`, `RoundsBounded` | none |
| `UthreadPlacementProofs` | `InvariantHolds`, `NeverTwiceHolds`, `JoinWakes`, `ResultOwned`, `CountHolds` | none |
| | `OnePlaceWithoutSignals` | no signals inside of calls |
| `UthreadEpollProofs` | `WaitInvariant`, `NoneLostHolds`, `EpollMatches`, `DelFails` | no signals inside of calls, no fd is closed |
| | `WholeHolds`, `EventsNotLost` | no signals inside of calls |
| `UthreadJoinProofs` | `JoinersNotLost` | no signals inside of calls, stacks do not fail, joiners are not expired |
| | `SchedulerImplementsRunQueue` | the same, and no fd is closed |
| | `UntimedUnexpired`; `UntimedJoinersNotLost`, `UntimedImplementsRunQueue` | waits for I/O have no timeout, in place of "joiners are not expired" |
| `TimerWheelProofs` | `WheelInvariant`, `WheelRefinesCountdown` | none |
| `SocketIOProofs` | `SocketInvariant`, `CountsAreFull` | none |
| | `StreamIsIntact` | no iovec ends with an empty buffer |
| `PreemptProofs` | `TimedHolds`, `NodesHeld` | none |
| `HandoffProofs` | `HandoffInvariant`, `PlacedOnceHolds`, `EndsOnceHolds`, `HarmIsHandoffs` | none |

The hypotheses are not technical: each excludes a defect of the code, and TLC finds the
statements behind it violated when it is dropped.

* `"signals" \notin Features`. SIGUSR1 comes in the coroutines' own code only. Inside of
  `uthread_join` it makes the check of the target stale, so that a joiner may sleep for one
  that is over; inside of `_register_event` it separates epoll's list from the waiting tree,
  and an event may find no waiter. `NeverTwiceHolds` needs no such hypothesis: it says what a
  signal there can do to the places, and `OnePlaceWithoutSignals` what is true without.
* `"close" \notin Features`. An fd closed under its waiter leaves epoll's list, and the
  waiter stays in the tree: the two no longer agree, a second waiter may come under the
  same key, and an expiry takes both out of the trees and runs only one.
* `"stack_fails" \notin Features`. A create that gets no stack has zeroed a block that an
  old handle may still name, and frees it without the EXITED bit: a join of that handle
  sleeps, and nobody will wake it.
* `JoinersUnexpired`. The EXPIRED bit of an earlier wait is never cleared, and a joiner
  that carries it resets the link of whoever owns its target's block by then; the run
  `sticky_expired` shows it. `UntimedUnexpired` derives the condition from the constants:
  without timeouts on I/O there is no such bit.
* `LastsFull`. `writev` with an empty last buffer returns 0 after it has sent everything
  (`uthread_socket.c:313`), and a program that goes by the count sends it again. The
  other books, and with them `NoShortCount`, do not depend on it: inside `SocketInv` only
  `ReceivedOK` and the last buffer are conditional.

### The inductive invariants

**Placement** (`Inv`, unconditional). `NeverTwice` has two parts: the queue has nobody twice,
and who is in it neither runs nor sleeps, save for one stopped between the sleeping tree
and its bit (`OnePlace`); and whoever is about to be queued or run while queued was stopped
in the middle of a call (`TwiceBySignal`). It is not inductive. What `_uthread_resume`
does depends on the SLEEPING and EXITED bits, so these must say where a coroutine is
(`SleepBits`, `ExitedBits`). The wake-up of a joiner appends `ut_joined` to the queue
without looking, so every link must name a coroutine that is in a join for this target,
asleep or stopped behind the link (`JoinLinks`); hence no two links name the same one. A
sleeper is inside a join or a wait, and whoever is in the waiting tree is in the sleeping
tree or stopped in front of it (`FrameOK`): so an expiry takes nobody out of the trees who is
elsewhere too. Without signals all of these lose their exceptions (`Whole`, `WholeHolds`),
and the modules that follow work with that form. `ResultOwned` follows from `JoinLinks` and
from `ExitedBitSet`: only the running coroutine's exit sets EXITED, so the link it stores
through is the one that the invariant speaks of. `CountHolds` counts along: creates
increment, frees of live blocks decrement, and the process exits at 0 only.

**Waiting** (`WaitInv`, given `Whole` and no close). `_uthread_resume_expired` may take a
second coroutine out of the trees, the one found under the same key, unless that is the
sleeper itself: this needs one waiter per fd, which holds because epoll's list and the
waiting tree agree (`EpollMatchesWaiting`) and a sleeper inside a wait is in the waiting
tree (`SleepersWait`). `EpollReturns` keeps the agreement as only registered fds have
events (`HotIsArmed`). `DelFails` is read off: whoever expires or is found by an event is
registered, unless it is a joiner.

**Events** (`EventInv`, given `Whole`). No fetched event is left outside the part of the
loop that handles them (`NoneFetched`): a poll that overwrites `events` overwrites nothing.
Whoever is in the waiting tree has the key it was put there with (`WaitersHaveKeys`), so
the two tests of an event find it; that two may wait for one fd once it has been closed
does no harm, as the first one found takes the registration with it.

**Rounds** (`RoundInv`). `RoundBounded` speaks of the loop at its test; the strengthening
keeps `last_ready` in the queue also while a coroutine of the round runs.

**Joins** (`LinkInv`). The converse of `JoinLinks`: a sleeper in a join is the one its
target, not yet freed, has a link to. A join of a recycled or freed block must find it
over, so freed blocks that have handles carry EXITED (`FreedExited`).

**The run queue.** Under `Whole`, `WaitInv` and `LinkInv` each action is shown to be a step of
`RunQueue`: a create appends, `RunReady` takes the head, an expiry or an event unblocks and
runs, a yield appends, a sleeper blocks with the target it has, an exit ends with the
joiner, if there is one, appended. All others leave the queue, the thread and the blocked
coroutines as they are (`Stutters`). The step of `End` is where `LinkInv` is needed: the
abstract joiner is found by its target, the code's by the link.

**The wheel.** `WheelOK` says that a pending node is in a slot with a rotation; the distance
from the hand falls by one on each tick, which is the countdown. Initial states and steps
are proved; the fairness of `CountdownSpec` is TLC's.

**Sockets** (`SocketInv`). The books of each loop: the bytes done plus those of the last
system call are what is in the buffer (receiving) or in the kernel (sending), and
`writev`'s iovec holds exactly the rest (`BooksOK`). An exact read that gets 0 has met the
end of the stream (`EndMet`). From this `ReceivedOK`: what is received, in the kernel and
in a buffer is, in order, the beginning of what the peer has sent. The inner loop of
`writev` is the lemma `AdvanceTakes`: for every iovec and every n up to its sum, what is
left sums up to n less, and ends with a full buffer if the iovec did. This is induction
over data, by the first exception: a nonempty set of naturals has a smallest element
(`Smallest`), so a claim that fails for some length fails for a first one. That the sum
exists at all is proved the same way (`SumsExist`, `SumsUnique`), as a recursive function
is a choice until a function with these equations is exhibited.

**Preemption** (`PreemptInv`). `TimedWhileRunning` is lost if `tick` takes the node and skips
it; `tick` skips nodes whose coroutine does not wait for the signal, and `FlagOK` says
that the one that runs does. `NodesOK` says that an allocated node is in the wheel, with
`tick` or leaked, and in one of them only, so the node of this run is not one that is freed.
Between two ticks `tick` holds none (`ScanOK`), so that the next one forgets none.

**Hand-off** (`HandoffInv`). Threads other than the owner's may run coroutines; each runs one
nobody else does (`ThreadsOK`), a spare scheduler has no thread (`IdleOK`), coroutines are
on a thread, in the queue or in the tree, and in two of them only while they switch
(`PlacesOK`), and a joiner is linked once (`JoinsOK`). `EndsOnce` needs that `n_uthread`
counts the live coroutines and the threads inside `_uthread_free` (`CountInv`), so that a
thread that finds 0 is alone, and that the mutex taken for the exit is never given back
(`EndInv`). `HarmIsHandoffs` has an invariant of its own (`SoloInv`): until the p moves, the
owner's is the only thread, so that a coroutine which is switching away is still where it
put itself. `HandoffInvariant` is about `Init /\ [][Next]_vars`, hence of `SlowSpec` as well.

There is one lemma per action, and lemmas for what several share (`Unmoved`,
`WaiterWoken`, `PlaceLeft`, `SchedSleepInv`, `Enqueue`, `GoesOnCounts`). TLC checked each
of the invariants on the instances of the runs before it was proved.

Only model-checked: all liveness (both `ReadyRuns`, `JoinDelivers`, `ExitsWhenDone`,
`TimedWaitEnds`, `TransferCompletes`, `PreemptionHappens`, `MutexReleased`, the fairness
of `CountdownSpec`), as the installed provers have no rules for fairness and ENABLED.

## Not modelled, and the plan

Not modelled for good: `tree.h` (a BSD library; ordered sets here), the assembly of
`_switch`, the test programs (the general client contains them), the logging and the
addresses, flags and ancillary data of socket calls.

Not modelled, with what they may hide: the values of join and exit, and with them a signal
between the EXITED bit and the store of the value (`uthread.c:402-404`), which wakes the
joiner without one, or between the link of a join and its `retval` (446-447); the allocator's lock, which a signal inside `malloc` leaves held
(`timer.c:77`); the uninitialised signal set of the handler (`uthread.c:97`); the restart of
`epoll_wait` with its full timeout when a signal interrupts it (`uthread_sched.c:161`);
failing allocations at start-up; more than one p, which the code has no way to make.

Next, in this order:

1. In `Preempt`: that a coroutine which holds the mutex is in `uthread_create` or in
   `_uthread_free` and not over, the safety part of `MutexReleased`.
2. In `UthreadJoinProofs`: weaker forms of `NoLostJoiner` that hold with failing stacks,
   with EXPIRED joiners and with signals inside of joins, that is, exactly whose link is lost.
3. In `Handoff`: a sharper `HarmNeedsHandoff`, that "segv" behind the first hand-off is
   reached only by a thread that has lost its p or by a second hand-off.
