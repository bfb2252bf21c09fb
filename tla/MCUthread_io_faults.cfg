\* timed waits, closed fds, failing stack allocations and signals inside of
\* the calls, next to a coroutine that never stops
SPECIFICATION FairSpec
CONSTANTS
    Main = Main
    NULL = NULL
    Ut = {Main, a}
    Fd = {f}
    MAX_COUNT_UTHREAD = 2
    MAX_EVENTS = 1
    JoinTimeout = 10
    IoTimeouts = {1}
    Forever = 100
    Features = {"close", "stack_fails", "signals"}
    MaxNow = 2
    MaxCount = 2
INVARIANTS
    NeverTwice
    CountOK
PROPERTIES
    TimedWaitEnds
