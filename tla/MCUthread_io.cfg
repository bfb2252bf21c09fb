\* two coroutines waiting on two fds, with and without timeout
SPECIFICATION Spec
CONSTANTS
    Main = Main
    NULL = NULL
    Ut = {Main, a}
    Fd = {f, g}
    MAX_COUNT_UTHREAD = 2
    MAX_EVENTS = 2
    JoinTimeout = 10
    IoTimeouts = {0, 1}
    Forever = 100
    Features = {"hup"}
    MaxNow = 1
    MaxCount = 2
SYMMETRY Symmetry
INVARIANTS
    NeverTwice
    NoneLost
    EpollMatchesWaiting
    EventNotLost
PROPERTIES
    ImplementsRunQueue
    DelFailsForJoinersOnly
