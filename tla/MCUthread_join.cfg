\* create, join, detach, exit and preemption among three coroutines
SPECIFICATION FairSpec
CONSTANTS
    Main = Main
    NULL = NULL
    Ut = {Main, a, b}
    Fd = {}
    MAX_COUNT_UTHREAD = 2
    MAX_EVENTS = 1
    JoinTimeout = 10
    IoTimeouts = {0}
    Forever = 100
    Features = {"detach"}
    MaxNow = 1
    MaxCount = 3
INVARIANTS
    TypeOK
    NeverTwice
    NoneLost
    NoLostJoiner
    RoundBounded
    CountOK
PROPERTIES
    JoinWakesOnExit
    ResultHasOwner
    ImplementsRunQueue
    ReadyRuns
    JoinDelivers
    ExitsWhenDone
