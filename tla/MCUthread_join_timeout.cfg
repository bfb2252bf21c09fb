\* uthread_join with a target that outlives its timeout
SPECIFICATION Spec
CONSTANTS
    Main = Main
    NULL = NULL
    Ut = {Main, a}
    Fd = {}
    MAX_COUNT_UTHREAD = 2
    MAX_EVENTS = 1
    JoinTimeout = 1
    IoTimeouts = {0}
    Forever = 100
    Features = {}
    MaxNow = 1
    MaxCount = 2
SYMMETRY Symmetry
INVARIANTS
    JoinTimeoutReturns
