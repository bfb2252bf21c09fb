\* joins after a read that timed out
SPECIFICATION Spec
CONSTANTS
    Main = Main
    NULL = NULL
    Ut = {Main, a, b}
    Fd = {f}
    MAX_COUNT_UTHREAD = 2
    MAX_EVENTS = 1
    JoinTimeout = 10
    IoTimeouts = {1}
    Forever = 100
    Features = {}
    MaxNow = 1
    MaxCount = 3
SYMMETRY Symmetry
INVARIANTS
    JoinerIsKept
