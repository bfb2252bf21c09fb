\* the clock passes the wake-up time between its two reads
SPECIFICATION FairSpec
CONSTANTS
    Main = Main
    NULL = NULL
    Ut = {Main}
    Fd = {f}
    MAX_COUNT_UTHREAD = 2
    MAX_EVENTS = 1
    JoinTimeout = 10
    IoTimeouts = {1}
    Forever = 100
    Features = {}
    MaxNow = 3
    MaxCount = 1
PROPERTIES
    TimedWaitAlwaysEnds
