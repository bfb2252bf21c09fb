\* a wait for I/O next to a disk operation of unknown length
SPECIFICATION SlowSpec
CONSTANTS
    Main = Main
    NULL = NULL
    Ut = {Main, a}
    MAX_PROCS = 2
PROPERTY BlockingIsNoObstacle
