\* a signal that outlives the run of its coroutine
SPECIFICATION Spec
CONSTANTS
    Main = Main
    NULL = NULL
    Ut = {Main, a}
    Timers = 2
    MaxLost = 1
    TIME_WHEEL_SIZE = 3
INVARIANT SignalMeetsCoroutine
