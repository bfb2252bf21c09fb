\* two coroutines, the mutex and two timers
SPECIFICATION Spec
CONSTANTS
    Main = Main
    NULL = NULL
    Ut = {Main, a}
    Timers = 2
    MaxLost = 1
    TIME_WHEEL_SIZE = 3
INVARIANT TimedWhileRunning
PROPERTY PreemptionHappens
PROPERTY MutexReleased
