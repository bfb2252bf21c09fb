\* a hand-off among three coroutines
SPECIFICATION Spec
CONSTANTS
    Main = Main
    NULL = NULL
    Ut = {Main, a, b}
    MAX_PROCS = 2
INVARIANT PlacedOnce
INVARIANT EndsOnce
INVARIANT HarmNeedsHandoff
PROPERTY ReadyRuns
