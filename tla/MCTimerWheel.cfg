\* two timers of lengths below, at and above one and two turns of the wheel
SPECIFICATION Spec
CONSTANTS
    Node = {m, n}
    Lens = {0, 1, 9, 10, 11, 20}
    Off = Off
INVARIANT WheelOK
PROPERTY CountdownSpec
