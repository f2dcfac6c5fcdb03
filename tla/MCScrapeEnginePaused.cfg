SPECIFICATION Spec
CONSTANTS
    Tasks = {c1, c2, c3, c4}
    Threshold = 2
    Window = 2
    Pause = 2
    Interval = 2
    MaxTime = 8
SYMMETRY Symmetry
PROPERTY
    NoRequestWhilePaused
CHECK_DEADLOCK FALSE
