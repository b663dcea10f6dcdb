\* Three timers of every kind, handlers that take time, a wall clock that is stepped.
SPECIFICATION Spec
CONSTANTS
    x = x
    y = y
    z = z
    Timers <- ThreeTimers
    Moments <- MCMoments
    Delays <- MCDelays
    MinDelay = 1
    MaxTime = 6
    MaxClockSets = 1
    HandlersTakeTime = TRUE
SYMMETRY Symmetry
INVARIANTS
    TypeOK
    HeldOnce
    Timely
PROPERTIES
    RunsSpaced
    NeverEarly
\* The modelled time ends.
CHECK_DEADLOCK FALSE
