\* Callbacks that take no time and a clock nobody sets: due timers run.
SPECIFICATION FairSpec
CONSTANTS
    x = x
    y = y
    z = z
    Timers <- TwoTimers
    Moments <- MCMoments
    Delays <- MCDelays
    MinDelay = 1
    MaxTime = 6
    MaxClockSets = 0
    HandlersTakeTime = FALSE
PROPERTY DueTimersRun
\* The modelled time ends.
CHECK_DEADLOCK FALSE
