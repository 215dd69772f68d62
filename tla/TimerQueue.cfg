CONSTANTS
    every = every
    soon = soon
    later = later
    None = None
    Timers <- MCTimers
    Delay <- MCDelay
    Interval <- MCInterval
    MaxTime = 6
SPECIFICATION FairSpec
INVARIANTS ArmedForEarliest NoTimerLost
PROPERTY EveryTimerRuns
CHECK_DEADLOCK FALSE
