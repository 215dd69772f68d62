CONSTANTS
    every = every
    soon = soon
    later = later
    None = None
    Timers <- MCTimers
    Delay <- MCDelay
    Interval <- MCInterval
    MaxTime = 6
SPECIFICATION Spec
INVARIANT DelayIsPositive
CHECK_DEADLOCK FALSE
