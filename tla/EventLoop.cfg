CONSTANTS
    Threads = {t1, t2}
    LoopThread = loop
    Early = early
    MaxSubmitted = 4
SPECIFICATION FairSpec
INVARIANTS NoLostWakeup NoLostQuit
PROPERTIES ImplementsExecutor QueuedFunctorsRun QuitReturns
