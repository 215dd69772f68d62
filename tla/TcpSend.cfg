CONSTANTS
    c1 = c1
    c2 = c2
    c3 = c3
    w1 = w1
    Listener = listener
    None = None
    Conns <- MCConns
    FdOf <- MCFdOf
    Workers = {w1}
    Scenes <- MCScenes
    WorkerCalls = {"send", "shutdown"}
SPECIFICATION Spec
INVARIANT ConnectionIsThreadSafe
CHECK_DEADLOCK FALSE
