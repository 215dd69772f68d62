CONSTANTS
    a = a
    x = x
    None = None
    Kinds = {"iterative", "fork", "select", "threads"}
    Clients = {a, x}
    EchoClients = {a}
    Lines <- MCLines
    Workers = 1
    Capacity = 1
    MaxAddrs = 1
    MaxFailures = 1
SPECIFICATION Spec
INVARIANT NoForgottenChild
PROPERTIES LinesEchoed ConnectionsReleased
CHECK_DEADLOCK FALSE
