SPECIFICATION Spec
CONSTANTS
    Ids = {i1}
    Callers = {u1}
    Clients = {k1}
    MaxPool = 1
    None = None
INVARIANT NextQueryReconnects
CHECK_DEADLOCK FALSE
