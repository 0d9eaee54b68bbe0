CONSTANTS
    st = st  c1 = c1  c2 = c2  q1 = q1  q2 = q2  None = None
    States = {st}
    Callbacks = {c1, c2}
    Requests = {q1, q2}
    StateOf <- MCStateOf
    SidOf <- MCSidOf
    MaxFaults = 0
    MaxRestarts = 0
SPECIFICATION Spec
INVARIANTS LogoutDeletesSession
CHECK_DEADLOCK FALSE
