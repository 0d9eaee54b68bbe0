CONSTANTS
    st = st  c1 = c1  c2 = c2  q1 = q1  q2 = q2  None = None
    States = {st}
    Callbacks = {c1, c2}
    Requests = {q1, q2}
    StateOf <- MCStateOf
    SidOf <- MCSidOf
    MaxFaults = 1
    MaxRestarts = 1
SPECIFICATION Spec
INVARIANTS OneRefreshAtATime StoredTokenCurrent SignedInIsServed LogoutIsFinal NoWaiterForgotten
SYMMETRY Symmetry
CHECK_DEADLOCK FALSE
