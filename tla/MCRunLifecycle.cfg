CONSTANTS
    r1 = r1  r2 = r2  c1 = c1  c2 = c2
    Runs = {r1, r2}
    Clients = {c1}
    Follows <- MCFollows
    MaxAgentEvents = 2
    MaxStops = 1
    MaxFaults = 1
    MaxDrops = 1
SPECIFICATION Spec
INVARIANTS ExactlyOnceInOrder EventProtocol NoAbandonedRun VerdictAgrees
PROPERTIES RefinesContract
CHECK_DEADLOCK FALSE
