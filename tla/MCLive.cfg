CONSTANTS
    q1 = q1  q2 = q2  doc = doc  idem = idem  long = long  short = short  Nil = Nil
    Requests = {q1, q2}
    Names = {doc}
    Keys = {idem}
    Versions = {long, short}
    NameOf <- MCNameOf
    KeyOf <- MCKeyOf
    VersionOf <- MCVersionOf
    LenOf <- MCLenOf
    Concurrency = 1
    MaxLen = 2
    MaxFaults = 2
    MaxRestarts = 1
    MaxDeletes = 1
    Runs = {r1}
    Clients = {c1, c2}
    MaxAgentEvents = 3
    MaxStops = 0
    MaxRunFaults = 0
    MaxDrops = 1
SPECIFICATION LiveSpec
PROPERTIES EveryJobEnds RunEnds FollowerTold
CHECK_DEADLOCK FALSE
