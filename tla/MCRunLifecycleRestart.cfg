CONSTANTS
    r1 = r1  r2 = r2  c1 = c1  c2 = c2
    Runs = {r1}
    Clients = {c1}
    Follows <- MCFollows
    MaxAgentEvents = 3
    MaxStops = 1
    MaxFaults = 0
    MaxDrops = 1
SPECIFICATION FairSpec
PROPERTIES FollowerTold
CHECK_DEADLOCK FALSE
