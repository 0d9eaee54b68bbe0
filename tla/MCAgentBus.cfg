CONSTANTS
    Runs = {r1, r2}
    Workers = {w}
    MaxStreamed = 1
    MaxDeaths = 1
    MaxRestarts = 1
    MaxFaults = 1
    None = None
SPECIFICATION FairSpec
INVARIANTS EndMatchesAgent ConcludedIsTold JobInOnePlace
PROPERTIES RefinesContract JobsConclude
CHECK_DEADLOCK FALSE
