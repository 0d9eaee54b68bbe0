CONSTANTS
    q1 = q1  q2 = q2  q3 = q3  doc = doc idem = idem  long = long  short = short  Nil = Nil
    Requests = {q1, q2, q3}
    Names = {doc}
    Keys = {idem}
    Versions = {long, short}
    NameOf <- MCNameOf
    KeyOf <- MCKeyOf
    VersionOf <- MCVersionOf
    LenOf <- MCLenOf
    Concurrency = 2
    MaxLen = 2
    MaxFaults = 0
    MaxRestarts = 0
    MaxDeletes = 0
SPECIFICATION Spec
INVARIANTS UnchangedIsIndexed
CHECK_DEADLOCK FALSE
