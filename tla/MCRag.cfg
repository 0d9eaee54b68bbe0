CONSTANTS
    f = f  g = g  v1 = v1  v2 = v2  leak = leak  code = code  None = None
    Files = {f, g}
    Texts = {v1, v2, leak}
    Binary = {g}
    Secret = {v2, leak}
    Marked = {v2}
    Collections = {code, prose}
    Summarised = code
    Included = {f}
    Long = {v1, v2}
    MaxEdits = 1
    MaxSyncs = 3
    MaxFailures = 1
    q1 = q1  q2 = q2  q3 = q3  long = long  short = short  doc = doc  idem = idem  Nil = Nil
    Requests = {q1, q2, q3}
    Names = {doc}
    Keys = {idem}
    Versions = {long, short}
    NameOf <- MCNameOf
    KeyOf <- MCKeyOf
    VersionOf <- MCVersionOf
    LenOf <- MCLenOf
    Concurrency = 2
    MaxLen = 2
    MaxFaults = 1
    MaxRestarts = 1
    MaxDeletes = 1
SPECIFICATION RagSpec
INVARIANTS IndexedIsContent DeletedIsGone KeyMakesOneJob DocumentsSettle NoAbandonedJob
           ReportIsTrue IndexIsHonest
PROPERTIES NoGapInSearch KeepsWhatExists
CHECK_DEADLOCK FALSE
