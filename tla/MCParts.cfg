SPECIFICATION PartsSpec
CONSTANTS
    Writers = {w1, w2}
    Readers = {q}
    Chunks = {c1, c2}
    MaxFound = 2
    MaxMarks = 2
    MaxCallFaults = 1
    Tokens = {"t1", "t2"}
    Kids = {"k1", "k2"}
    KidOf <- MCKidOf
    NoKid = "none"
    Pending = pending
    Ttl = 2
    MinRefetch = 1
    FetchTime = 1
    Parses = {p1, p2}
    Pages = {1, 2, 3}
    Images = {a, b}
    MaxOcrPages = 2
    OcrConcurrency = 1
    Answers = {x, blank}
    Blank = blank
    NoText = notext
    MaxOcrFaults = 1
    Files <- MCFiles
    Strategies = {"auto", "sentence", "markdown"}
    Size = 2
    MinUnit = 1
    MinChunk = 2
    Header = 1
    EmbedMax = 3
    Workbooks <- MCWorkbooks
    SheetLimit = 5
    MaxCols = 2
    MaxRows = 4
    MaxFormulas = 4
    WideFrom = 10
    ShortHead = 2
    Drawings <- MCDrawings
    Layers = {"0", "1"}
    Nothing = ""
    MaxPowExponent = 1000
    MaxResultDigits = 10000
    StrDigits = 4300
    FloatExponent = 308
    MaxSteps = 3
    Operands <- MCOperands
    Powers <- MCPowers
CHECK_DEADLOCK FALSE
INVARIANTS CollectionServes CitationsResolve KeysFollowProvider PagesReadOnce EveryLineOnce EveryRowOnce DiagramIsWhole CalculationsBounded
