CONSTANTS
    None = None
    Files = {f, g}
    Texts = {v1, v2, leak}
    Binary = {g}
    Secret = {v2, leak}
    Marked = {v2}
    Collections = {code, prose}
    Summarised = code
    Included = {f}
    Long = {v1, v2}
    MaxEdits = 0
    MaxSyncs = 2
    MaxFailures = 0
SPECIFICATION SyncSpec
PROPERTIES ForceReingests
CHECK_DEADLOCK FALSE
