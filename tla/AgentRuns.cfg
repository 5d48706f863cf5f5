SPECIFICATION FairSpec
CONSTANTS
    t1 = t1
    s1 = s1
    doc = doc
    code = code
    full = full
    Tasks = {t1}
    Steps = {s1}
    Files = {doc, code}
    Doc = doc
    Code = code
    MaxLosses = 1
    MaxRounds = 2
    MaxCalls = 2
    MaxMarkers = 2
    MaxRepairs = 1
    Documents = {doc}
    Checks <- ChecksOf
    Profile = {"read", "changes", "write", "rename", "check"}
    Offered = {"exec", "remove", "delete"}
    Dangerous = {"exec", "remove", "delete"}
    Allowlist = {"exec"}
    Denylist = {"delete"}
    Dynamic = {"exec", "remove"}
    Fallback = TRUE
    Full = full
    Batches <- Apart
    Indexable = {doc, code}
    MaxRetries = 1
INVARIANTS
    TypeOK
    DoneIsVerified
    IndexAgrees
PROPERTIES
    DeletionIsTrusted
    RunsEnd
CHECK_DEADLOCK FALSE
