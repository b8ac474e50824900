SPECIFICATION Spec
CONSTANTS
    TaskIds = {t1, t2, t3}
    Sessions = {s1}
    Agents = {owner}
    Owner = owner
    Suspended = {}
    Keys = {}
    Inputs = {in1}
    ValidInputs = {in1}
    Progress = {p1}
    CallbackUrls = {TRUE}
    DispatchMetadata = {NULL}
    ExecutorEvents = {"status", "completed", "failed", "progress", "log"}
    ExecutorStatuses = {"running"}
    ExecutorPostsSerially = TRUE
    fleet_lineage_max_depth = 1
    fleet_pause_ttl_seconds = 0
    MaxDispatched = 1
    MaxSequence = 4
    MaxContext = 2
    MaxTime = 1
    MaxCrashes = 1
    NULL = NULL
    Keep = Keep
SYMMETRY Symmetry
CHECK_DEADLOCK FALSE
INVARIANTS OneSuccessor OutcomesCalledBack FirstProgressStored LinksHonoured
PROPERTIES OnlyValidTransitions ImplementsContract
