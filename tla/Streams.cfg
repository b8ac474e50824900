SPECIFICATION StreamSpec
CONSTANTS
    TaskIds = {t1}
    Sessions = {s1, s2}
    Agents = {owner}
    Owner = owner
    Suspended = {}
    Keys = {}
    Inputs = {in1}
    ValidInputs = {in1}
    Progress = {p1}
    CallbackUrls = {FALSE}
    DispatchMetadata = {NULL}
    ExecutorEvents = {"status", "completed", "log"}
    ExecutorStatuses = {"running"}
    ExecutorPostsSerially = TRUE
    fleet_lineage_max_depth = 1
    fleet_pause_ttl_seconds = 0
    MaxDispatched = 1
    MaxSequence = 4
    MaxContext = 0
    MaxTime = 0
    MaxCrashes = 1
    MaxDrops = 1
    MaxUnread = 1
    NULL = NULL
    Keep = Keep
CHECK_DEADLOCK FALSE
INVARIANTS ViewIsLog
PROPERTIES ClosedWhenTerminal StreamsEnd OutcomeSeen
