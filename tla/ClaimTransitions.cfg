SPECIFICATION Spec
CONSTANTS
    TaskIds = {t1, t2}
    Sessions = {s1, s2}
    Agents = {owner}
    Owner = owner
    Suspended = {}
    Keys = {}
    Inputs = {in1}
    ValidInputs = {in1}
    Progress = {p1}
    CallbackUrls = {FALSE}
    DispatchMetadata = {NULL}
    ExecutorEvents = {"status", "completed"}
    ExecutorStatuses = {"running"}
    ExecutorPostsSerially = TRUE
    fleet_lineage_max_depth = 1
    fleet_pause_ttl_seconds = 0
    MaxDispatched = 1
    MaxSequence = 4
    MaxContext = 0
    MaxTime = 0
    MaxCrashes = 0
    NULL = NULL
    Keep = Keep
CHECK_DEADLOCK FALSE
PROPERTY OnlyValidTransitions
