SPECIFICATION DeliverySpec
CONSTANTS
    TaskIds = {t1}
    Sessions = {s1, s2}
    Agents = {owner}
    Owner = owner
    Suspended = {}
    Keys = {}
    Inputs = {in1}
    ValidInputs = {in1}
    Progress = {p1}
    CallbackUrls = {TRUE}
    DispatchMetadata = {NULL}
    ExecutorEvents = {"status", "completed", "failed", "log"}
    ExecutorStatuses = {"running"}
    ExecutorPostsSerially = TRUE
    fleet_lineage_max_depth = 1
    fleet_pause_ttl_seconds = 0
    MaxDispatched = 1
    MaxSequence = 4
    MaxContext = 0
    MaxTime = 1
    MaxCrashes = 1
    MaxFailures = 4
    NULL = NULL
    Keep = Keep
CHECK_DEADLOCK FALSE
INVARIANTS ReportsTrue
PROPERTIES ReceiverTold ExpiredPauseEnds
