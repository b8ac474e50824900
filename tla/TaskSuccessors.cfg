SPECIFICATION Spec
CONSTANTS
    TaskIds = {t1, t2, t3, t4}
    Sessions = {s1, s2}
    Agents = {owner}
    Owner = owner
    Suspended = {}
    Keys = {k1}
    Inputs = {in1}
    ValidInputs = {in1}
    Progress = {p1}
    CallbackUrls = {FALSE}
    DispatchMetadata = {"no_progress"}
    ExecutorEvents = {"status", "failed"}
    ExecutorStatuses = {"running"}
    ExecutorPostsSerially = TRUE
    fleet_lineage_max_depth = 2
    fleet_pause_ttl_seconds = 0
    MaxDispatched = 2
    MaxSequence = 3
    MaxContext = 0
    MaxTime = 0
    MaxCrashes = 1
    NULL = NULL
    Keep = Keep
SYMMETRY Symmetry
CONSTRAINT OnlySuperseding
CHECK_DEADLOCK FALSE
INVARIANTS KeyNamesOneTask LineageSound LogTellsStatus SuccessorsAnnounced ChainFromRoot SomeoneProceeds
