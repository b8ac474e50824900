SPECIFICATION Spec
CONSTANTS
    TaskIds = {t1}
    Sessions = {s1, s2}
    Agents = {owner}
    Owner = owner
    Suspended = {}
    Keys = {}
    Inputs = {in1}
    ValidInputs = {in1}
    Progress = {p1}
    CallbackUrls = {FALSE}
    DispatchMetadata = {"no_progress"}
    ExecutorEvents = {"status", "completed", "failed"}
    ExecutorStatuses = {"accepted", "running", "paused", "completed", "failed", "cancelled", "retasked", "redirected"}
    ExecutorPostsSerially = TRUE
    fleet_lineage_max_depth = 1
    fleet_pause_ttl_seconds = 0
    MaxDispatched = 1
    MaxSequence = 6
    MaxContext = 0
    MaxTime = 0
    MaxCrashes = 0
    NULL = NULL
    Keep = Keep
SYMMETRY Symmetry
CHECK_DEADLOCK FALSE
INVARIANTS TypeOK LogTellsStatus LogTellsResult TimesSet DetailTellsOutcome
