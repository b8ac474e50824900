SPECIFICATION Spec
CONSTANTS
    Tasks = {t1}
    max_concurrent = 1
    _MAX_RETRIES = 1
    Openings = {"running"}
    Lines = {"completed", "progress"}
    func_case_takes_else = TRUE
    MaxSequence = 4
    MaxRuns = 1
    MaxFaults = 0
    MaxCrashes = 0
    NULL = NULL
CHECK_DEADLOCK FALSE
INVARIANT CompletionRecorded
