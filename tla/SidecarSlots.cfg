SPECIFICATION Spec
CONSTANTS
    Tasks = {t1, t2}
    max_concurrent = 1
    _MAX_RETRIES = 1
    Openings = {"running"}
    Lines = {"completed"}
    func_case_takes_else = TRUE
    MaxSequence = 3
    MaxRuns = 2
    MaxFaults = 1
    MaxCrashes = 1
    NULL = NULL
CHECK_DEADLOCK FALSE
INVARIANT SlotsAccounted
