SPECIFICATION FairSpec
CONSTANTS
    Tasks = {t1}
    max_concurrent = 1
    _MAX_RETRIES = 1
    Openings = {"running", "progress"}
    Lines = {"completed", "progress"}
    func_case_takes_else = TRUE
    MaxSequence = 5
    MaxRuns = 2
    MaxFaults = 1
    MaxCrashes = 1
    NULL = NULL
CHECK_DEADLOCK FALSE
INVARIANTS TypeOK RecordedOnce OneOutcome HandlerSaysRunning PauseAgrees
PROPERTIES AcksUndoNothing ExecutionsEnd
