SPECIFICATION FairSpec
CONSTANTS
    Agents = {a1}
    Keys = {k1, k2}
    Sessions = {s1, s2}
    _MAX_RETRIES = 2
    timeout_seconds = 1
    MaxTime = 3
    MaxFaults = 1
    MaxCrashes = 1
    NULL = NULL
CHECK_DEADLOCK FALSE
INVARIANTS RegisteredHoldsKey
PROPERTIES SweepKeepsSuspension SilentFound Reactivated
