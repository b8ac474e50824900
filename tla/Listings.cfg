SPECIFICATION ListingSpec
CONSTANTS
    WorkflowIds = {1, 2}
    Owners = {a1, a2}
    Tags = {x}
    Sessions = {s1, s2}
    TaskIds = {1, 2, 3}
    Statuses = {"running", "paused"}
    limit = 1
    MaxTime = 1
    NULL = NULL
    Keep = Keep
SYMMETRY Symmetry
CHECK_DEADLOCK FALSE
INVARIANTS ListingTypeOK RegisteredIsOwner PagesComplete
PROPERTY UpdatesKept
