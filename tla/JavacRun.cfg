CONSTANTS
    Requests = {r1, r2}
    LeakCap = 3
    MaxRuns = 3
SPECIFICATION FairSpec
INVARIANTS OneCheckAtATime NothingLeaks
PROPERTIES FlagReleased
CHECK_DEADLOCK FALSE
