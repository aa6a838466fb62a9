CONSTANTS
    InboxCap = 2
    MaxRequests = 2
    MaxLaunches = 2
    MaxEvents = 1
SPECIFICATION FairSpec
INVARIANTS NothingLeftBehind
PROPERTIES TerminateTakesEffect SessionEnds
CHECK_DEADLOCK FALSE
