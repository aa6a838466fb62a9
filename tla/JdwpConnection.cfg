CONSTANTS
    MaxCommands = 2
    EventCap = 1
    InboxCap = 1
    MaxInFlight = 2
    MaxEvents = 3
    MaxOutput = 1
SPECIFICATION FairSpec
INVARIANTS PendingIsExact RepliesMatch ClosedComesLast
PROPERTIES CallsReturn
CHECK_DEADLOCK FALSE
