CONSTANTS
    Files = {f1, f2}
    Debounce = 1
    Floor = 3
SPECIFICATION FairSpec
INVARIANTS SavesStayDue
PROPERTIES OneRunAtATime SavedIsChecked
CHECK_DEADLOCK FALSE
