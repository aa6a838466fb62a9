CONSTANTS
    Tasks = {t1, t2, t3}
    MaxDisk = 3
SPECIFICATION FairSpec
INVARIANTS OneDriver
PROPERTIES ImplementsPromise EventuallySettles
CHECK_DEADLOCK FALSE
