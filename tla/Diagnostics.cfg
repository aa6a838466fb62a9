CONSTANTS
    Uris = {u1, u2}
    Module = {u1}
    Opened = {u1}
    Tasks = {t1, t2}
    Checker = checker
    Events = {"open", "decl", "body", "close", "save", "watch", "classpath", "query",
              "checkProject", "checkModules"}
    MaxMessages = 4
SPECIFICATION Spec
INVARIANTS QuiescentFresh EntryForCurrentVersion
PROPERTIES PublishesCurrent
SYMMETRY TaskSymmetry
CHECK_DEADLOCK FALSE
