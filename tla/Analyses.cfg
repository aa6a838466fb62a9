CONSTANTS
    IdSizes <- MCSizes
    MAX_STRING_LEN = 2
    MAX_EVENTS_PER_COMPOSITE = 2
    Heap <- MCHeap
    Supers <- MCSupers
    FieldsOf <- MCFieldsOf
    Stacks <- MCStacks
    FrameThis <- MCFrameThis
    Slots <- MCSlots
    CodeIndex <- MCCodeIndex
    SUPER_CHAIN_CAP = 3
    ARRAY_CHILD_CAP = 2
    MAX_DEPTH = 4
    MAX_NODES = 5
    EOCD_LEN = 3
    MAX_COMMENT = 1
    HEADER_LEN = 2
    LOCAL_LEN = 1
    MAX_CENTRAL_DIRECTORY_SIZE = 8
    MAX_CD_ENTRIES = 2
    MAX_UNCOMPRESSED = 2
    MAX_DIAGNOSTICS = 3
SPECIFICATION AllSpec
PROPERTIES DebuggeeRead ResolutionSound ArchivesSound RelationsSound SelectionsSound LambdasSound
           DeclarationsExact MembersExact ReportsSound
