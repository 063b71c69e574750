CONSTANTS
    FdLimit = 5
    MaxFd = 5
SPECIFICATION Spec
INVARIANTS
    TypeOK
    TrapEntryMatchesMode
PROPERTIES
    OpenatLowestFree
CHECK_DEADLOCK FALSE
