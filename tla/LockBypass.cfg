SPECIFICATION Spec
CONSTANTS
    Processes = {p1, p2}
PROPERTIES
    WritesOnlyUnderLock
CHECK_DEADLOCK FALSE
