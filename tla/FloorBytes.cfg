SPECIFICATION Spec
CONSTANTS
    Processes = {p1}
INVARIANTS
    FloorRestored
CHECK_DEADLOCK FALSE
