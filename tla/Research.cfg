SPECIFICATION Spec
CONSTANTS
    Processes = {p1, p2}
SYMMETRY MCSymmetry
INVARIANTS
    TypeOK
    ForcedHasOwner
    RaisedHasOwner
    PidNamesHolder
CHECK_DEADLOCK FALSE
