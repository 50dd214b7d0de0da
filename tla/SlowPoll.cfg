SPECIFICATION Spec
CONSTANTS
    Interval = 40
    MinSleep = 1
    HoldPeriod = 4
    Work = 8
    Late = 1
    Deadline = 32
    Poll = 2
INVARIANTS
    FiresOnlyOnStall
CHECK_DEADLOCK FALSE
