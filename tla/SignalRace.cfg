CONSTANTS
    NumFans = 1
    Commands = {"run"}
    Signals = {"TERM"}
SPECIFICATION Spec
INVARIANT
    SignalExitReleases
CHECK_DEADLOCK FALSE
