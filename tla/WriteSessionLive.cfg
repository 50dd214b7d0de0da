CONSTANTS
    NumFans = 1
    Commands = {"set", "dry-run", "selftest", "run", "run-once"}
    Signals = {"TERM", "HUP"}
SPECIFICATION FairSpec
PROPERTIES
    TermEndsProcess
    TeardownEnds
CHECK_DEADLOCK FALSE
