CONSTANTS
    NumFans = 2
    Commands = {"set", "dry-run", "selftest", "run", "run-once"}
    Signals = {"TERM"}
SPECIFICATION Spec
INVARIANTS
    TypeOK
    ChecklistExclusive
    CleanExitReleases
    PanicReleases
    HoldInterruptReleases
    InterruptLeavesOneFan
    HeldFanIsWatched
PROPERTIES
    NoForcingAfterTeardown
    OverrideSpec
    LeavingAdvances
CHECK_DEADLOCK FALSE
