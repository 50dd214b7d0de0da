SPECIFICATION LiveSpec
CONSTANTS
    MaxFans = 2
    Iterations = 3
    SamplesPerHold = 2
    Speeds = {0, 2300}
    Threshold = 500
    Capacity = 3
    Records <- MCRecords
    ZeroRecord <- MCZeroRecord
INVARIANTS
    TypeOK
    RecordsTellTheLoop
    RecentIsTail
    ExitCodeTells
    PassNeedsReadings
    FansLeftAuto
PROPERTIES
    LogSpec
    Finishes
    StepsCountDown
CHECK_DEADLOCK FALSE
