SPECIFICATION Spec
CONSTANTS
    Sensors = {s1, s2}
    Temps <- MCTemps
    Fusion = "mean"
    AlphaNum = 1
    AlphaDen = 2
    Curve <- MCCurve
    HystUp = 2
    HystDown = 2
    RampDown = 6
    PanicTemp = 4
    PanicHold = 2
    MinRpm = 20
    MaxRpm = 40
    SafeMin = 0
    Rpms = {20, 32}
    DropoutLimit = 1
    Durations <- MCDurations
    Gaps = {0, 1}
    Placeholder = 2
    NoReading = NoReading
    NaN = NaN
    Infinity = Infinity
INVARIANTS
    TypeOK
    SetpointFollowsCurve
    PanicOverridesCurve
    HeatIsAnswered
PROPERTIES
    RampDownLimited
    SetpointMovesWithHeat
    DecisionSettles
