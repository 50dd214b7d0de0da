SPECIFICATION Spec
CONSTANTS
    Sensors = {s1}
    Temps <- MCTemps
    Fusion = "max"
    AlphaNum = 1
    AlphaDen = 2
    Curve <- MCCurve
    HystUp = 1
    HystDown = 2
    RampDown = 6
    PanicTemp = 4
    PanicHold = 1
    MinRpm = 20
    MaxRpm = 40
    SafeMin = 0
    Rpms = {20, 32}
    DropoutLimit = 1
    Durations <- MCDurations
    Gaps = {0, 1}
    Placeholder = 2
    NoReading = NoReading
    NaN = NaN
    Infinity = Infinity
PROPERTY ReleasedOnAuto
