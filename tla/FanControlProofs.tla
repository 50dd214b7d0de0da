-------------------------- MODULE FanControlProofs --------------------------
(***************************************************************************)
(* What holds of FanControl for every configuration the model admits: any  *)
(* sensors, any curve of increasing temperatures, any margins, rates,      *)
(* thresholds and limits.                                                  *)
(***************************************************************************)
EXTENDS FanControl, TLAPS, WellFoundedInduction, SequenceTheorems

-----------------------------------------------------------------------------
(* The operators of the pipeline.                                            *)

\* A quotient by a positive number is a number, not negative if the dividend is not.
LEMMA DivType ==
    ASSUME NEW a \in Int, NEW b \in Nat \ {0}
    PROVE  a \div b \in Int /\ (a >= 0 => a \div b >= 0)
  OBVIOUS

\* The average of two numbers is a number (ema.rs smooth).
LEMMA SmoothType ==
    ASSUME NEW prev \in Int, NEW t \in Int
    PROVE  Smooth(prev, t) \subseteq Int
<1> DEFINE sum == (AlphaNum * t) + ((AlphaDen - AlphaNum) * prev)
<1>1. sum \in Int /\ sum + AlphaDen - 1 \in Int
  BY AlphaAssumption
<1> HIDE DEF sum
<1>2. sum \div AlphaDen \in Int /\ (sum + AlphaDen - 1) \div AlphaDen \in Int
  BY <1>1, DivType, AlphaAssumption
<1> QED
  BY <1>2 DEF Smooth, sum

\* Every breakpoint has a temperature and a speed.
LEMMA BreakpointType ==
    ASSUME NEW i \in 1 .. Len(Curve)
    PROVE  Curve[i].temp \in Nat /\ Curve[i].rpm \in Nat
<1>1. Curve[i] \in [temp : Nat, rpm : Nat]
  BY CurveAssumption, ElementOfSeq
<1> QED
  BY <1>1

\* There are at least two of them.
LEMMA CurveLength == Len(Curve) \in Nat /\ Len(Curve) >= 2
<1>1. Len(Curve) \in Nat
  BY CurveAssumption
<1> QED
  BY <1>1, CurveAssumption

\* The loop of curve.rs evaluate stops: below the last breakpoint there is a first
\* one that is not below the temperature.
LEMMA AboveType ==
    ASSUME NEW t \in Int, t <= Last.temp
    PROVE  Above(t) \in 2 .. Len(Curve) /\ t <= Curve[Above(t)].temp
                /\ \A j \in 2 .. Above(t) - 1 : Curve[j].temp < t
<1> DEFINE Reached == {i \in 2 .. Len(Curve) : t <= Curve[i].temp}
<1>1. Reached # {} /\ Reached \subseteq Nat
  <2>1. Len(Curve) \in Reached
    BY CurveLength DEF Last
  <2> QED
    BY <2>1
<1> DEFINE Less == OpToRel(<, Nat)
<1>2. \E i \in Reached : \A j \in Reached : ~(<<j, i>> \in Less)
  <2> HIDE DEF Less, Reached
  <2>1. IsWellFoundedOn(Less, Nat)
    BY NatLessThanWellFounded DEF Less
  <2> QED
    BY <1>1, <2>1, WFMin
<1>2a. PICK i \in Reached : \A j \in Reached : ~(<<j, i>> \in Less)
  BY <1>2
<1>3. \A j \in 2 .. i - 1 : Curve[j].temp < t
  <2> SUFFICES ASSUME NEW j \in 2 .. i - 1, ~(Curve[j].temp < t)
               PROVE  FALSE
    OBVIOUS
  <2>1. j \in 2 .. Len(Curve) /\ j < i
    BY CurveLength
  <2>2. Curve[j].temp \in Int
    BY <2>1, BreakpointType, CurveLength
  <2>3. j \in Reached
    BY <2>1, <2>2
  <2> QED
    BY <1>1, <1>2a, <2>1, <2>3 DEF OpToRel
<1> QED
  BY <1>3 DEF Above

\* The curve is defined everywhere (curve.rs evaluate).
LEMMA EvaluateType ==
    ASSUME NEW t \in Int
    PROVE  Evaluate(t) \in Int
<1>1. First.rpm \in Int /\ Last.rpm \in Int /\ First.temp \in Int /\ Last.temp \in Int
  BY BreakpointType, CurveLength DEF First, Last
<1>2. CASE t <= First.temp \/ t >= Last.temp
  BY <1>1, <1>2 DEF Evaluate
<1>3. CASE ~(t <= First.temp) /\ ~(t >= Last.temp)
  <2> DEFINE lo == Curve[Above(t) - 1]
             hi == Curve[Above(t)]
  <2>1. Above(t) \in 2 .. Len(Curve)
    BY <1>1, <1>3, AboveType
  <2>2. /\ lo.rpm \in Int /\ hi.rpm \in Int /\ lo.temp \in Int /\ hi.temp \in Int
        /\ lo.temp < hi.temp
    <3>1. Above(t) \in 1 .. Len(Curve) /\ Above(t) - 1 \in 1 .. Len(Curve)
             /\ Above(t) - 1 < Above(t)
      BY <2>1, CurveLength
    <3>2. lo.temp < hi.temp
      BY <3>1, CurveAssumption
    <3> QED
      BY <3>1, <3>2, BreakpointType
  <2> HIDE DEF lo, hi
  <2>3. (lo.rpm * (hi.temp - t)) + (hi.rpm * (t - lo.temp)) \in Int
    BY <2>2
  <2>4. Interpolate(lo, hi, t) \in Int
    BY <2>2, <2>3, DivType DEF Interpolate
  <2> QED
    BY <1>3, <2>4 DEF Evaluate, lo, hi
<1> QED
  BY <1>2, <1>3

\* In one tick the ramp takes off between nothing and one second's worth (slew.rs).
LEMMA MaxDownBounds ==
    ASSUME NEW duration \in Nat
    PROVE  MaxDown(duration) \in Int /\ MaxDown(duration) >= 0
                /\ MaxDown(duration) <= RampDown
<1> DEFINE ms == IF duration < 1000 THEN duration ELSE 1000
<1>1. ms \in 0 .. 1000
  OBVIOUS
<1>2. RampDown \in Nat
  BY ConfigAssumption
<1> HIDE DEF ms
<1>3. RampDown * ms \in Int /\ RampDown * ms >= 0 /\ RampDown * ms <= RampDown * 1000
  BY <1>1, <1>2
<1>4. (RampDown * ms) \div 1000 \in Int /\ (RampDown * ms) \div 1000 >= 0
         /\ (RampDown * ms) \div 1000 <= RampDown
  BY <1>2, <1>3
<1> QED
  BY <1>4 DEF MaxDown, ms

\* slew.rs limit: a number, and not more than that below the previous one.
LEMMA LimitBounds ==
    ASSUME NEW prev \in Int, NEW rpm \in Int, NEW duration \in Nat
    PROVE  Limit(prev, rpm, duration) \in Int
                /\ Limit(prev, rpm, duration) >= prev - RampDown
  BY MaxDownBounds, ConfigAssumption DEF Limit

\* state.rs ClampedRpm::new: a number not below the floor.
LEMMA ClampType ==
    ASSUME NEW rpm \in Int
    PROVE  ClampedRpm(rpm) \in Int
  BY EnvelopeAssumption DEF ClampedRpm, EffectiveMin

\* Full speed asked is at least full speed granted, even with a floor above it.
LEMMA ClampFull == ClampedRpm(MaxRpm) \in Int /\ ClampedRpm(MaxRpm) >= MaxRpm
  BY EnvelopeAssumption DEF ClampedRpm, EffectiveMin

\* A sensed temperature is a number: fusion.rs falls back to the last known one.
LEMMA SenseType ==
    ASSUME raw \in Int, age \in 0 .. DropoutLimit + 1, NEW reading \in Readings,
           Sense(reading)
    PROVE  raw' \in Int /\ age' \in 0 .. DropoutLimit + 1
  BY TimesAssumption DEF Sense, Fused

\* The adapter never forces the minimum for full speed (adapter.rs decide).
LEMMA FullIsAuto ==
    ASSUME NEW rpm \in Int, rpm >= MaxRpm, Decide(rpm)
    PROVE  decision' = "Auto"
  BY EnvelopeAssumption DEF Decide, Engages, Disengages

\* Some answering sensor is the hottest (run.rs read_max_sensor_temp, fusion.rs).
LEMMA HottestType ==
    ASSUME NEW reading \in Readings, Valid(reading) # {}
    PROVE  /\ Hottest(reading) \in Nat
           /\ \A s \in Valid(reading) : reading[s] <= Hottest(reading)
<1> DEFINE Answers == {reading[s] : s \in Valid(reading)}
           Below   == {150 - t : t \in Answers}
           Less    == OpToRel(<, Nat)
<1>1. Answers # {} /\ Answers \subseteq 0 .. 150
  BY TempsAssumption DEF Readings, Valid
<1>2. Below # {} /\ Below \subseteq Nat
  BY <1>1
<1>3. PICK b \in Below : \A c \in Below : ~(<<c, b>> \in Less)
  <2> HIDE DEF Below, Less
  <2>1. IsWellFoundedOn(Less, Nat)
    BY NatLessThanWellFounded DEF Less
  <2> QED
    BY <1>2, <2>1, WFMin
<1>4. \A c \in Below : b <= c
  <2> SUFFICES ASSUME NEW c \in Below
               PROVE  b <= c
    OBVIOUS
  <2> HIDE DEF Below
  <2>1. b \in Nat /\ c \in Nat /\ ~(<<c, b>> \in Less)
    BY <1>2, <1>3
  <2> QED
    BY <2>1 DEF OpToRel
<1>5. PICK t \in Answers : b = 150 - t
  OBVIOUS
<1>6. \A u \in Answers : u <= t
  <2> SUFFICES ASSUME NEW u \in Answers
               PROVE  u <= t
    OBVIOUS
  <2>1. 150 - u \in Below /\ u \in Int /\ t \in Int
    BY <1>1
  <2>2. b <= 150 - u
    BY <1>4, <2>1
  <2> QED
    BY <1>5, <2>1, <2>2
<1>7. \A s \in Valid(reading) : reading[s] <= t
  BY <1>6
<1>8. Hottest(reading) \in Answers /\ \A s \in Valid(reading) : reading[s] <= Hottest(reading)
  BY <1>5, <1>7 DEF Hottest
<1> QED
  BY <1>1, <1>8

-----------------------------------------------------------------------------
(* Types.                                                                    *)

LEMMA InitType == Init => TypeOK
<1> SUFFICES ASSUME NEW actual \in Rpms \cup {MinRpm}, NEW reading \in Readings, NEW t,
                    t = (IF Valid(reading) = {} THEN Placeholder ELSE Hottest(reading)),
                    hold = actual, slewed = actual, target = ClampedRpm(actual),
                    raw = t, smoothed = t, last = t, age = 0, emitted = FALSE,
                    latched = FALSE, above = 0, since = 0,
                    decision = "Auto", phase = "tick", md \in {"auto", "forced"}
             PROVE  TypeOK
  BY DEF Init
<1>1. actual \in Int /\ ClampedRpm(actual) \in Int
  BY EnvelopeAssumption, ClampType
<1>2. t \in Int
  BY HottestType, TimesAssumption
<1> QED
  <2>1. age \in 0 .. DropoutLimit + 1 /\ since \in 0 .. PanicHold /\ above \in 0 .. 2
    BY TimesAssumption, ConfigAssumption
  <2> QED
    BY <1>1, <1>2, <2>1 DEF TypeOK

\* What the stages that run in every full tick leave behind.
LEMMA RegulateType ==
    ASSUME TypeOK, NEW reading \in Readings, NEW duration \in Durations, NEW gap \in Gaps,
           Regulate(reading, duration, gap)
    PROVE  TypeOK'
<1> USE DEF TypeOK
<1>1. raw' \in Int /\ age' \in 0 .. DropoutLimit + 1
  BY SenseType DEF Regulate
<1>2. smoothed' \in Int
  BY <1>1, SmoothType DEF Regulate
<1>3. hold' \in Int /\ last' \in Int /\ emitted' \in BOOLEAN
  BY <1>2, EvaluateType DEF Regulate, Apply, setpoint
<1>4. slewed' \in Int
  BY <1>3, LimitBounds, TimesAssumption DEF Regulate
<1>5. latched' \in BOOLEAN /\ above' \in 0 .. 2
  <2>1. above' \in 0 .. 2
    BY DEF Regulate, CheckPanic
  <2>2. latched' = IF latched THEN ~Released(gap) ELSE above' = 2
    BY DEF Regulate, CheckPanic
  <2>3. latched' \in BOOLEAN
    BY <2>2, Zenon
  <2> QED
    BY <2>1, <2>3
<1>6. since' \in 0 .. PanicHold
  BY ConfigAssumption, TimesAssumption DEF Regulate, CheckPanic, Elapsed
<1>7. target' \in Int
  BY <1>4, <1>5, ClampType, ClampFull DEF Regulate, Override
<1>8. decision' \in {"Auto", "ForcedMinimum"} /\ md' \in {"auto", "forced"}
  BY DEF Regulate, Decide, Write
<1>9. phase' \in {"tick", "pause"}
  BY DEF Regulate
<1> QED
  BY <1>1, <1>2, <1>3, <1>4, <1>5, <1>6, <1>7, <1>8, <1>9

LEMMA GiveUpType ==
    ASSUME TypeOK, NEW reading \in Readings, NEW gap \in Gaps, GiveUp(reading, gap)
    PROVE  TypeOK'
<1> USE DEF TypeOK
<1>1. raw' \in Int /\ age' \in 0 .. DropoutLimit + 1
  BY SenseType DEF GiveUp
<1>2. since' \in 0 .. PanicHold
  BY ConfigAssumption, TimesAssumption DEF GiveUp, Elapsed
<1>3. decision' \in {"Auto", "ForcedMinimum"} /\ md' \in {"auto", "forced"}
  BY DEF GiveUp, Decide, Write
<1> QED
  BY <1>1, <1>2, <1>3, EnvelopeAssumption DEF GiveUp, setpoint

LEMMA WakeType ==
    ASSUME TypeOK, NEW actual \in Rpms \cup {MinRpm}, NEW reading \in Readings,
           Wake(actual, reading)
    PROVE  TypeOK'
<1>1. actual \in Int /\ ClampedRpm(actual) \in Int
  BY EnvelopeAssumption, ClampType
<1>2. smoothed' \in Int /\ last' \in Int
  BY HottestType, TimesAssumption DEF Wake
<1> QED
  BY <1>1, <1>2 DEF TypeOK, Wake, panic

LEMMA NextType == TypeOK /\ [Next]_vars => TypeOK'
<1> SUFFICES ASSUME TypeOK, [Next]_vars
             PROVE  TypeOK'
  OBVIOUS
<1>1. ASSUME NEW reading \in Readings, NEW gap \in Gaps, GiveUp(reading, gap)
      PROVE  TypeOK'
  BY <1>1, GiveUpType
<1>2. ASSUME NEW reading \in Readings, NEW gap \in Gaps, NEW duration \in Durations,
             Regulate(reading, duration, gap)
      PROVE  TypeOK'
  BY <1>2, RegulateType
<1>3. CASE Sleep
  BY <1>3 DEF Sleep, TypeOK, temperature, setpoint, panic
<1>4. ASSUME NEW actual \in Rpms \cup {MinRpm}, NEW reading \in Readings,
             Wake(actual, reading)
      PROVE  TypeOK'
  BY <1>4, WakeType
<1>5. CASE Reclaim
  BY <1>5 DEF Reclaim, TypeOK, temperature, setpoint, panic
<1>6. CASE UNCHANGED vars
  BY <1>6 DEF vars, TypeOK, temperature, setpoint, panic
<1> QED
  BY <1>1, <1>2, <1>3, <1>4, <1>5, <1>6 DEF Next

\* Every variable keeps its type, for every configuration.
THEOREM TypeCorrect == Spec => []TypeOK
<1> QED
  BY InitType, NextType, PTL DEF Spec

-----------------------------------------------------------------------------
(* The set point.                                                            *)

\* Not outside the margins is within them.
LEMMA WithinMargins ==
    ASSUME NEW t \in Int, last \in Int, ~OutsideMargins(t)
    PROVE  t - last <= HystUp /\ last - t <= HystDown
<1>1. -HystDown \in Int /\ HystUp \in Int /\ HystDown \in Int
  BY ConfigAssumption
<1>2. ~(t - last > HystUp) /\ ~(t - last < -HystDown)
  BY DEF OutsideMargins
<1>3. t - last <= HystUp
  BY <1>1, <1>2
<1>4. t - last >= -HystDown
  BY <1>1, <1>2
<1> QED
  BY <1>1, <1>3, <1>4

LEMMA SetpointInit == Init => SetpointFollowsCurve
  BY DEF Init, SetpointFollowsCurve

\* The hysteresis either moves its two fields together, to the temperature of the
\* moment, or finds that temperature within the margins of the old one.
LEMMA SetpointNext == TypeOK /\ SetpointFollowsCurve /\ [Next]_vars => SetpointFollowsCurve'
<1> SUFFICES ASSUME TypeOK, SetpointFollowsCurve, [Next]_vars
             PROVE  SetpointFollowsCurve'
  OBVIOUS
<1> USE DEF SetpointFollowsCurve
<1>1. ASSUME NEW reading \in Readings, NEW gap \in Gaps, GiveUp(reading, gap)
      PROVE  SetpointFollowsCurve'
  BY <1>1 DEF GiveUp, setpoint, Evaluate
<1>2. ASSUME NEW reading \in Readings, NEW gap \in Gaps, NEW duration \in Durations,
             Regulate(reading, duration, gap)
      PROVE  SetpointFollowsCurve'
  <2>1. raw' \in Int /\ smoothed' \in Int /\ last \in Int
    BY <1>2, SenseType, SmoothType DEF Regulate, TypeOK
  <2>2. Apply
    BY <1>2 DEF Regulate
  <2>3. CASE OutsideMargins(smoothed')
    <3>1. hold' = Evaluate(smoothed') /\ last' = smoothed'
      BY <2>2, <2>3 DEF Apply
    <3>2. hold' = Evaluate(last')
      BY <3>1
    <3> QED
      BY <2>1, <3>1, <3>2, ConfigAssumption DEF Evaluate
  <2>4. CASE ~OutsideMargins(smoothed')
    <3>1. hold' = hold /\ last' = last /\ emitted' = emitted
      BY <2>2, <2>4 DEF Apply, setpoint
    <3>2. smoothed' - last' <= HystUp /\ last' - smoothed' <= HystDown
      <4>1. smoothed' - last <= HystUp /\ last - smoothed' <= HystDown
        BY <2>1, <2>4, WithinMargins
      <4> QED
        BY <3>1, <4>1
    <3>3. emitted => hold' = Evaluate(last')
      BY <3>1
    <3> QED
      BY <3>1, <3>2, <3>3 DEF Evaluate
  <2> QED
    BY <2>3, <2>4
<1>3. CASE Sleep
  BY <1>3 DEF Sleep, temperature, setpoint, Evaluate
<1>4. ASSUME NEW actual \in Rpms \cup {MinRpm}, NEW reading \in Readings,
             Wake(actual, reading)
      PROVE  SetpointFollowsCurve'
  BY <1>4 DEF Wake
<1>5. CASE Reclaim
  BY <1>5 DEF Reclaim, temperature, setpoint, Evaluate
<1>6. CASE UNCHANGED vars
  BY <1>6 DEF vars, temperature, setpoint, Evaluate
<1> QED
  BY <1>1, <1>2, <1>3, <1>4, <1>5, <1>6 DEF Next

\* Once a value has passed the hysteresis, the set point is the curve's at a
\* temperature no further from the smoothed one than the margins.
THEOREM SetpointIsCurve == Spec => []SetpointFollowsCurve
<1> QED
  BY TypeCorrect, SetpointInit, SetpointNext, PTL DEF Spec

-----------------------------------------------------------------------------
(* The override.                                                             *)

LEMMA OverrideInit == Init => PanicOverridesCurve
  BY DEF Init, PanicOverridesCurve

\* A tick that ends hot ends latched, whether the panic is new or old.
LEMMA HotIsLatched ==
    ASSUME TypeOK, NEW gap \in Gaps, CheckPanic(gap), raw' \in Int, above' = 2
    PROVE  latched'
<1>1. ~(raw' <= PanicTemp)
  BY DEF CheckPanic
<1>2. latched' = IF latched THEN ~Released(gap) ELSE above' = 2
  BY DEF CheckPanic
<1>3. ~Released(gap)
  BY <1>1 DEF Released
<1> QED
  BY <1>2, <1>3, Zenon

LEMMA OverrideNext == TypeOK /\ PanicOverridesCurve /\ [Next]_vars => PanicOverridesCurve'
<1> SUFFICES ASSUME TypeOK, PanicOverridesCurve, [Next]_vars
             PROVE  PanicOverridesCurve'
  OBVIOUS
<1> USE DEF PanicOverridesCurve
<1>1. ASSUME NEW reading \in Readings, NEW gap \in Gaps, GiveUp(reading, gap)
      PROVE  PanicOverridesCurve'
  BY <1>1, FullIsAuto, EnvelopeAssumption DEF GiveUp
<1>2. ASSUME NEW reading \in Readings, NEW gap \in Gaps, NEW duration \in Durations,
             Regulate(reading, duration, gap)
      PROVE  PanicOverridesCurve'
  <2>1. raw' \in Int /\ age' <= DropoutLimit /\ age' \in Int
    BY <1>2, SenseType DEF Regulate, TypeOK
  <2>2. ~(age' > DropoutLimit)
    BY <2>1, TimesAssumption
  <2>3. above' = 2 => latched'
    BY <1>2, <2>1, HotIsLatched DEF Regulate
  <2>4. latched' => target' = ClampedRpm(MaxRpm)
    BY <1>2 DEF Regulate, Override
  <2>5. latched' => target' >= MaxRpm /\ decision' = "Auto"
    BY <1>2, <2>4, ClampFull, FullIsAuto DEF Regulate
  <2> QED
    BY <2>2, <2>3, <2>5
<1>3. CASE Sleep
  BY <1>3 DEF Sleep
<1>4. ASSUME NEW actual \in Rpms \cup {MinRpm}, NEW reading \in Readings,
             Wake(actual, reading)
      PROVE  PanicOverridesCurve'
  BY <1>4 DEF Wake
<1>5. CASE Reclaim
  BY <1>5 DEF Reclaim, temperature, panic
<1>6. CASE UNCHANGED vars
  BY <1>6 DEF vars, temperature, panic
<1> QED
  BY <1>1, <1>2, <1>3, <1>4, <1>5, <1>6 DEF Next

\* While a panic is latched, while two ticks running are hot, and while the sensors
\* are lost, the tick asks for full speed and the adapter forces nothing.
THEOREM PanicIsFullSpeed == Spec => []PanicOverridesCurve
<1> QED
  BY TypeCorrect, OverrideInit, OverrideNext, PTL DEF Spec

-----------------------------------------------------------------------------
(* The ramp.                                                                 *)

\* The target follows the ramp unless something overrides it, and never exceeds
\* the maximum.
RampInv ==
    /\ target <= MaxRpm
    /\ latched \/ age > DropoutLimit \/ target = ClampedRpm(slewed)

\* Two requests that differ by d at most are clamped to values that do, provided
\* the floor is not above the maximum.
LEMMA ClampSteps ==
    ASSUME SafeMin <= MaxRpm, NEW a \in Int, NEW b \in Int, NEW d \in Nat, b >= a - d
    PROVE  ClampedRpm(b) >= ClampedRpm(a) - d /\ ClampedRpm(b) <= MaxRpm
  BY EnvelopeAssumption DEF ClampedRpm, EffectiveMin

LEMMA RampInit == SafeMin <= MaxRpm /\ Init => RampInv
<1> SUFFICES ASSUME SafeMin <= MaxRpm, NEW actual \in Rpms \cup {MinRpm},
                    slewed = actual, target = ClampedRpm(actual)
             PROVE  RampInv
  BY DEF Init
<1>1. actual \in Int
  BY EnvelopeAssumption
<1> QED
  BY <1>1, EnvelopeAssumption DEF RampInv, ClampedRpm, EffectiveMin

\* A tick asks for the maximum or takes one step of the ramp.
LEMMA RegulateRamp ==
    ASSUME SafeMin <= MaxRpm, TypeOK, RampInv,
           NEW reading \in Readings, NEW duration \in Durations, NEW gap \in Gaps,
           Regulate(reading, duration, gap)
    PROVE  /\ RampInv'
           /\ \/ target' >= target - RampDown
              \/ latched /\ ~latched'
              \/ age > DropoutLimit /\ age' = 0
<1>1. /\ raw' \in Int /\ age' <= DropoutLimit /\ slewed \in Int /\ target \in Int
      /\ hold' \in Int /\ slewed' \in Int
  <2>1. TypeOK'
    BY RegulateType
  <2> QED
    BY <2>1 DEF TypeOK, Regulate
<1>2. slewed' >= slewed - RampDown
  BY <1>1, LimitBounds, TimesAssumption DEF Regulate
<1>3. target' = IF latched' THEN ClampedRpm(MaxRpm) ELSE ClampedRpm(slewed')
  BY DEF Regulate, Override
<1>4. ClampedRpm(MaxRpm) = MaxRpm
  BY EnvelopeAssumption DEF ClampedRpm, EffectiveMin
<1>5. RampInv'
  <2>1. ClampedRpm(slewed') <= MaxRpm
    BY <1>1, <1>2, ClampSteps, ConfigAssumption
  <2> QED
    BY <1>3, <1>4, <2>1, EnvelopeAssumption DEF RampInv, ClampedRpm
<1>6. latched' => target' >= target - RampDown
  <2>1. RampDown \in Int /\ RampDown >= 0 /\ MaxRpm \in Int /\ target <= MaxRpm
    BY EnvelopeAssumption, ConfigAssumption DEF RampInv
  <2> QED
    BY <1>1, <1>3, <1>4, <2>1
<1>7. ASSUME ~latched', ~latched, age > DropoutLimit
      PROVE  age' = 0
  <2>1. age' = 0 \/ age' = age
    BY <1>7 DEF Regulate, Sense
  <2>2. age \in Int /\ ~(age > DropoutLimit /\ age <= DropoutLimit)
    BY TimesAssumption DEF TypeOK
  <2> QED
    BY <1>1, <1>7, <2>1, <2>2
<1>8. ASSUME ~latched', ~latched, ~(age > DropoutLimit)
      PROVE  target' >= target - RampDown
  <2>1. target = ClampedRpm(slewed) /\ target' = ClampedRpm(slewed')
    BY <1>3, <1>8 DEF RampInv
  <2>2. RampDown \in Nat
    BY ConfigAssumption
  <2> QED
    BY <1>1, <1>2, <2>1, <2>2, ClampSteps
<1> QED
  BY <1>5, <1>6, <1>7, <1>8

LEMMA RampNext ==
    ASSUME SafeMin <= MaxRpm, TypeOK, RampInv, [Next]_vars
    PROVE  /\ RampInv'
           /\ phase = "tick" => \/ target' >= target - RampDown
                                \/ latched /\ ~latched'
                                \/ age > DropoutLimit /\ age' = 0
<1> DEFINE Goal == /\ RampInv'
                   /\ phase = "tick" => \/ target' >= target - RampDown
                                        \/ latched /\ ~latched'
                                        \/ age > DropoutLimit /\ age' = 0
<1>1. ASSUME NEW reading \in Readings, NEW gap \in Gaps, GiveUp(reading, gap)
      PROVE  Goal
  BY <1>1, EnvelopeAssumption, ConfigAssumption DEF GiveUp, RampInv, TypeOK
<1>2. ASSUME NEW reading \in Readings, NEW gap \in Gaps, NEW duration \in Durations,
             Regulate(reading, duration, gap)
      PROVE  Goal
  BY <1>2, RegulateRamp
<1>3. ASSUME Sleep PROVE Goal
  BY <1>3 DEF Sleep, RampInv, ClampedRpm, temperature, panic
<1>4. ASSUME NEW actual \in Rpms \cup {MinRpm}, NEW reading \in Readings,
             Wake(actual, reading)
      PROVE  Goal
  <2>1. actual \in Int
    BY EnvelopeAssumption
  <2>2. slewed' = actual /\ target' = ClampedRpm(actual) /\ phase = "pause"
    BY <1>4 DEF Wake
  <2>3. ClampedRpm(actual) <= MaxRpm
    BY <2>1, ClampSteps
  <2> QED
    BY <2>2, <2>3 DEF RampInv, ClampedRpm
<1>5. ASSUME Reclaim PROVE Goal
  BY <1>5, ConfigAssumption DEF Reclaim, RampInv, ClampedRpm, temperature, panic, TypeOK
<1>6. ASSUME UNCHANGED vars PROVE Goal
  BY <1>6, ConfigAssumption DEF vars, RampInv, ClampedRpm, temperature, panic, TypeOK
<1> QED
  <2> HIDE DEF Goal
  <2>1. Goal
    BY <1>1, <1>2, <1>3, <1>4, <1>5, <1>6 DEF Next
  <2> QED
    BY <2>1 DEF Goal

\* Where the safe floor is not above the fan's maximum, the target falls by at most
\* one second of the ramp in a tick, but for the end of a panic and of a sensor loss.
THEOREM RampIsLimited == ASSUME SafeMin <= MaxRpm PROVE Spec => RampDownLimited
<1>1. TypeOK /\ RampInv /\ [Next]_vars =>
        RampInv' /\ [phase = "tick" => \/ target' >= target - RampDown
                                       \/ latched /\ ~latched'
                                       \/ age > DropoutLimit /\ age' = 0]_vars
  BY RampNext
<1> QED
  BY TypeCorrect, RampInit, <1>1, PTL DEF Spec, RampDownLimited

-----------------------------------------------------------------------------
(* The curve rises where its breakpoints do, and the average averages.       *)

\* The quotient, and how it follows the dividend.
LEMMA DivIs ==
    ASSUME NEW a \in Int, NEW d \in Nat \ {0}
    PROVE  a \div d \in Int /\ d * (a \div d) <= a /\ a < d * (a \div d) + d
  OBVIOUS

LEMMA DivAtLeast ==
    ASSUME NEW a \in Int, NEW d \in Nat \ {0}, NEW n \in Int, d * n <= a
    PROVE  n <= a \div d
<1> DEFINE q == a \div d
<1>1. q \in Int /\ a < d * q + d
  BY DivIs
<1> HIDE DEF q
<1>2. SUFFICES ASSUME q + 1 <= n
               PROVE  FALSE
  BY <1>1 DEF q
<1>3. d * (q + 1) <= d * n
  BY <1>1, <1>2
<1> QED
  BY <1>1, <1>3

LEMMA DivAtMost ==
    ASSUME NEW a \in Int, NEW d \in Nat \ {0}, NEW n \in Int, a <= d * n
    PROVE  a \div d <= n
<1> DEFINE q == a \div d
<1>1. q \in Int /\ d * q <= a
  BY DivIs
<1> HIDE DEF q
<1>2. SUFFICES ASSUME n + 1 <= q
               PROVE  FALSE
  BY <1>1 DEF q
<1>3. d * (n + 1) <= d * q
  BY <1>1, <1>2
<1> QED
  BY <1>1, <1>3

LEMMA DivMonotone ==
    ASSUME NEW a \in Int, NEW b \in Int, NEW d \in Nat \ {0}, a <= b
    PROVE  a \div d <= b \div d
<1>1. a \div d \in Int /\ d * (a \div d) <= a
  BY DivIs
<1> DEFINE n == a \div d
<1> HIDE DEF n
<1>2. n \in Int /\ d * n <= b
  BY <1>1 DEF n
<1>3. n <= b \div d
  BY <1>2, DivAtLeast
<1> QED
  BY <1>3 DEF n

\* A configuration whose curve asks for more speed the hotter it gets, and whose
\* smoothing goes towards the reading: validate.rs checks neither.
RisingCurve == \A i, j \in 1 .. Len(Curve) : i < j => Curve[i].rpm <= Curve[j].rpm

SmoothsForward == AlphaNum >= 0

\* The average leaves its old value for the side of the reading, if at all, rounded
\* either way (ema.rs).
LEMMA SmoothMovesTowards ==
    ASSUME SmoothsForward, NEW prev \in Int, NEW t \in Int, NEW s \in Smooth(prev, t)
    PROVE  /\ t >= prev => s >= prev
           /\ t <= prev => s <= prev
<1> DEFINE sum == (AlphaNum * t) + ((AlphaDen - AlphaNum) * prev)
           up  == sum + AlphaDen - 1
<1>1. AlphaNum \in Nat /\ AlphaDen \in Nat \ {0}
  BY AlphaAssumption DEF SmoothsForward
<1>2. sum \in Int /\ up \in Int /\ sum <= up /\ up < sum + AlphaDen
  BY <1>1
<1>3. /\ t >= prev => AlphaDen * prev <= sum
      /\ t <= prev => sum <= AlphaDen * prev
  <2>1. sum = AlphaDen * prev + AlphaNum * (t - prev)
    BY <1>1
  <2>2. /\ t >= prev => AlphaNum * (t - prev) >= 0
        /\ t <= prev => AlphaNum * (t - prev) <= 0
    BY <1>1
  <2>3. AlphaDen * prev \in Int /\ AlphaNum * (t - prev) \in Int
    BY <1>1
  <2> QED
    BY <2>1, <2>2, <2>3
<1>4. s = sum \div AlphaDen \/ s = up \div AlphaDen
  BY DEF Smooth
<1> HIDE DEF sum, up
<1>5. AlphaDen * prev \in Int
  BY <1>1
<1>6. ASSUME t >= prev
      PROVE  s >= prev
  <2>1. prev <= sum \div AlphaDen
    BY <1>1, <1>2, <1>3, <1>6, DivAtLeast
  <2>2. AlphaDen * prev <= up
    BY <1>1, <1>2, <1>3, <1>5, <1>6
  <2>3. prev <= up \div AlphaDen
    BY <1>1, <1>2, <2>2, DivAtLeast
  <2>4. sum \div AlphaDen \in Int /\ up \div AlphaDen \in Int
    BY <1>1, <1>2, DivIs
  <2> QED
    BY <1>4, <2>1, <2>3, <2>4
<1>7. ASSUME t <= prev
      PROVE  s <= prev
  <2>1. sum \div AlphaDen <= prev
    BY <1>1, <1>2, <1>3, <1>7, DivAtMost
  <2>2. up \div AlphaDen <= prev
    <3> DEFINE q == up \div AlphaDen
    <3>1. q \in Int /\ AlphaDen * q <= up
      BY <1>1, <1>2, DivIs
    <3> HIDE DEF q
    <3>2. SUFFICES ASSUME prev + 1 <= q
                   PROVE  FALSE
      BY <3>1 DEF q
    <3>3. AlphaDen * (prev + 1) <= AlphaDen * q
      BY <1>1, <3>1, <3>2
    <3>4. AlphaDen * (prev + 1) = AlphaDen * prev + AlphaDen
      BY <1>1
    <3>5. AlphaDen * q \in Int
      BY <1>1, <3>1
    <3> QED
      BY <1>1, <1>2, <1>3, <1>5, <1>7, <3>1, <3>3, <3>4, <3>5
  <2> QED
    BY <1>4, <2>1, <2>2
<1> QED
  BY <1>6, <1>7

\* Between two breakpoints the speed is between theirs, and rises with the
\* temperature (curve.rs evaluate).
LEMMA InterpolateRises ==
    ASSUME NEW lo \in [temp : Nat, rpm : Nat], NEW hi \in [temp : Nat, rpm : Nat],
           lo.temp < hi.temp, lo.rpm <= hi.rpm,
           NEW t \in Int, NEW u \in Int, lo.temp <= t, t <= u, u <= hi.temp
    PROVE  /\ Interpolate(lo, hi, t) \in Int
           /\ lo.rpm <= Interpolate(lo, hi, t)
           /\ Interpolate(lo, hi, t) <= Interpolate(lo, hi, u)
           /\ Interpolate(lo, hi, u) <= hi.rpm
<1> DEFINE a == lo.temp
           b == hi.temp
           x == lo.rpm
           y == hi.rpm
           N(v) == (x * (b - v)) + (y * (v - a))
<1>1. /\ a \in Nat /\ b \in Nat /\ x \in Nat /\ y \in Nat
      /\ a < b /\ x <= y /\ a <= t /\ t <= u /\ u <= b
  OBVIOUS
<1>2. Interpolate(lo, hi, t) = N(t) \div (b - a) /\ Interpolate(lo, hi, u) = N(u) \div (b - a)
  BY DEF Interpolate
<1> HIDE DEF a, b, x, y
<1>3. b - a \in Nat \ {0}
  BY <1>1
<1>4. ASSUME NEW v \in Int, a <= v, v <= b
      PROVE  N(v) \in Int /\ (b - a) * x <= N(v) /\ N(v) <= (b - a) * y
  <2>1. x * (b - v) + x * (v - a) = (b - a) * x /\ y * (b - v) + y * (v - a) = (b - a) * y
    BY <1>1, <1>4
  <2>2. x * (v - a) <= y * (v - a) /\ x * (b - v) <= y * (b - v)
    BY <1>1, <1>4
  <2> QED
    BY <1>1, <1>4, <2>1, <2>2
<1>5. N(t) <= N(u)
  <2>1. N(u) - N(t) = (y - x) * (u - t)
    BY <1>1
  <2>2. (y - x) * (u - t) >= 0
    BY <1>1
  <2>3. N(t) \in Int /\ N(u) \in Int
    BY <1>1, <1>4
  <2> QED
    BY <2>1, <2>2, <2>3
<1>6. /\ N(t) \in Int /\ N(u) \in Int
      /\ (b - a) * x <= N(t) /\ N(u) <= (b - a) * y
  BY <1>1, <1>4
<1> HIDE DEF N
<1>7. N(t) \div (b - a) \in Int /\ x <= N(t) \div (b - a)
  BY <1>1, <1>3, <1>6, DivIs, DivAtLeast
<1>8. N(t) \div (b - a) <= N(u) \div (b - a)
  BY <1>3, <1>5, <1>6, DivMonotone
<1>9. N(u) \div (b - a) <= y
  BY <1>1, <1>3, <1>6, DivAtMost
<1> QED
  BY <1>2, <1>7, <1>8, <1>9 DEF x, y

\* Below the last breakpoint and above the first, the loop of evaluate stops at the
\* two that enclose the temperature.
LEMMA Segment ==
    ASSUME RisingCurve, NEW t \in Int, First.temp < t, t < Last.temp
    PROVE  /\ Above(t) \in 2 .. Len(Curve)
           /\ Curve[Above(t) - 1] \in [temp : Nat, rpm : Nat]
           /\ Curve[Above(t)] \in [temp : Nat, rpm : Nat]
           /\ Curve[Above(t) - 1].temp < Curve[Above(t)].temp
           /\ Curve[Above(t) - 1].rpm <= Curve[Above(t)].rpm
           /\ Curve[Above(t) - 1].temp < t /\ t <= Curve[Above(t)].temp
           /\ Evaluate(t) = Interpolate(Curve[Above(t) - 1], Curve[Above(t)], t)
<1>1. First.temp \in Int /\ Last.temp \in Int
  BY BreakpointType, CurveLength DEF First, Last
<1>2. /\ Above(t) \in 2 .. Len(Curve) /\ t <= Curve[Above(t)].temp
      /\ \A j \in 2 .. Above(t) - 1 : Curve[j].temp < t
  BY <1>1, AboveType
<1>3. Above(t) \in 1 .. Len(Curve) /\ Above(t) - 1 \in 1 .. Len(Curve) /\ Above(t) - 1 < Above(t)
  BY <1>2, CurveLength
<1>4. Curve[Above(t) - 1] \in [temp : Nat, rpm : Nat] /\ Curve[Above(t)] \in [temp : Nat, rpm : Nat]
  BY <1>3, CurveAssumption, ElementOfSeq
<1>5. /\ Curve[Above(t) - 1].temp < Curve[Above(t)].temp
      /\ Curve[Above(t) - 1].rpm <= Curve[Above(t)].rpm
  BY <1>3, CurveAssumption DEF RisingCurve
<1>6. Curve[Above(t) - 1].temp < t
  <2>1. CASE Above(t) = 2
    BY <2>1 DEF First
  <2>2. CASE Above(t) # 2
    <3>1. Above(t) - 1 \in 2 .. Above(t) - 1
      BY <1>2, <2>2, CurveLength
    <3> QED
      BY <1>2, <3>1
  <2> QED
    BY <2>1, <2>2
<1>7. Evaluate(t) = Interpolate(Curve[Above(t) - 1], Curve[Above(t)], t)
  BY <1>1 DEF Evaluate
<1> QED
  BY <1>2, <1>4, <1>5, <1>6, <1>7

\* Of two breakpoints the later one asks for no less.
LEMMA LaterIsFaster ==
    ASSUME RisingCurve, NEW i \in 1 .. Len(Curve), NEW j \in 1 .. Len(Curve), i <= j
    PROVE  Curve[i].rpm \in Int /\ Curve[j].rpm \in Int /\ Curve[i].rpm <= Curve[j].rpm
<1>1. Curve[i].rpm \in Int /\ Curve[j].rpm \in Int
  BY BreakpointType
<1>2. CASE i = j
  BY <1>1, <1>2
<1>3. CASE i < j
  BY <1>1, <1>3 DEF RisingCurve
<1> QED
  BY <1>2, <1>3, CurveLength

\* The whole of the curve lies between its ends.
LEMMA EvaluateBounds ==
    ASSUME RisingCurve, NEW t \in Int
    PROVE  First.rpm <= Evaluate(t) /\ Evaluate(t) <= Last.rpm
<1>1. 1 \in 1 .. Len(Curve) /\ Len(Curve) \in 1 .. Len(Curve) /\ 1 <= Len(Curve)
  BY CurveLength
<1>2. /\ First.rpm \in Int /\ Last.rpm \in Int /\ First.rpm <= Last.rpm
      /\ First.temp \in Int /\ Last.temp \in Int
  BY <1>1, LaterIsFaster, BreakpointType DEF First, Last
<1>3. CASE t <= First.temp \/ t >= Last.temp
  BY <1>2, <1>3 DEF Evaluate
<1>4. CASE First.temp < t /\ t < Last.temp
  <2> DEFINE k == Above(t)
  <2>1. /\ k \in 2 .. Len(Curve)
        /\ Curve[k - 1] \in [temp : Nat, rpm : Nat] /\ Curve[k] \in [temp : Nat, rpm : Nat]
        /\ Curve[k - 1].temp < Curve[k].temp /\ Curve[k - 1].rpm <= Curve[k].rpm
        /\ Curve[k - 1].temp < t /\ t <= Curve[k].temp
        /\ Evaluate(t) = Interpolate(Curve[k - 1], Curve[k], t)
    BY <1>4, Segment
  <2> HIDE DEF k
  <2>2. /\ Evaluate(t) \in Int
        /\ Curve[k - 1].rpm <= Evaluate(t) /\ Evaluate(t) <= Curve[k].rpm
    BY <2>1, InterpolateRises
  <2>3. k \in 1 .. Len(Curve) /\ k - 1 \in 1 .. Len(Curve) /\ 1 <= k - 1 /\ k <= Len(Curve)
    BY <2>1, CurveLength
  <2>4. First.rpm <= Curve[k - 1].rpm /\ Curve[k - 1].rpm \in Int
    BY <1>1, <2>3, LaterIsFaster DEF First
  <2>5. Curve[k].rpm <= Last.rpm /\ Curve[k].rpm \in Int
    BY <1>1, <2>3, LaterIsFaster DEF Last
  <2> QED
    BY <1>2, <2>2, <2>4, <2>5
<1> QED
  BY <1>2, <1>3, <1>4

\* The hotter, the faster.
LEMMA EvaluateRises ==
    ASSUME RisingCurve, NEW t \in Int, NEW u \in Int, t <= u
    PROVE  Evaluate(t) <= Evaluate(u)
<1>1. /\ First.rpm \in Int /\ Last.rpm \in Int /\ First.temp \in Int /\ Last.temp \in Int
      /\ First.temp < Last.temp
  BY BreakpointType, CurveLength, CurveAssumption DEF First, Last
<1>2. Evaluate(t) \in Int /\ Evaluate(u) \in Int
  BY EvaluateType
<1>3. CASE t <= First.temp
  <2>1. Evaluate(t) = First.rpm
    BY <1>1, <1>3 DEF Evaluate
  <2>2. First.rpm <= Evaluate(u)
    BY EvaluateBounds
  <2> QED
    BY <2>1, <2>2
<1>4. CASE u >= Last.temp /\ ~(t <= First.temp)
  <2>1. Evaluate(u) = Last.rpm
    <3>1. ~(u <= First.temp)
      BY <1>1, <1>4
    <3> QED
      BY <1>4, <3>1 DEF Evaluate
  <2> QED
    BY <2>1, EvaluateBounds
<1>5. CASE First.temp < t /\ u < Last.temp
  <2> DEFINE k == Above(t)
             m == Above(u)
  <2>1. /\ k \in 2 .. Len(Curve)
        /\ Curve[k - 1] \in [temp : Nat, rpm : Nat] /\ Curve[k] \in [temp : Nat, rpm : Nat]
        /\ Curve[k - 1].temp < Curve[k].temp /\ Curve[k - 1].rpm <= Curve[k].rpm
        /\ Curve[k - 1].temp < t /\ t <= Curve[k].temp
        /\ Evaluate(t) = Interpolate(Curve[k - 1], Curve[k], t)
    BY <1>1, <1>5, Segment
  <2>2. /\ m \in 2 .. Len(Curve)
        /\ Curve[m - 1] \in [temp : Nat, rpm : Nat] /\ Curve[m] \in [temp : Nat, rpm : Nat]
        /\ Curve[m - 1].temp < Curve[m].temp /\ Curve[m - 1].rpm <= Curve[m].rpm
        /\ Curve[m - 1].temp < u /\ u <= Curve[m].temp
        /\ Evaluate(u) = Interpolate(Curve[m - 1], Curve[m], u)
    BY <1>1, <1>5, Segment
  <2>3. k <= m
    <3>1. \A j \in 2 .. k - 1 : Curve[j].temp < t
      BY <1>1, <1>5, AboveType
    <3> HIDE DEF k, m
    <3>2. SUFFICES ASSUME m < k
                   PROVE  FALSE
      BY <2>1, <2>2, CurveLength
    <3>3. m \in 2 .. k - 1
      BY <2>1, <2>2, <3>2, CurveLength
    <3>4. Curve[m].temp < t /\ Curve[m].temp \in Int
      BY <2>2, <3>1, <3>3
    <3> QED
      BY <2>2, <3>4
  <2> HIDE DEF k, m
  <2>4. CASE k = m
    BY <2>1, <2>2, <2>4, InterpolateRises
  <2>5. CASE k < m
    <3>1. Evaluate(t) <= Curve[k].rpm
      BY <2>1, InterpolateRises
    <3>2. Curve[m - 1].rpm <= Evaluate(u)
      BY <2>2, InterpolateRises
    <3>3. k \in 1 .. Len(Curve) /\ m - 1 \in 1 .. Len(Curve) /\ k <= m - 1
      BY <2>1, <2>2, <2>5, CurveLength
    <3>4. Curve[k].rpm <= Curve[m - 1].rpm /\ Curve[k].rpm \in Int /\ Curve[m - 1].rpm \in Int
      BY <3>3, LaterIsFaster
    <3> QED
      BY <1>2, <3>1, <3>2, <3>4
  <2> QED
    BY <2>1, <2>2, <2>3, <2>4, <2>5, CurveLength
<1> QED
  BY <1>1, <1>3, <1>4, <1>5

-----------------------------------------------------------------------------
(* The heat.                                                                 *)

\* The ramp and the clamp only ever add to the set point, up to the maximum.
HeatInv ==
    /\ slewed >= hold
    /\ emitted => target >= MaxRpm \/ target >= hold

LEMMA LimitAtLeast ==
    ASSUME NEW prev \in Int, NEW rpm \in Int, NEW duration \in Nat
    PROVE  Limit(prev, rpm, duration) >= rpm
  BY MaxDownBounds DEF Limit

LEMMA ClampAtLeast ==
    ASSUME NEW rpm \in Int
    PROVE  ClampedRpm(rpm) >= rpm \/ ClampedRpm(rpm) >= MaxRpm
  BY EnvelopeAssumption DEF ClampedRpm, EffectiveMin

LEMMA HeatInit == Init => HeatInv
<1> SUFFICES ASSUME NEW actual \in Rpms \cup {MinRpm}, slewed = actual, hold = actual,
                    emitted = FALSE
             PROVE  HeatInv
  BY DEF Init
<1>1. actual \in Int
  BY EnvelopeAssumption
<1> QED
  BY <1>1 DEF HeatInv

LEMMA HeatNext == TypeOK /\ HeatInv /\ [Next]_vars => HeatInv'
<1> SUFFICES ASSUME TypeOK, HeatInv, [Next]_vars
             PROVE  HeatInv'
  OBVIOUS
<1>1. ASSUME NEW reading \in Readings, NEW gap \in Gaps, GiveUp(reading, gap)
      PROVE  HeatInv'
  BY <1>1, EnvelopeAssumption DEF GiveUp, HeatInv, setpoint
<1>2. ASSUME NEW reading \in Readings, NEW gap \in Gaps, NEW duration \in Durations,
             Regulate(reading, duration, gap)
      PROVE  HeatInv'
  <2>1. slewed \in Int /\ hold' \in Int /\ slewed' \in Int
    BY <1>2, RegulateType DEF TypeOK
  <2>2. slewed' >= hold'
    BY <1>2, <2>1, LimitAtLeast, TimesAssumption DEF Regulate
  <2>3. target' = ClampedRpm(MaxRpm) \/ target' = ClampedRpm(slewed')
    BY <1>2 DEF Regulate, Override
  <2>4. target' >= MaxRpm \/ target' >= slewed'
    BY <2>1, <2>3, ClampFull, ClampAtLeast
  <2>5. target' \in Int
    BY <1>2, RegulateType DEF TypeOK
  <2> QED
    BY <2>1, <2>2, <2>4, <2>5 DEF HeatInv
<1>3. CASE Sleep
  BY <1>3 DEF Sleep, HeatInv, setpoint
<1>4. ASSUME NEW actual \in Rpms \cup {MinRpm}, NEW reading \in Readings,
             Wake(actual, reading)
      PROVE  HeatInv'
  <2>1. actual \in Int
    BY EnvelopeAssumption
  <2> QED
    BY <1>4, <2>1 DEF Wake, HeatInv
<1>5. CASE Reclaim
  BY <1>5 DEF Reclaim, HeatInv, setpoint
<1>6. CASE UNCHANGED vars
  BY <1>6 DEF vars, HeatInv, setpoint
<1> QED
  BY <1>1, <1>2, <1>3, <1>4, <1>5, <1>6 DEF Next

\* With a curve that rises, the fan is asked for at least the curve's speed one up
\* margin below the smoothed temperature, or for the maximum.
THEOREM HeatIsAnsweredAlways == ASSUME RisingCurve PROVE Spec => []HeatIsAnswered
<1>1. TypeOK /\ SetpointFollowsCurve /\ HeatInv => HeatIsAnswered
  <2> SUFFICES ASSUME TypeOK, SetpointFollowsCurve, HeatInv, emitted
               PROVE  target >= MaxRpm \/ target >= Evaluate(smoothed - HystUp)
    BY DEF HeatIsAnswered
  <2>1. /\ smoothed \in Int /\ last \in Int /\ hold \in Int /\ target \in Int
        /\ HystUp \in Int /\ MaxRpm \in Int
    BY ConfigAssumption, EnvelopeAssumption DEF TypeOK
  <2>2. hold = Evaluate(last) /\ smoothed - last <= HystUp
    BY DEF SetpointFollowsCurve
  <2>3. smoothed - HystUp \in Int /\ smoothed - HystUp <= last
    BY <2>1, <2>2
  <2>4. Evaluate(smoothed - HystUp) \in Int /\ Evaluate(smoothed - HystUp) <= Evaluate(last)
    BY <2>1, <2>3, EvaluateRises, EvaluateType
  <2> QED
    BY <2>1, <2>2, <2>4 DEF HeatInv
<1> QED
  BY <1>1, TypeCorrect, SetpointIsCurve, HeatInit, HeatNext, PTL DEF Spec

\* A temperature outside a margin about the old set point is beyond one inside it.
LEMMA BeyondUp ==
    ASSUME NEW new \in Int, NEW old \in Int, NEW at \in Int, NEW m \in Nat,
           new - at > m, old - at <= m
    PROVE  new > old /\ at <= new
  OBVIOUS

LEMMA BeyondDown ==
    ASSUME NEW new \in Int, NEW old \in Int, NEW at \in Int, NEW m \in Nat,
           new - at < -m, at - old <= m
    PROVE  new < old /\ new <= at
<1>1. -m \in Int
  OBVIOUS
<1> QED
  BY <1>1

\* One tick, seen from the reading that it takes.
LEMMA SetpointStep ==
    ASSUME RisingCurve, SmoothsForward, TypeOK, SetpointFollowsCurve, emitted,
           NEW reading \in Readings, NEW duration \in Durations, NEW gap \in Gaps,
           Regulate(reading, duration, gap)
    PROVE  /\ raw' >= smoothed => hold' >= hold
           /\ raw' <= smoothed => hold' <= hold
<1>1. /\ raw' \in Int /\ smoothed \in Int /\ smoothed' \in Int /\ last \in Int /\ hold \in Int
      /\ HystUp \in Nat /\ HystDown \in Nat
  BY RegulateType, ConfigAssumption DEF TypeOK
<1>2. /\ raw' >= smoothed => smoothed' >= smoothed
      /\ raw' <= smoothed => smoothed' <= smoothed
  BY <1>1, SmoothMovesTowards DEF Regulate
<1>3. hold = Evaluate(last) /\ smoothed - last <= HystUp /\ last - smoothed <= HystDown
  BY DEF SetpointFollowsCurve
<1>4. Apply
  BY DEF Regulate
<1>5. CASE ~OutsideMargins(smoothed')
  BY <1>1, <1>4, <1>5 DEF Apply, setpoint
<1>6. CASE smoothed' - last > HystUp
  <2>1. hold' = Evaluate(smoothed')
    BY <1>4, <1>6 DEF Apply, OutsideMargins
  <2>2. smoothed' > smoothed /\ last <= smoothed'
    <3>1. smoothed - last <= HystUp
      BY <1>3
    <3> QED
      BY <1>1, <1>6, <3>1, BeyondUp
  <2>3. Evaluate(last) <= Evaluate(smoothed')
    BY <1>1, <2>2, EvaluateRises
  <2>4. Evaluate(last) \in Int /\ Evaluate(smoothed') \in Int
    BY <1>1, EvaluateType
  <2>5. ~(raw' <= smoothed)
    BY <1>1, <1>2, <2>2
  <2> QED
    BY <1>3, <2>1, <2>3, <2>4, <2>5
<1>7. CASE OutsideMargins(smoothed') /\ ~(smoothed' - last > HystUp)
  <2>1. hold' = Evaluate(smoothed')
    BY <1>4, <1>7 DEF Apply
  <2>2. smoothed' - last < -HystDown /\ last - smoothed <= HystDown
    BY <1>3, <1>7 DEF OutsideMargins
  <2>3. smoothed' < smoothed /\ smoothed' <= last
    BY <1>1, <2>2, BeyondDown
  <2>4. Evaluate(smoothed') <= Evaluate(last)
    BY <1>1, <2>3, EvaluateRises
  <2>5. Evaluate(last) \in Int /\ Evaluate(smoothed') \in Int
    BY <1>1, EvaluateType
  <2>6. ~(raw' >= smoothed)
    BY <1>1, <1>2, <2>3
  <2> QED
    BY <1>3, <2>1, <2>4, <2>5, <2>6
<1> QED
  BY <1>5, <1>6, <1>7

\* With a curve that rises and a smoothing_alpha that is not negative, whatever the margins: a
\* reading no cooler than the average never lowers the set point, one no hotter never
\* raises it.
THEOREM SetpointMovesRight ==
    ASSUME RisingCurve, SmoothsForward PROVE Spec => SetpointMovesWithHeat
<1>1. TypeOK /\ SetpointFollowsCurve /\ [Next]_vars =>
        [phase = "tick" /\ emitted => /\ raw' >= smoothed => hold' >= hold
                                      /\ raw' <= smoothed => hold' <= hold]_vars
  <2> SUFFICES ASSUME TypeOK, SetpointFollowsCurve, [Next]_vars, phase = "tick", emitted
               PROVE  /\ raw' >= smoothed => hold' >= hold
                      /\ raw' <= smoothed => hold' <= hold
    OBVIOUS
  <2>0. hold \in Int
    BY DEF TypeOK
  <2>1. ASSUME NEW reading \in Readings, NEW gap \in Gaps, NEW duration \in Durations,
               Regulate(reading, duration, gap)
        PROVE  /\ raw' >= smoothed => hold' >= hold
               /\ raw' <= smoothed => hold' <= hold
    BY <2>1, SetpointStep
  <2>2. CASE hold' = hold
    BY <2>0, <2>2
  <2>3. ASSUME NEW reading \in Readings, NEW gap \in Gaps, GiveUp(reading, gap)
        PROVE  hold' = hold
    BY <2>3 DEF GiveUp, setpoint
  <2>4. CASE Sleep \/ Reclaim \/ UNCHANGED vars
    BY <2>2, <2>4 DEF Sleep, Reclaim, vars, setpoint
  <2>5. \A actual \in Rpms \cup {MinRpm}, reading \in Readings : ~Wake(actual, reading)
    BY DEF Wake
  <2> QED
    BY <2>1, <2>2, <2>3, <2>4, <2>5 DEF Next
<1> QED
  BY <1>1, TypeCorrect, SetpointIsCurve, PTL DEF Spec, SetpointMovesWithHeat

=============================================================================
