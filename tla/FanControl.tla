----------------------------- MODULE FanControl -----------------------------
(***************************************************************************)
(* One fan of the tick loop of `fand run`: the pipeline from the readings  *)
(* of its sensors to the mode that is written (fusion, smoothing, curve,   *)
(* hysteresis, ramp, panic, clamp, adapter), and what a wake from sleep    *)
(* resets.  The fans of a machine share nothing in the loop but the        *)
(* watchdog's heartbeat (module Watchdog) and the session that writes      *)
(* (module WriteSession, which leaves the decision open).                  *)
(*                                                                         *)
(* Temperatures and speeds are integers: the code's f32 are rounded to a   *)
(* grid, up or down where it matters.  Times are seconds, except the       *)
(* duration of a tick, in milliseconds.                                    *)
(***************************************************************************)
EXTENDS Integers, Sequences, FiniteSets, Functions

CONSTANTS
    Sensors,        \* the sensors the configuration names for the fan
    Temps,          \* the readings that pass for plausible
    Fusion,         \* "max" or "mean"
    AlphaNum, AlphaDen,         \* smoothing_alpha, a fraction
    Curve,          \* the breakpoints: a sequence of records [temp, rpm]
    HystUp, HystDown,           \* hysteresis_up, hysteresis_down
    RampDown,       \* ramp_down_rpm_per_s
    PanicTemp, PanicHold,       \* panic_temp_c, panic_hold_s
    MinRpm, MaxRpm, \* the fan's envelope, F<i>Mn and F<i>Mx
    SafeMin,        \* FAND_SAFE_MIN_RPM
    Rpms,           \* the actual speeds F<i>Ac may report
    DropoutLimit,   \* ticks without a sensor before the fan is given up: 60
    Durations,      \* how long the work of a tick may take, in ms
    Gaps,           \* whole seconds that may pass between two ticks
    Placeholder,    \* the temperature assumed when no sensor answers: 65
    NoReading       \* a sensor that fails or reads an implausible value

ASSUME TempsAssumption == Temps \subseteq 0 .. 150 /\ Temps # {} /\ NoReading \notin Temps

ASSUME SensorsAssumption == IsFiniteSet(Sensors) /\ Fusion \in {"max", "mean"}

ASSUME AlphaAssumption == AlphaNum \in Int /\ AlphaDen \in Nat \ {0}

\* validate: at least two breakpoints, of strictly increasing temperatures.
ASSUME CurveAssumption ==
    /\ Curve \in Seq([temp : Nat, rpm : Nat])
    /\ Len(Curve) >= 2
    /\ \A i, j \in 1 .. Len(Curve) : i < j => Curve[i].temp < Curve[j].temp

\* validate checks hysteresis_down alone.  A negative hysteresis_up, which it lets
\* through, is left out; panic_temp_c is not related to the curve.
ASSUME ConfigAssumption ==
    /\ HystUp \in Nat /\ HystDown \in Nat /\ RampDown \in Nat
    /\ PanicTemp \in Int /\ PanicHold \in Nat

ASSUME EnvelopeAssumption ==
    /\ MinRpm \in Nat /\ MaxRpm \in Nat /\ SafeMin \in Nat
    /\ MinRpm < MaxRpm
    /\ Rpms \subseteq Nat

ASSUME TimesAssumption ==
    /\ DropoutLimit \in Nat
    /\ Durations \subseteq Nat
    /\ Gaps \subseteq Nat
    /\ Placeholder \in Nat

VARIABLES
    md,         \* the fan's mode key: "auto" or "forced"
    phase,      \* "tick", or "pause" between the writes and the sleep
    raw,        \* driver_temp_raw, and last_known_good_temp: they are equal
    age,        \* last_known_good_age_ticks, up to DropoutLimit + 1
    smoothed,   \* driver_temp_smoothed
    hold, last, \* hysteresis: hold_rpm and last_temp
    slewed,     \* slew_limited_rpm
    latched,    \* panic: latched
    above,      \* panic: consecutive_above, up to 2
    since,      \* panic: seconds since entered_at, up to PanicHold
    target,     \* what the last tick returned, or the clamped speed of a (re)start
    decision,   \* the adapter's current mode, "Auto" or "ForcedMinimum"
    emitted     \* history: hysteresis has let a curve value pass since its init

temperature == <<raw, age, smoothed>>
setpoint    == <<hold, last, emitted>>
panic       == <<latched, above, since>>
vars == <<md, phase, temperature, setpoint, slewed, panic, target, decision>>

-----------------------------------------------------------------------------
(* Stage 2: fusion of the sensors that answered.                             *)

Valid(reading) == {s \in Sensors : reading[s] # NoReading}

Hottest(reading) ==
    CHOOSE t \in {reading[s] : s \in Valid(reading)} :
        \A s \in Valid(reading) : reading[s] <= t

Mean(reading) == SumFunctionOnSet(reading, Valid(reading)) \div Cardinality(Valid(reading))

\* A result that is no number leaves the last known temperature.
Fused(reading) ==
    LET t == IF Fusion = "max" THEN Hottest(reading) ELSE Mean(reading)
    IN  IF t \in Int THEN t ELSE raw

(* Stage 3: the exponential moving average, rounded down or up.              *)

Smooth(prev, t) ==
    LET sum == (AlphaNum * t) + ((AlphaDen - AlphaNum) * prev)
    IN  {sum \div AlphaDen, (sum + AlphaDen - 1) \div AlphaDen}

(* Stage 4: the curve, linear between two breakpoints.                       *)

First == Curve[1]
Last  == Curve[Len(Curve)]

\* The index the loop stops at: the first breakpoint not below t.
Above(t) ==
    CHOOSE i \in 2 .. Len(Curve) :
        t <= Curve[i].temp /\ \A j \in 2 .. i - 1 : Curve[j].temp < t

Interpolate(lo, hi, t) ==
    ((lo.rpm * (hi.temp - t)) + (hi.rpm * (t - lo.temp))) \div (hi.temp - lo.temp)

Evaluate(t) ==
    CASE t <= First.temp -> First.rpm
      [] t >= Last.temp  -> Last.rpm
      [] OTHER -> Interpolate(Curve[Above(t) - 1], Curve[Above(t)], t)

(* Stage 5: hysteresis.  Both directions apply the same two margins.         *)

OneMargin(t)      == t - last > HystUp                           \* mutant
NoMargin(t)       == t # last                                    \* mutant
OutsideMargins(t) == t - last > HystUp \/ t - last < -HystDown

(* Stage 6: ramp.  Up is unlimited; down counts at most one second.          *)

MaxDownUnclamped(duration) == (RampDown * duration) \div 1000       \* mutant

MaxDown(duration) == (RampDown * (IF duration < 1000 THEN duration ELSE 1000)) \div 1000

LimitBothWays(prev, rpm, duration) ==                               \* mutant
    IF rpm > prev + MaxDown(duration) THEN prev + MaxDown(duration)
    ELSE IF rpm > prev - MaxDown(duration) THEN rpm ELSE prev - MaxDown(duration)

Limit(prev, rpm, duration) ==
    IF rpm >= prev \/ rpm > prev - MaxDown(duration) THEN rpm ELSE prev - MaxDown(duration)

(* Stage 9: clamp to the envelope, the floor raised by FAND_SAFE_MIN_RPM.    *)

EffectiveMin == IF SafeMin > MinRpm THEN SafeMin ELSE MinRpm

ClampedRpm(rpm) ==
    CASE rpm < EffectiveMin -> EffectiveMin
      [] rpm >= EffectiveMin /\ rpm > MaxRpm -> MaxRpm
      [] OTHER -> rpm

(* Stage 10: the adapter engages at 5% of the range and disengages above 10% *)

Engages(rpm)    == 20 * (rpm - MinRpm) <= MaxRpm - MinRpm
Disengages(rpm) == 10 * (rpm - MinRpm) > MaxRpm - MinRpm

Decide(rpm) ==
    decision' = IF \/ decision = "Auto" /\ Engages(rpm)
                   \/ decision = "ForcedMinimum" /\ ~Disengages(rpm)
                THEN "ForcedMinimum" ELSE "Auto"

\* Only ForcedMinimum writes: commit_set_fan stores the mode or is refused.  Auto
\* writes nothing, so the mode stays what it was.
Write == md' \in IF decision' = "ForcedMinimum" THEN {"forced", md} ELSE {md}

-----------------------------------------------------------------------------
Readings == [Sensors -> Temps \cup {NoReading}]

\* execute_commit: the speed and the temperature of the moment seed the pipeline.
\* Nothing resets the mode key, which another writer may have left forced.
Init ==
    \E actual \in Rpms \cup {MinRpm}, reading \in Readings :
        LET t == IF Valid(reading) = {} THEN Placeholder ELSE Hottest(reading)
        IN  /\ hold = actual /\ slewed = actual /\ target = ClampedRpm(actual)
            /\ raw = t /\ smoothed = t /\ last = t
            /\ age = 0 /\ emitted = FALSE
            /\ latched = FALSE /\ above = 0 /\ since = 0
            /\ decision = "Auto" /\ phase = "tick"
            /\ md \in {"auto", "forced"}

\* With no sensor left the last known temperature stands in, and grows old.
Sense(reading) ==
    IF Valid(reading) # {}
    THEN raw' = Fused(reading) /\ age' = 0
    ELSE raw' = raw /\ age' = IF age > DropoutLimit THEN age ELSE age + 1

ApplyToOldTemp ==                                                \* mutant
    IF OutsideMargins(smoothed')
    THEN hold' = Evaluate(smoothed') /\ last' = last /\ emitted' = TRUE
    ELSE UNCHANGED setpoint

Apply ==
    IF OutsideMargins(smoothed')
    THEN hold' = Evaluate(smoothed') /\ last' = smoothed' /\ emitted' = TRUE
    ELSE UNCHANGED setpoint

ElapsedUncapped(gap) == since + gap                              \* mutant

Elapsed(gap) == IF since + gap > PanicHold THEN PanicHold ELSE since + gap

ReleasedByTime(gap) == Elapsed(gap) >= PanicHold                 \* mutant

Released(gap) == raw' <= PanicTemp /\ Elapsed(gap) >= PanicHold

CheckPanic(gap) ==
    /\ above' = IF raw' <= PanicTemp THEN 0 ELSE IF above = 0 THEN 1 ELSE 2
    /\ latched' = IF latched THEN ~Released(gap) ELSE above' = 2
    /\ since' = IF latched /\ latched' THEN Elapsed(gap) ELSE 0

OverrideForgotten == target' = ClampedRpm(slewed')               \* mutant

\* What a tick returns once the ramp and the panic check have run.
Override == target' = ClampedRpm(IF latched' THEN MaxRpm ELSE slewed')

Regulate(reading, duration, gap) ==
    /\ phase = "tick" /\ phase' = "pause"
    /\ Sense(reading)
    /\ age' <= DropoutLimit
    /\ smoothed' \in Smooth(smoothed, raw')
    /\ Apply
    /\ slewed' = Limit(slewed, hold', duration)
    /\ CheckPanic(gap)
    /\ Override
    /\ Decide(target')
    /\ Write

\* Too long without a sensor: full speed, and every later stage is skipped.  The
\* panic clock runs on, for it is the time since entered_at.
GiveUp(reading, gap) ==
    /\ phase = "tick" /\ phase' = "pause"
    /\ Sense(reading)
    /\ age' > DropoutLimit
    /\ since' = IF latched THEN Elapsed(gap) ELSE 0
    /\ target' = MaxRpm
    /\ Decide(target')
    /\ Write
    /\ UNCHANGED <<smoothed, setpoint, slewed, latched, above>>

\* The tick took at most twice poll_interval: sleep.
Sleep ==
    /\ phase = "pause" /\ phase' = "tick"
    /\ UNCHANGED <<md, temperature, setpoint, slewed, panic, target, decision>>

\* It took longer, which reads as a wake from sleep: reinit_bumpless.  The last
\* known temperature, the panic and the adapter are kept.
Wake(actual, reading) ==
    /\ phase = "pause" /\ phase' = "tick"
    /\ LET t == IF Valid(reading) = {} THEN Placeholder ELSE Hottest(reading)
       IN  smoothed' = t /\ last' = t
    /\ hold' = actual /\ slewed' = actual /\ target' = ClampedRpm(actual)
    /\ emitted' = FALSE
    /\ UNCHANGED <<md, raw, age, panic, decision>>

\* thermalmonitord takes the fan back, at any time.
Reclaim ==
    /\ md = "forced" /\ md' = "auto"
    /\ UNCHANGED <<phase, temperature, setpoint, slewed, panic, target, decision>>

Next ==
    \/ \E reading \in Readings, gap \in Gaps :
          \/ GiveUp(reading, gap)
          \/ \E duration \in Durations : Regulate(reading, duration, gap)
    \/ Sleep
    \/ \E actual \in Rpms \cup {MinRpm}, reading \in Readings : Wake(actual, reading)
    \/ Reclaim

Spec == Init /\ [][Next]_vars

-----------------------------------------------------------------------------
(* Properties.                                                               *)

\* Every variable keeps its type: the counters stay within their caps, and
\* decision and mode stay binary.
TypeOK ==
    /\ md \in {"auto", "forced"} /\ phase \in {"tick", "pause"}
    /\ raw \in Int /\ age \in 0 .. DropoutLimit + 1 /\ smoothed \in Int
    /\ hold \in Int /\ last \in Int /\ emitted \in BOOLEAN
    /\ slewed \in Int /\ target \in Int
    /\ latched \in BOOLEAN /\ above \in 0 .. 2 /\ since \in 0 .. PanicHold
    /\ decision \in {"Auto", "ForcedMinimum"}

\* The set point is never a stale point of the curve.  Once the hysteresis has let
\* one value through since the start or the last wake, hold_rpm is the curve at
\* last_temp, and the smoothed temperature lies within the two margins of it: the
\* two fields of HysteresisState (hysteresis.rs) always move together.
SetpointFollowsCurve ==
    emitted => /\ hold = Evaluate(last)
               /\ smoothed - last <= HystUp
               /\ last - smoothed <= HystDown

\* Full speed whenever the pipeline must not be trusted: while a panic is latched,
\* while two ticks in a row have been over panic_temp_c, and while the sensors have
\* been lost for too long (loop.rs), whatever curve, hysteresis, ramp and clamp say;
\* and the adapter then never forces the minimum.
PanicOverridesCurve ==
    phase = "pause" /\ (latched \/ above = 2 \/ age > DropoutLimit) =>
        target >= MaxRpm /\ decision = "Auto"

\* No stage keeps the heat from the fan.  The speed asked for is at least the curve's
\* at the smoothed temperature less the up margin, or the maximum: the ramp never
\* holds a rise back (slew.rs), and what hysteresis, override and clamp do to the
\* curve's value costs no more than that margin.
\* Left out by emitted: until the first value since a start or a wake has
\* passed the hysteresis, hold_rpm is the speed that the fan had then, whatever the
\* temperature (hysteresis.rs:39).
HeatIsAnswered ==
    emitted => target >= MaxRpm \/ target >= Evaluate(smoothed - HystUp)

\* A tick moves the set point the way the heat goes, or not at all: a reading no
\* cooler than the average never lowers it, one no hotter never raises it.  That is
\* so although the reading, the average and the temperature of the set point are
\* three different ones, and the margins lie about the oldest (ema.rs, hysteresis.rs).
SetpointMovesWithHeat ==
    [][phase = "tick" /\ emitted => /\ raw' >= smoothed => hold' >= hold
                                    /\ raw' <= smoothed => hold' <= hold]_vars

\* From one tick to the next the target falls by at most one second of the ramp,
\* however late the tick (slew.rs), but for two jumps: the tick that ends a panic
\* and the tick that finds a lost sensor again go back to a ramp that has run on,
\* or stood still, behind the override (loop.rs).
RampDownLimited ==
    [][phase = "tick" => \/ target' >= target - RampDown
                         \/ latched /\ ~latched'
                         \/ age > DropoutLimit /\ age' = 0]_vars

\* The pipeline does not hunt (adapter.rs: "prevents mode oscillation").  If from
\* some time on a sensor always answers, the temperature stays in a band narrower
\* than the margins and on one side of the panic threshold, and no tick is taken
\* for a wake, then the decision stops changing.
Settles(Band) ==
    <>[][raw' \in Band /\ age' = 0
          /\ (phase = "pause" => UNCHANGED <<smoothed, setpoint, slewed>>)]_vars
        => <>[][decision' = decision]_vars

\* What run.rs says of the Auto branch: "fand only needs to ensure F0md=0 (release)
\* when transitioning away from ForcedMinimum".  The code writes nothing there.
ReleasedOnAuto ==
    [][decision = "ForcedMinimum" /\ decision' = "Auto" => md' = "auto"]_vars

=============================================================================
