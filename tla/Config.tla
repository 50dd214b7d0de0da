------------------------------- MODULE Config -------------------------------
(***************************************************************************)
(* What `fand run` accepts as its configuration: the checks of the file,   *)
(* one after the other, the defaults of what it leaves out, and the checks *)
(* of its contents, which are all reported together.                       *)
(***************************************************************************)
EXTENDS Integers, Sequences, Functions

CONSTANTS NaN, Infinity     \* TOML can write both

ASSUME FloatsAssumption == NaN \notin Int /\ Infinity \notin Int /\ NaN # Infinity

\* f32, of which whole numbers are enough; minus infinity is like any number
\* below zero.  Every comparison with NaN is false.
Float == Int \cup {NaN, Infinity}

IsFinite(x) == x \notin {NaN, Infinity}
Less(x, y) == x # NaN /\ y # NaN /\ x # Infinity /\ (y = Infinity \/ x < y)
LessOrEqual(x, y) == x # NaN /\ (Less(x, y) \/ x = y)

-----------------------------------------------------------------------------
(* The contents.  A table is a function from the keys that it has.           *)

ConfigDefaults ==
    [config_version |-> 1, poll_interval_ms |-> 500, log_level |-> "info",
     control_socket_path |-> "/var/run/fand.sock", control_socket_mode |-> 384,
     low_power_attenuation_default |-> 1]

\* smoothing_alpha in hundredths.
FanDefaults ==
    [fusion |-> "max", hysteresis_up |-> 1, hysteresis_down |-> 3, smoothing_alpha |-> 25,
     ramp_down_rpm_per_s |-> 600, panic_temp_c |-> 95, panic_hold_s |-> 10]

FanOptions == DOMAIN FanDefaults \cup {"min_start_rpm", "low_power_attenuation", "ac", "battery"}

\* deny_unknown_fields: a table has every key that it must have, and none but those
\* and the optional ones.
Fits(table, required, optional) ==
    /\ required \subseteq DOMAIN table
    /\ DOMAIN table \subseteq required \cup optional

WithDefaults(table, defaults) ==
    [k \in DOMAIN table \cup DOMAIN defaults |-> IF k \in DOMAIN table THEN table[k] ELSE defaults[k]]

Deserializes(table) ==
    /\ Fits(table, {"fan"}, DOMAIN ConfigDefaults)
    /\ \A i \in DOMAIN table.fan : Fits(table.fan[i], {"index", "sensors", "curve"}, FanOptions)

Deserialize(table) ==
    [WithDefaults(table, ConfigDefaults) EXCEPT
        !.fan = [i \in DOMAIN table.fan |-> WithDefaults(table.fan[i], FanDefaults)]]

\* What validate looks at, once the file has been deserialized.
Curves == Seq([temp : Float, rpm : Nat])
IsFan(f) == f.index \in 0 .. 255 /\ f.curve \in Curves /\ f.hysteresis_down \in Float
IsConfig(c) == c.fan \in Seq(Range(c.fan)) /\ \A i \in DOMAIN c.fan : IsFan(c.fan[i])

-----------------------------------------------------------------------------
(* The checks of the contents.                                               *)

When(wrong, error) == IF wrong THEN {error} ELSE {}

\* The breakpoints that are out of order, or no temperatures.  An rpm is a u32, and
\* cannot fail its own check; neither its order nor its size is checked.
BadBreakpoints(curve) ==
    {i \in DOMAIN curve :
        \/ ~IsFinite(curve[i].temp) \/ Less(curve[i].temp, 0)
        \/ i > 1 /\ LessOrEqual(curve[i].temp, curve[i - 1].temp)}

\* After a curve that is too short nothing more of the fan is looked at.
\* hysteresis_up, smoothing_alpha and panic_temp_c are not looked at in any case.
ValidateFan(f) ==
    LET short == Len(f.curve) < 2
    IN  When(f.sensors = <<>>, "EmptySensors")
        \cup When("malformed" \in Range(f.sensors), "UnknownSensor")
        \cup When(short, "CurveTooShort")
        \cup When(~short /\ BadBreakpoints(f.curve) # {}, "NonMonotoneTemp")
        \cup When(~short /\ (Less(f.hysteresis_down, 0) \/ Less(10, f.hysteresis_down)),
                "HysteresisInverted")

\* The fans whose index an earlier one has.
Duplicates(fan) == {i \in DOMAIN fan : \E j \in 1 .. i - 1 : fan[j].index = fan[i].index}

Validate(c) ==
    When(c.poll_interval_ms \notin 100 .. 5000, "MissingRequired")
    \cup When(c.log_level \notin {"error", "warn", "info", "debug"}, "MissingRequired")
    \cup IF c.fan = <<>> THEN {"MissingRequired"}
         ELSE When(Duplicates(c.fan) # {}, "DuplicateFanIndex")
              \cup UNION {ValidateFan(c.fan[i]) : i \in DOMAIN c.fan}

-----------------------------------------------------------------------------
(* The file.                                                                 *)

MaxConfigSize == 65536

\* What load_config asks of a file, in its order, and the error if it is not so.
\* A place that cannot be resolved passes.  The version is checked last.
FileChecks(file) ==
    <<[ok |-> file.opens /\ file.stats, error |-> "MissingRequired"],
      [ok |-> ~file.writableByOthers, error |-> "UnsafePermissions"],
      [ok |-> file.size <= MaxConfigSize, error |-> "FileTooLarge"],
      [ok |-> file.place # "temporary" \/ file.allowTmp, error |-> "UnsafePermissions"],
      [ok |-> file.reads, error |-> "MissingRequired"],
      [ok |-> file.isToml /\ Deserializes(file.table), error |-> "TomlSyntax"],
      [ok |-> Deserialize(file.table).config_version = 1, error |-> "MissingRequired"]>>

\* The checks that fail with none before them failing.
FirstFailed(checks) ==
    {i \in DOMAIN checks : ~checks[i].ok /\ \A j \in 1 .. i - 1 : checks[j].ok}

LoadConfig(file) == {FileChecks(file)[i].error : i \in FirstFailed(FileChecks(file))}

\* What the operator is told, at the start as at a reload; the file is accepted if
\* that is nothing.
Problems(file) ==
    IF LoadConfig(file) # {} THEN LoadConfig(file) ELSE Validate(Deserialize(file.table))

Accepts(file) == Problems(file) = {}

=============================================================================
