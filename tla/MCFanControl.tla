---------------------------- MODULE MCFanControl ----------------------------
(***************************************************************************)
(* FanControl on a coarse grid: six temperatures, a curve of three points  *)
(* over an envelope of twenty speeds, thresholds of the adapter at 21 and  *)
(* 22, the panic above the second breakpoint.                              *)
(***************************************************************************)
EXTENDS FanControl, Config

MCTemps == 0 .. 5

MCCurve == <<[temp |-> 1, rpm |-> 20], [temp |-> 3, rpm |-> 28], [temp |-> 5, rpm |-> 40]>>

\* A tick with no delay, one of half a second, and one that overran.
MCDurations == {0, 500, 2000}

\* Noise around the adapter's thresholds, narrower than the margins even after the
\* grid has rounded the average by one to either side.
Noise == {1, 2}

\* Settles, for a temperature that keeps to that band.
DecisionSettles == Settles(Noise)

-----------------------------------------------------------------------------
(* The configuration files that lead here, and some that lead nowhere.       *)

MCFan(curve) == [index |-> 0, sensors |-> <<"Tf04">>, curve |-> curve]

GoodFile(fan) ==
    [opens |-> TRUE, stats |-> TRUE, writableByOthers |-> FALSE, size |-> 512,
     place |-> "elsewhere", allowTmp |-> FALSE, reads |-> TRUE, isToml |-> TRUE,
     table |-> [fan |-> fan]]

\* A file with this curve is accepted, whatever is written for what is not checked.
ASSUME InstanceIsAccepted ==
    /\ Accepts(GoodFile(<<MCFan(Curve)>>))
    /\ \A x \in {-1, 0, 200, NaN, Infinity} :
          Accepts(GoodFile(<<[k \in DOMAIN MCFan(Curve) \cup {"hysteresis_up", "smoothing_alpha",
                                                              "panic_temp_c"} |->
                                  IF k \in DOMAIN MCFan(Curve) THEN MCFan(Curve)[k] ELSE x]>>))

\* The range of hysteresis_down is checked, but NaN is in every range.
ASSUME HysteresisDownChecked ==
    \A x \in {-1, 0, 10, 11, NaN, Infinity} :
        LET fan == [k \in DOMAIN MCFan(Curve) \cup {"hysteresis_down"} |->
                        IF k = "hysteresis_down" THEN x ELSE MCFan(Curve)[k]]
        IN  Accepts(GoodFile(<<fan>>)) <=> x \in {0, 10, NaN}

\* The curves that are accepted are those that FanControl assumes, among all of
\* three breakpoints at most.
ASSUME AcceptedCurves ==
    \A n \in 0 .. 3 :
        \A temps \in [1 .. n -> {-1, 0, 1, 2, NaN, Infinity}] :
            LET curve == [i \in 1 .. n |-> [temp |-> temps[i], rpm |-> 2000]]
            IN  Accepts(GoodFile(<<MCFan(curve)>>))
                    <=> /\ n >= 2 /\ \A i \in 1 .. n : temps[i] \in 0 .. 2
                        /\ \A i, j \in 1 .. n : i < j => temps[i] < temps[j]

\* One fan too many, or none.
ASSUME FanListsChecked ==
    /\ "DuplicateFanIndex" \in Problems(GoodFile(<<MCFan(Curve), MCFan(Curve)>>))
    /\ Problems(GoodFile(<<>>)) = {"MissingRequired"}

\* A file is accepted only if nothing at all is wrong with it, and its permissions
\* are judged before anything that it contains.
ASSUME FilesChecked ==
    \A bad \in SUBSET {"opens", "stats", "reads", "isToml", "writableByOthers", "size", "place"} :
        LET file == [k \in DOMAIN GoodFile(<<MCFan(Curve)>>) |->
                        IF k \notin bad THEN GoodFile(<<MCFan(Curve)>>)[k]
                        ELSE CASE k = "size" -> 65537 [] k = "place" -> "temporary"
                               [] OTHER -> ~GoodFile(<<MCFan(Curve)>>)[k]]
        IN  /\ Accepts(file) <=> bad = {}
            /\ "writableByOthers" \in bad /\ bad \cap {"opens", "stats"} = {} =>
                  Problems(file) = {"UnsafePermissions"}

=============================================================================
