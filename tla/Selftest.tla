------------------------------ MODULE Selftest ------------------------------
(***************************************************************************)
(* fand selftest: each fan in turn is put into mode 1 and back into mode 0 *)
(* a number of times, its speed is sampled in both, each write is verified *)
(* and recorded in the ring, and the speeds decide what is reported.  The  *)
(* first write that cannot be verified ends the test.                      *)
(***************************************************************************)
EXTENDS RoundTripRing, FiniteSetsExt

CONSTANTS
    MaxFans,         \* how many fans a machine may have
    Iterations,      \* --iterations
    SamplesPerHold,  \* how often the speed is read in a mode; 5
    Speeds,          \* what a read may tell; 0 is also what a failed one counts as
    Threshold        \* DELTA_THRESHOLD_RPM; 500

Fans == 0 .. MaxFans - 1
Halves == {"min", "auto"}
Outcomes == {"match", "write failed", "readback failed", "mismatch"}

ASSUME SelftestAssumption ==
    /\ MaxFans \in Nat
    /\ Iterations \in Nat \ {0} /\ SamplesPerHold \in Nat \ {0}
    /\ Speeds \subseteq Nat /\ 0 \in Speeds /\ IsFiniteSet(Speeds)
    /\ Threshold \in Nat \ {0}
    /\ [fan : Fans, value : {0, 1}, outcome : Outcomes] \subseteq Records

VARIABLES
    mode,        \* F<i>Md of each fan, as the SMC has it
    fans,        \* how many fans were enumerated
    pc,          \* the step of the program
    fan, iter,   \* the loop counters
    half,        \* which half of the iteration: mode 1, or mode 0 again
    retried,     \* the transient errors that this SMC call was already retried for
    taken,       \* the samples taken in this hold
    samples,     \* samples[f][h][v]: how often fan f was read at speed v in half h
    reports,     \* the fans' results, in their order
    exitCode,    \* of the process, as soon as it is decided
    released,    \* how many fans the teardown has released
    refused      \* history: the fans whose release was answered with an error

loop == <<fans, fan, iter, half>>
data == <<taken, samples, reports>>
ending == <<released, refused>>
vars == <<mode, loop, pc, retried, data, exitCode, ending, ring>>

At(step) == pc = step
Goto(step) == pc' = step

NoSamples == [v \in Speeds |-> 0]

Init ==
    /\ mode = [f \in Fans |-> 0]
    /\ fans = 0 /\ fan = 0 /\ iter = 0 /\ half = "min"
    /\ pc = "start"
    /\ retried = {}
    /\ taken = 0
    /\ samples = [f \in Fans |-> [h \in Halves |-> NoSamples]]
    /\ reports = <<>>
    /\ exitCode = -1
    /\ released = 0 /\ refused = {}
    /\ RingInit

-----------------------------------------------------------------------------
(* The start: arguments, the session, the number of fans.                    *)

\* What keeps a session from being acquired, as the lock or the SMC says it, and
\* the exit code that it is turned into.
LockErrors == {"already held", "symlink", "unreliable filesystem", "permission denied",
               "create failed", "canonicalization failed", "write failed"}
SmcErrorOf(e) == IF e = "permission denied" THEN "service not found" ELSE "conflict"

AcquireErrors ==
    {SmcErrorOf(e) : e \in LockErrors} \cup {"open failed", "service not found", "other"}

CodeFromSmcError(e) ==
    IF e = "conflict" THEN 5
    ELSE IF e \in {"open failed", "service not found"} THEN 2
    ELSE 1

\* The process ends before anything was acquired.
Refuse(code) ==
    /\ At("start")
    /\ Goto("exited")
    /\ exitCode' = code
    /\ UNCHANGED <<mode, loop, retried, data, ending, ring>>

RejectArguments == Refuse(64)
AcquireFails == \E e \in AcquireErrors : Refuse(CodeFromSmcError(e))

\* A session is acquired; without a fan, or with --fan out of range, it is
\* dropped at once.  The SMC may have a fan in mode 1, left by another program.
Acquire ==
    /\ At("start")
    /\ fans' \in 0 .. MaxFans
    /\ mode' \in [Fans -> {0, 1}]
    /\ \/ fans' = 0 /\ exitCode' = 0 /\ Goto("release")
       \/ fans' > 0 /\ exitCode' = 64 /\ Goto("release")
       \/ fans' > 0 /\ UNCHANGED exitCode /\ Goto("write")
    /\ UNCHANGED <<fan, iter, half, retried, data, ending, ring>>

-----------------------------------------------------------------------------
(* A verified write: two calls of the SMC, and a record in the ring.         *)

Value == IF half = "min" THEN 1 ELSE 0

\* The SMC answers "busy" or "timed out", each for the first time of this call.
\* A write may have been carried out all the same.
RetryForever(why) ==                                             \* mutant
    /\ At("write") \/ At("read back")
    /\ mode' \in IF At("write") THEN {mode, [mode EXCEPT ![fan] = Value]} ELSE {mode}
    /\ UNCHANGED <<loop, pc, retried, data, exitCode, ending, ring>>

Retry(why) ==
    /\ At("write") \/ At("read back")
    /\ why \notin retried
    /\ retried' = retried \cup {why}
    /\ mode' \in IF At("write") THEN {mode, [mode EXCEPT ![fan] = Value]} ELSE {mode}
    /\ UNCHANGED <<loop, pc, data, exitCode, ending, ring>>

WriteDone ==
    /\ At("write")
    /\ mode' = [mode EXCEPT ![fan] = Value]
    /\ retried' = {}
    /\ Goto("read back")
    /\ UNCHANGED <<loop, data, exitCode, ending, ring>>

\* A record of this write goes into the ring.
RecordWrite(outcome) == Push([fan |-> fan, value |-> Value, outcome |-> outcome])

\* The test is aborted: the session is dropped, and every error is exit code 1.
Abort(outcome) ==
    /\ RecordWrite(outcome)
    /\ retried' = {}
    /\ exitCode' = CodeFromSmcError("other")
    /\ Goto("release")
    /\ UNCHANGED <<loop, data, ending>>

\* An error that is not retried: another one, or the second of its kind.
WriteFails(why) ==
    /\ At("write")
    /\ why = "other" \/ why \in retried
    /\ mode' \in {mode, [mode EXCEPT ![fan] = Value]}
    /\ Abort("write failed")

ReadBackFails(why) ==
    /\ At("read back")
    /\ why = "other" \/ why \in retried
    /\ UNCHANGED mode
    /\ Abort("readback failed")

ReadBackDiffersAndGoesOn ==                                      \* mutant
    /\ At("read back")
    /\ mode[fan] # Value
    /\ RecordWrite("mismatch")
    /\ retried' = {}
    /\ taken' = 0
    /\ Goto("hold")
    /\ UNCHANGED <<mode, loop, samples, reports, exitCode, ending>>

ReadBackDiffers ==
    /\ At("read back")
    /\ mode[fan] # Value
    /\ UNCHANGED mode
    /\ Abort("mismatch")

ReadBackMatches ==
    /\ At("read back")
    /\ mode[fan] = Value
    /\ RecordWrite("match")
    /\ retried' = {}
    /\ taken' = 0
    /\ Goto("hold")
    /\ UNCHANGED <<mode, loop, samples, reports, exitCode, ending>>

-----------------------------------------------------------------------------
(* What the speeds say.                                                      *)

\* The samples that are at most v: equal ones are told apart by a number.
AtMost(b, v) == UNION {{u} \X (1 .. b[u]) : u \in {u \in Speeds : u <= v}}

\* How many they are, and the i-th sample in their order, from 0.
Upto(b, v) == Cardinality(AtMost(b, v))
Rank(b, i) == Min({v \in Speeds : Upto(b, v) > i})

\* Twice the median of a hold's samples, so as to stay among the integers.
TwiceMedian(b) ==
    LET n == Upto(b, Max(Speeds))
    IN  IF n = 0 THEN 0
        ELSE IF n % 2 = 1 THEN 2 * Rank(b, n \div 2)
        ELSE Rank(b, n \div 2 - 1) + Rank(b, n \div 2)

ClassifyFanByMaximum(completed, mismatches, s) ==                \* mutant
    IF mismatches > 0 \/ completed < Iterations THEN "fail"
    ELSE IF Max({v \in Speeds : s["auto"][v] > 0}) - Max({v \in Speeds : s["min"][v] > 0})
              >= Threshold THEN "pass"
    ELSE "inconclusive"

ClassifyFan(completed, mismatches, s) ==
    IF mismatches > 0 \/ completed < Iterations THEN "fail"
    ELSE IF TwiceMedian(s["auto"]) - TwiceMedian(s["min"]) >= 2 * Threshold THEN "pass"
    ELSE "inconclusive"

\* SelftestReport::classify, and the exit code of its result.
Classify(results, mismatches) ==
    LET all == {results[i] : i \in DOMAIN results}
    IN  IF mismatches > 0 THEN "fail" ELSE IF "inconclusive" \in all THEN "inconclusive" ELSE "pass"

ExitCode(result) == CASE result = "pass" -> 0 [] result = "inconclusive" -> 3 [] result = "fail" -> 1

\* The speed is read once more in this hold.
Sample(v) ==
    /\ taken' = taken + 1
    /\ samples' = [samples EXCEPT ![fan][half][v] = @ + 1]

TakeSample(v) ==
    /\ At("hold") /\ taken + 1 < SamplesPerHold
    /\ Sample(v)
    /\ UNCHANGED <<mode, loop, pc, retried, reports, exitCode, ending, ring>>

\* The last sample of the hold in mode 1: the fan goes back to mode 0.
EndMinHold(v) ==
    /\ At("hold") /\ taken + 1 = SamplesPerHold /\ half = "min"
    /\ Sample(v)
    /\ half' = "auto"
    /\ Goto("write")
    /\ UNCHANGED <<mode, fans, fan, iter, retried, reports, exitCode, ending, ring>>

EndIterationPast(v) ==                                           \* mutant
    /\ At("hold") /\ taken + 1 = SamplesPerHold /\ half = "auto"
    /\ iter + 1 <= Iterations
    /\ Sample(v)
    /\ half' = "min" /\ iter' = iter + 1
    /\ Goto("write")
    /\ UNCHANGED <<mode, fans, fan, retried, reports, exitCode, ending, ring>>

\* The last sample of an iteration but the last.
EndIteration(v) ==
    /\ At("hold") /\ taken + 1 = SamplesPerHold /\ half = "auto"
    /\ iter + 1 < Iterations
    /\ Sample(v)
    /\ half' = "min" /\ iter' = iter + 1
    /\ Goto("write")
    /\ UNCHANGED <<mode, fans, fan, retried, reports, exitCode, ending, ring>>

\* The last sample of a fan: it is classified, and the next one begins, or the
\* report is classified and printed and the session dropped.
EndFanSkippingLast(v) ==                                         \* mutant
    /\ At("hold") /\ taken + 1 = SamplesPerHold /\ half = "auto"
    /\ iter + 1 = Iterations
    /\ Sample(v)
    /\ reports' = Append(reports, ClassifyFan(iter + 1, 0, samples'[fan]))
    /\ IF fan + 2 < fans
       THEN /\ fan' = fan + 1 /\ iter' = 0 /\ half' = "min"
            /\ Goto("write")
            /\ UNCHANGED exitCode
       ELSE /\ exitCode' = ExitCode(Classify(reports', 0))
            /\ Goto("release")
            /\ UNCHANGED <<fan, iter, half>>
    /\ UNCHANGED <<mode, fans, retried, ending, ring>>

EndFan(v) ==
    /\ At("hold") /\ taken + 1 = SamplesPerHold /\ half = "auto"
    /\ iter + 1 = Iterations
    /\ Sample(v)
    /\ reports' = Append(reports, ClassifyFan(iter + 1, 0, samples'[fan]))
    /\ IF fan + 1 < fans
       THEN /\ fan' = fan + 1 /\ iter' = 0 /\ half' = "min"
            /\ Goto("write")
            /\ UNCHANGED exitCode
       ELSE /\ exitCode' = ExitCode(Classify(reports', 0))
            /\ Goto("release")
            /\ UNCHANGED <<fan, iter, half>>
    /\ UNCHANGED <<mode, fans, retried, ending, ring>>

-----------------------------------------------------------------------------
(* The teardown, when the session is dropped.                                *)

ReleaseFirstOnly(ok) ==                                          \* mutant
    /\ At("release") /\ released < fans
    /\ mode' \in {[mode EXCEPT ![released] = 0]} \cup (IF ok THEN {} ELSE {mode})
    /\ refused' = IF ok THEN refused ELSE refused \cup {released}
    /\ released' = fans
    /\ UNCHANGED <<pc, loop, retried, data, exitCode, ring>>

\* Mode 0 for each fan, verified or not: an error is swallowed.
ReleaseFan(ok) ==
    /\ At("release") /\ released < fans
    /\ mode' \in {[mode EXCEPT ![released] = 0]} \cup (IF ok THEN {} ELSE {mode})
    /\ refused' = IF ok THEN refused ELSE refused \cup {released}
    /\ released' = released + 1
    /\ UNCHANGED <<pc, loop, retried, data, exitCode, ring>>

\* No unlock is held.  The ring is printed, the connection closed, the lock dropped.
Leave ==
    /\ At("release") /\ released = fans
    /\ Goto("exited")
    /\ UNCHANGED <<mode, loop, retried, data, exitCode, ending, ring>>

\* thermalmonitord takes a fan back.
TakeBack(f) ==
    /\ mode' = [mode EXCEPT ![f] = 0]
    /\ UNCHANGED <<loop, pc, retried, data, exitCode, ending, ring>>

Program ==
    \/ RejectArguments \/ AcquireFails \/ Acquire
    \/ WriteDone \/ ReadBackMatches \/ ReadBackDiffers
    \/ \E why \in {"busy", "timed out"} : Retry(why)
    \/ \E why \in {"busy", "timed out", "other"} : WriteFails(why) \/ ReadBackFails(why)
    \/ \E v \in Speeds : TakeSample(v) \/ EndMinHold(v) \/ EndIteration(v) \/ EndFan(v)
    \/ \E ok \in BOOLEAN : ReleaseFan(ok)
    \/ Leave

Next == Program \/ \E f \in Fans : TakeBack(f)

Spec == Init /\ [][Next]_vars

\* The process runs, and the calls it makes return.
LiveSpec == Spec /\ WF_vars(Program)

-----------------------------------------------------------------------------
(* Properties.                                                               *)

TypeOK ==
    /\ mode \in [Fans -> {0, 1}] /\ fans \in 0 .. MaxFans
    /\ fan \in 0 .. MaxFans /\ iter \in 0 .. Iterations - 1 /\ half \in Halves
    /\ pc \in {"start", "write", "read back", "hold", "release", "exited"}
    /\ retried \subseteq {"busy", "timed out"}
    /\ taken \in 0 .. SamplesPerHold
    /\ samples \in [Fans -> [Halves -> [Speeds -> Nat]]]
    /\ reports \in Seq({"pass", "inconclusive", "fail"})
    /\ exitCode \in {-1, 0, 1, 2, 3, 5, 64}
    /\ released \in 0 .. MaxFans /\ refused \subseteq Fans

\* round_trip.rs: a record of every write, read out in the order of the writes.
\* Whatever fails and wherever the ring wraps, the records it still has are the
\* last writes of the loop, 1 and 0 in turn for each fan in its turn, and only the
\* last of all can be of a write that was not verified.
RecordsTellTheLoop ==
    LET r == Recent(Capacity)
    IN  \A i \in DOMAIN r :
            LET n == count - Len(r) + i - 1
            IN  /\ n \in 2 * Iterations * r[i].fan .. 2 * Iterations * (r[i].fan + 1) - 1
                /\ r[i].value = IF n % 2 = 0 THEN 1 ELSE 0
                /\ n + 1 < count => r[i].outcome = "match"

\* cli/selftest.rs: "0  - PASS (zero round-trip mismatches ...)", "1  - FAIL", "3  -
\* INCONCLUSIVE".  A report is given only after every write of every fan was made and
\* verified, 0 only if every fan passed, and 1 only for a write that was not verified.
ExitCodeTells ==
    fans > 0 =>
        /\ exitCode \in {0, 3} =>
              /\ Len(reports) = fans /\ count = 2 * Iterations * fans
              /\ \A i \in DOMAIN Recent(Capacity) : Recent(Capacity)[i].outcome = "match"
        /\ exitCode = 0 => \A i \in DOMAIN reports : reports[i] = "pass"
        /\ exitCode = 1 => Recent(1)[1].outcome # "match"

\* A read that fails counts as 0 RPM.  It cannot make a fan pass on its own: half
\* of the samples in mode 0, at least, are of a fan that turns.
PassNeedsReadings ==
    \A i \in DOMAIN reports :
        reports[i] = "pass" => 2 * samples[i - 1]["auto"][0] <= Iterations * SamplesPerHold

\* cli/selftest.rs: "teardown writes F0md=0 for all fans".  However the test ends, no
\* fan that was enumerated is left in mode 1 but one whose release was refused.
FansLeftAuto ==
    At("exited") => \A f \in Fans : f < fans /\ f \notin refused => mode[f] = 0

\* The test ends, however often the SMC answers "busy": a call is retried once for
\* each of the two transient errors.
Finishes == <>At("exited")

\* The holds that begin with the write at hand, and the most steps that one takes:
\* its samples, a write and a readback, each retried for both transient errors.
HoldsLeft == 2 * ((fans - fan) * Iterations - iter) - (IF half = "min" THEN 0 ELSE 1)
HoldSteps == SamplesPerHold + 6

\* How many steps the program has left to take, at most.
StepsLeft ==
    LET retries == 2 - Cardinality(retried)
        later   == (HoldsLeft - 1) * HoldSteps + fans + 1
    IN  CASE pc = "start"     -> 2 * MaxFans * Iterations * HoldSteps + MaxFans + 2
          [] pc = "write"     -> later + SamplesPerHold + 4 + retries
          [] pc = "read back" -> later + SamplesPerHold + 1 + retries
          [] pc = "hold"      -> later + SamplesPerHold - taken
          [] pc = "release"   -> fans - released + 1
          [] pc = "exited"    -> 0

\* Why the test ends: whatever is answered, retried, refused or taken back, each step
\* of the program leaves fewer of them, down to none; selftest.rs and call_struct
\* have no loop without a bound.
StepsCountDown ==
    [][/\ StepsLeft' \in 0 .. StepsLeft
       /\ Program => StepsLeft' < StepsLeft]_vars
=============================================================================
