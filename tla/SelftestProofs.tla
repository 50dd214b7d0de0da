--------------------------- MODULE SelftestProofs ---------------------------
(***************************************************************************)
(* For any number of fans, iterations and slots of the ring: the types,    *)
(* the records, the exit code, the release of the fans, what a fan passes  *)
(* with, and that the program only ever gets nearer to its end.            *)
(***************************************************************************)
EXTENDS Selftest, RoundTripRingProofs, FiniteSetTheorems

Testing == pc \in {"write", "read back", "hold"}

\* The number of verified writes behind a place of the loop.
Position == 2 * (fan * Iterations + iter) + (IF half = "min" THEN 0 ELSE 1)

Types ==
    /\ mode \in [Fans -> {0, 1}] /\ fans \in 0 .. MaxFans
    /\ fan \in 0 .. MaxFans /\ iter \in 0 .. Iterations - 1 /\ half \in Halves
    /\ pc \in {"start", "write", "read back", "hold", "release", "exited"}
    /\ retried \subseteq {"busy", "timed out"}
    /\ exitCode \in {-1, 0, 1, 2, 3, 5, 64}
    /\ released \in 0 .. MaxFans /\ refused \subseteq Fans

DataTypes ==
    /\ taken \in 0 .. SamplesPerHold
    /\ samples \in [Fans -> [Halves -> [Speeds -> Nat]]]
    /\ reports \in Seq({"pass", "inconclusive", "fail"})

\* Where the loop is, and what it has recorded and reported until then.
Loop ==
    /\ pc = "start" =>
          /\ fans = 0 /\ fan = 0 /\ iter = 0 /\ half = "min"
          /\ count = 0 /\ reports = <<>> /\ exitCode = -1 /\ released = 0
    /\ Testing =>
          /\ fan < fans /\ released = 0 /\ exitCode = -1
          /\ Len(reports) = fan
          /\ \A i \in DOMAIN reports : reports[i] # "fail"
          /\ pc # "hold" => count = Position
    /\ pc = "hold" => count = Position + 1 /\ taken < SamplesPerHold
    /\ pc = "release" => released <= fans

-----------------------------------------------------------------------------
LEMMA ConstantsAre ==
    /\ MaxFans \in Nat /\ Iterations \in Nat /\ Iterations > 0
    /\ SamplesPerHold \in Nat /\ SamplesPerHold > 0 /\ 0 \in Speeds
BY SelftestAssumption

LEMMA ClassesAre ==
    /\ \A s : ClassifyFan(Iterations, 0, s) \in {"pass", "inconclusive"}
    /\ \A r : Classify(r, 0) = (IF "inconclusive" \in {r[i] : i \in DOMAIN r} THEN "inconclusive" ELSE "pass")
<1>1. ASSUME NEW s
      PROVE  ClassifyFan(Iterations, 0, s) \in {"pass", "inconclusive"}
  BY ConstantsAre DEF ClassifyFan
<1>2. ASSUME NEW r
      PROVE  Classify(r, 0) = (IF "inconclusive" \in {r[i] : i \in DOMAIN r} THEN "inconclusive" ELSE "pass")
  BY DEF Classify
<1> QED
  BY <1>1, <1>2

LEMMA ExitCodesAre ==
    ExitCode("pass") = 0 /\ ExitCode("inconclusive") = 3
BY DEF ExitCode

LEMMA TypesKept == Types /\ Loop /\ [Next]_vars => Types'
<1> SUFFICES ASSUME Types, Loop, [Next]_vars
             PROVE  Types'
  OBVIOUS
<1>n. iter + 1 < Iterations => iter + 1 \in 0 .. Iterations - 1
  <2>1. iter \in 0 .. Iterations - 1 /\ Iterations \in Nat
    BY ConstantsAre DEF Types
  <2> QED
    BY <2>1
<1>m. /\ fan + 1 < fans => fan + 1 \in 0 .. MaxFans
      /\ released < fans => released \in Fans /\ released + 1 \in 0 .. MaxFans
  <2>1. fan \in 0 .. MaxFans /\ fans \in 0 .. MaxFans /\ released \in 0 .. MaxFans /\ MaxFans \in Nat
    BY ConstantsAre DEF Types
  <2> QED
    BY <2>1 DEF Fans
<1>z. 0 \in 0 .. Iterations - 1 /\ 0 \in 0 .. MaxFans
  BY ConstantsAre
<1> USE ConstantsAre DEF Types, Goto, At
<1>1. CASE RejectArguments \/ AcquireFails
  BY <1>1 DEF RejectArguments, AcquireFails, Refuse, CodeFromSmcError, loop, ending
<1>2. CASE Acquire
  BY <1>2 DEF Acquire, ending
<1>3. CASE \E why \in {"busy", "timed out"} : Retry(why)
  BY <1>3 DEF Retry, Value, Loop, Testing, Fans, loop, ending
<1>4. CASE WriteDone
  BY <1>4 DEF WriteDone, Value, Loop, Testing, Fans, loop, ending
<1>5. CASE ReadBackMatches
  BY <1>5 DEF ReadBackMatches, loop, ending
<1>6. CASE ReadBackDiffers
  BY <1>6 DEF ReadBackDiffers, Abort, CodeFromSmcError, loop, ending
<1>7. CASE \E why \in {"busy", "timed out", "other"} : WriteFails(why)
  BY <1>7 DEF WriteFails, Abort, CodeFromSmcError, Value, Loop, Testing, Fans, loop, ending
<1>8. CASE \E why \in {"busy", "timed out", "other"} : ReadBackFails(why)
  BY <1>8 DEF ReadBackFails, Abort, CodeFromSmcError, loop, ending
<1>9. CASE \E v \in Speeds : TakeSample(v)
  BY <1>9 DEF TakeSample, loop, ending
<1>10. CASE \E v \in Speeds : EndMinHold(v)
  BY <1>10 DEF EndMinHold, Halves, ending
<1>11. CASE \E v \in Speeds : EndIteration(v)
  <2>1. /\ iter' = iter + 1 /\ iter + 1 < Iterations /\ half' = "min" /\ pc' = "write"
        /\ UNCHANGED <<mode, fans, fan, retried, exitCode, released, refused>>
    BY <1>11 DEF EndIteration, ending
  <2>2. iter' \in 0 .. Iterations - 1 /\ half' \in Halves
    BY <1>n, <2>1 DEF Halves
  <2> QED
    BY <2>1, <2>2
<1>12. CASE \E v \in Speeds : EndFan(v)
  <2>1. PICK v \in Speeds : EndFan(v)
    BY <1>12
  <2>2. Classify(reports', 0) \in {"pass", "inconclusive"}
    BY ClassesAre
  <2>3. exitCode' \in {-1, 0, 1, 2, 3, 5, 64}
    <3>1. exitCode' \in {exitCode, ExitCode(Classify(reports', 0))}
      BY <2>1 DEF EndFan
    <3>2. ExitCode(Classify(reports', 0)) \in {0, 3}
      BY <2>2, ExitCodesAre
    <3>3. exitCode \in {-1, 0, 1, 2, 3, 5, 64}
      OBVIOUS
    <3> QED
      BY <3>1, <3>2, <3>3
  <2>4. UNCHANGED <<mode, fans, retried, released, refused>> /\ pc = "hold" /\ pc' \in {"write", "release"}
    BY <2>1 DEF EndFan, ending
  <2>5. fan' \in 0 .. MaxFans /\ iter' \in 0 .. Iterations - 1 /\ half' \in Halves
    <3>1. CASE fan + 1 < fans
      BY <1>m, <1>z, <2>1, <3>1 DEF EndFan, Halves
    <3>2. CASE ~(fan + 1 < fans)
      BY <2>1, <3>2 DEF EndFan
    <3> QED
      BY <3>1, <3>2
  <2> QED
    BY <2>3, <2>4, <2>5
<1>13. CASE \E ok \in BOOLEAN : ReleaseFan(ok)
  <2>1. PICK ok \in BOOLEAN : ReleaseFan(ok)
    BY <1>13
  <2>2. /\ released < fans /\ released' = released + 1
        /\ mode' \in {[mode EXCEPT ![released] = 0], mode}
        /\ refused' \in {refused, refused \cup {released}}
        /\ UNCHANGED <<pc, fans, fan, iter, half, retried, exitCode>>
    BY <2>1 DEF ReleaseFan, loop
  <2>3. released \in Fans /\ released + 1 \in 0 .. MaxFans
    BY <1>m, <2>2
  <2>4. mode' \in [Fans -> {0, 1}] /\ refused' \subseteq Fans
    BY <2>2, <2>3
  <2> QED
    BY <2>2, <2>3, <2>4
<1>14. CASE Leave
  BY <1>14 DEF Leave, loop, ending
<1>15. CASE \E f \in Fans : TakeBack(f)
  BY <1>15 DEF TakeBack, loop, ending
<1>16. CASE UNCHANGED vars
  BY <1>16 DEF vars, loop, ending
<1> QED
  BY <1>1, <1>2, <1>3, <1>4, <1>5, <1>6, <1>7, <1>8, <1>9, <1>10, <1>11, <1>12, <1>13, <1>14,
     <1>15, <1>16 DEF Next, Program

\* One more sample of one speed.
LEMMA SampleTypes ==
    ASSUME Types, DataTypes, NEW v \in Speeds, Sample(v), fan \in Fans
    PROVE  samples' \in [Fans -> [Halves -> [Speeds -> Nat]]]
<1>1. /\ half \in Halves /\ samples \in [Fans -> [Halves -> [Speeds -> Nat]]]
      /\ samples' = [samples EXCEPT ![fan][half][v] = samples[fan][half][v] + 1]
  BY DEF Types, DataTypes, Sample
<1> DEFINE hold == [samples[fan][half] EXCEPT ![v] = samples[fan][half][v] + 1]
           both == [samples[fan] EXCEPT ![half] = hold]
<1>2. samples[fan] \in [Halves -> [Speeds -> Nat]] /\ samples[fan][half] \in [Speeds -> Nat]
  BY <1>1
<1>3. hold \in [Speeds -> Nat]
  BY <1>2
<1>4. both \in [Halves -> [Speeds -> Nat]]
  BY <1>1, <1>2, <1>3
<1>5. samples' = [samples EXCEPT ![fan] = both]
  BY <1>1
<1> HIDE DEF both
<1> QED
  BY <1>1, <1>4, <1>5

LEMMA DataTypesKept == Types /\ DataTypes /\ Loop /\ [Next]_vars => DataTypes'
<1> SUFFICES ASSUME Types, DataTypes, Loop, [Next]_vars
             PROVE  DataTypes'
  OBVIOUS
<1>0. Testing => fan \in Fans
  <2>1. fan \in 0 .. MaxFans /\ fans \in 0 .. MaxFans
    BY DEF Types
  <2>2. Testing => fan < fans
    BY DEF Loop
  <2> QED
    BY <2>1, <2>2, ConstantsAre DEF Fans
<1>1. CASE UNCHANGED data
  BY <1>1 DEF data, DataTypes
<1>2. CASE ReadBackMatches
  <2>1. taken' = 0 /\ UNCHANGED <<samples, reports>>
    BY <1>2 DEF ReadBackMatches
  <2>2. taken' \in 0 .. SamplesPerHold
    BY <2>1, ConstantsAre
  <2> QED
    BY <2>1, <2>2 DEF DataTypes
<1>3. CASE \E v \in Speeds : TakeSample(v) \/ EndMinHold(v) \/ EndIteration(v)
  <2>1. PICK v \in Speeds : TakeSample(v) \/ EndMinHold(v) \/ EndIteration(v)
    BY <1>3
  <2>2. Sample(v) /\ pc = "hold" /\ UNCHANGED reports /\ taken + 1 \in 0 .. SamplesPerHold
    BY <2>1, ConstantsAre DEF TakeSample, EndMinHold, EndIteration, At, DataTypes
  <2> QED
    BY <1>0, <2>2, SampleTypes DEF Testing, DataTypes, Sample
<1>4. CASE \E v \in Speeds : EndFan(v)
  <2>1. PICK v \in Speeds : EndFan(v)
    BY <1>4
  <2>2. /\ Sample(v) /\ pc = "hold" /\ taken + 1 \in 0 .. SamplesPerHold /\ iter + 1 = Iterations
        /\ reports' = Append(reports, ClassifyFan(iter + 1, 0, samples'[fan]))
    BY <2>1, ConstantsAre DEF EndFan, At, DataTypes
  <2>3. ClassifyFan(iter + 1, 0, samples'[fan]) \in {"pass", "inconclusive", "fail"}
    BY <2>2, ClassesAre
  <2>4. reports' \in Seq({"pass", "inconclusive", "fail"})
    BY <2>2, <2>3 DEF DataTypes
  <2> QED
    BY <1>0, <2>2, <2>4, SampleTypes DEF Testing, DataTypes, Sample
<1> QED
  BY <1>1, <1>2, <1>3, <1>4 DEF Next, Program, vars, RejectArguments, AcquireFails, Refuse, Acquire,
     Retry, WriteDone, WriteFails, ReadBackFails, ReadBackDiffers, Abort, ReleaseFan, Leave, TakeBack

-----------------------------------------------------------------------------
\* The loop counters count the verified writes.
LEMMA PositionMoves ==
    ASSUME Types, iter + 1 = Iterations
    PROVE  2 * ((fan + 1) * Iterations + 0) + 0 = 2 * (fan * Iterations + iter) + 2
<1>1. fan \in Int /\ iter \in Int /\ Iterations \in Int
  <2>1. fan \in 0 .. MaxFans /\ iter \in 0 .. Iterations - 1
    BY DEF Types
  <2> QED
    BY <2>1, ConstantsAre
<1>2. (fan + 1) * Iterations = fan * Iterations + Iterations
  BY <1>1
<1>3. fan * Iterations \in Int
  BY <1>1
<1> QED
  BY <1>1, <1>2, <1>3

LEMMA LoopKept == Types /\ DataTypes /\ Loop /\ [Next]_vars => Loop'
<1> SUFFICES ASSUME Types, DataTypes, Loop, [Next]_vars
             PROVE  Loop'
  OBVIOUS
<1>0. /\ fan \in Int /\ iter \in Int /\ fans \in Nat /\ fan * Iterations \in Int
      /\ taken \in Nat /\ released \in Nat /\ SamplesPerHold \in Nat /\ SamplesPerHold > 0
  <2>1. /\ fan \in 0 .. MaxFans /\ iter \in 0 .. Iterations - 1 /\ fans \in 0 .. MaxFans
        /\ released \in 0 .. MaxFans /\ taken \in 0 .. SamplesPerHold
    BY DEF Types, DataTypes
  <2>2. fan \in Int /\ Iterations \in Int /\ iter \in Int
    BY <2>1, ConstantsAre
  <2>3. fan * Iterations \in Int
    BY <2>2
  <2> QED
    BY <2>1, <2>2, <2>3, ConstantsAre
<1>p. Testing => Position \in Int
  BY <1>0 DEF Position
<1>1. CASE RejectArguments \/ AcquireFails \/ Leave
  BY <1>1 DEF RejectArguments, AcquireFails, Refuse, Leave, Goto, Loop, Testing
<1>2. CASE Acquire
  <2>1. /\ pc = "start" /\ pc' \in {"write", "release"} /\ fans' \in Nat
        /\ pc' = "write" => fans' > 0 /\ exitCode' = exitCode
        /\ UNCHANGED <<fan, iter, half, reports, released, count>>
    BY <1>2, ConstantsAre DEF Acquire, At, Goto, data, ending, ring
  <2>2. /\ fan = 0 /\ iter = 0 /\ half = "min" /\ count = 0 /\ reports = <<>>
        /\ exitCode = -1 /\ released = 0
    BY <2>1 DEF Loop
  <2>3. Position' = 0
    <3>1. 0 * Iterations = 0
      BY ConstantsAre
    <3> QED
      BY <2>1, <2>2, <3>1 DEF Position
  <2>4. CASE pc' = "release"
    <3>1. released' <= fans' /\ ~Testing' /\ pc' # "hold" /\ pc' # "start"
      BY <2>1, <2>2, <2>4 DEF Testing
    <3> QED
      BY <2>4, <3>1 DEF Loop
  <2>5. CASE pc' = "write"
    <3>1. fan' < fans' /\ released' = 0 /\ exitCode' = -1 /\ count' = Position'
      BY <2>1, <2>2, <2>3, <2>5
    <3>2. Len(reports') = fan' /\ DOMAIN reports' = {}
      BY <2>1, <2>2
    <3> QED
      BY <2>5, <3>1, <3>2 DEF Loop
  <2> QED
    BY <2>1, <2>4, <2>5
<1>3. CASE \/ \E why \in {"busy", "timed out"} : Retry(why)
           \/ \E f \in Fans : TakeBack(f)
           \/ UNCHANGED vars
  <2>1. UNCHANGED <<pc, fans, fan, iter, half, taken, reports, exitCode, released, count>>
    BY <1>3 DEF Retry, TakeBack, vars, loop, data, ending, ring
  <2> QED
    BY <2>1 DEF Loop, Testing, Position
<1>4. CASE WriteDone
  <2>1. /\ pc = "write" /\ pc' = "read back"
        /\ UNCHANGED <<fans, fan, iter, half, reports, exitCode, released, count>>
    BY <1>4 DEF WriteDone, At, Goto, loop, data, ending, ring
  <2> QED
    BY <2>1 DEF Loop, Testing, Position
<1>5. CASE ReadBackMatches
  <2>1. /\ pc = "read back" /\ pc' = "hold" /\ count' = count + 1 /\ taken' = 0
        /\ UNCHANGED <<fans, fan, iter, half, reports, exitCode, released>>
    BY <1>5 DEF ReadBackMatches, RecordWrite, Push, At, Goto, loop, ending
  <2>2. count = Position
    BY <2>1 DEF Loop, Testing
  <2>3. count' = Position' + 1 /\ taken' < SamplesPerHold
    BY <1>0, <2>1, <2>2 DEF Position
  <2>4. Testing
    BY <2>1 DEF Testing
  <2> QED
    BY <2>1, <2>3, <2>4 DEF Loop
<1>6. CASE \/ ReadBackDiffers
           \/ \E why \in {"busy", "timed out", "other"} : WriteFails(why) \/ ReadBackFails(why)
  <2>1. pc \in {"write", "read back"} /\ pc' = "release" /\ UNCHANGED <<fans, released>>
    BY <1>6 DEF ReadBackDiffers, WriteFails, ReadBackFails, Abort, At, Goto, loop, ending
  <2>2. Testing /\ ~Testing'
    BY <2>1 DEF Testing
  <2>3. fans \in Nat /\ fans' = fans /\ released' = 0
    BY <1>0, <2>1, <2>2 DEF Loop
  <2>4. pc' # "start" /\ pc' # "hold"
    BY <2>1
  <2>5. released' <= fans'
    BY <2>3
  <2> QED
    BY <2>2, <2>4, <2>5 DEF Loop
<1>7. CASE \E v \in Speeds : TakeSample(v)
  <2>1. /\ pc = "hold" /\ taken + 1 < SamplesPerHold /\ taken' = taken + 1
        /\ UNCHANGED <<pc, fans, fan, iter, half, reports, exitCode, released, count>>
    BY <1>7 DEF TakeSample, Sample, At, loop, ending, ring
  <2> QED
    BY <1>0, <2>1 DEF Loop, Testing, Position
<1>8. CASE \E v \in Speeds : EndMinHold(v)
  <2>1. /\ pc = "hold" /\ pc' = "write" /\ half = "min" /\ half' = "auto"
        /\ UNCHANGED <<fans, fan, iter, reports, exitCode, released, count>>
    BY <1>8 DEF EndMinHold, At, Goto, ending, ring
  <2>2. Testing /\ Position' = Position + 1
    BY <1>0, <2>1 DEF Testing, Position
  <2> QED
    BY <2>1, <2>2 DEF Loop
<1>9. CASE \E v \in Speeds : EndIteration(v)
  <2>1. /\ pc = "hold" /\ pc' = "write" /\ half = "auto" /\ half' = "min" /\ iter' = iter + 1
        /\ UNCHANGED <<fans, fan, reports, exitCode, released, count>>
    BY <1>9 DEF EndIteration, At, Goto, ending, ring
  <2>2. Testing /\ Position' = Position + 1
    <3>1. Position = 2 * (fan * Iterations + iter) + 1 /\ Position' = 2 * (fan * Iterations + (iter + 1)) + 0
      BY <2>1 DEF Position
    <3> QED
      BY <1>0, <2>1, <3>1 DEF Testing
  <2> QED
    BY <2>1, <2>2 DEF Loop
<1>10. CASE \E v \in Speeds : EndFan(v)
  <2>1. PICK v \in Speeds : EndFan(v)
    BY <1>10
  <2>2. /\ pc = "hold" /\ half = "auto" /\ iter + 1 = Iterations /\ UNCHANGED <<fans, released, count>>
        /\ reports' = Append(reports, ClassifyFan(iter + 1, 0, samples'[fan]))
    BY <2>1 DEF EndFan, At, ending, ring
  <2>3. /\ fan < fans /\ released = 0 /\ exitCode = -1 /\ Len(reports) = fan
        /\ \A i \in DOMAIN reports : reports[i] # "fail"
        /\ count = Position + 1
    BY <2>2 DEF Loop, Testing
  <2>4. CASE fan + 1 < fans
    <3>1. /\ pc' = "write" /\ fan' = fan + 1 /\ iter' = 0 /\ half' = "min" /\ exitCode' = exitCode
      BY <2>1, <2>4 DEF EndFan, Goto
    <3>2. Position' = Position + 1
      BY <1>0, <2>2, <3>1, PositionMoves DEF Position
    <3>3. Len(reports') = fan + 1 /\ \A i \in DOMAIN reports' : reports'[i] # "fail"
      <4>1. ClassifyFan(iter + 1, 0, samples'[fan]) # "fail"
        BY <2>2, ClassesAre
      <4> QED
        BY <2>2, <2>3, <4>1 DEF DataTypes
    <3>4. fan' < fans' /\ released' = 0 /\ exitCode' = -1 /\ count' = Position'
      BY <2>2, <2>3, <2>4, <3>1, <3>2
    <3> QED
      BY <3>1, <3>3, <3>4 DEF Loop
  <2>5. CASE ~(fan + 1 < fans)
    <3>1. pc' = "release"
      BY <2>1, <2>5 DEF EndFan, Goto
    <3> QED
      BY <1>0, <2>2, <2>3, <3>1 DEF Loop, Testing
  <2> QED
    BY <2>4, <2>5
<1>11. CASE \E ok \in BOOLEAN : ReleaseFan(ok)
  <2>1. /\ pc = "release" /\ UNCHANGED pc /\ released < fans /\ released' = released + 1 /\ UNCHANGED fans
    BY <1>11 DEF ReleaseFan, At, loop
  <2> QED
    BY <1>0, <2>1 DEF Loop, Testing
<1> QED
  BY <1>1, <1>2, <1>3, <1>4, <1>5, <1>6, <1>7, <1>8, <1>9, <1>10, <1>11 DEF Next, Program

-----------------------------------------------------------------------------
\* What is written to the ring, and in which places of the loop.
LEMMA RingSteps ==
    ASSUME Types, Loop, [Next]_vars
    PROVE  \/ UNCHANGED ring /\ (Testing' => Testing \/ pc = "start")
           \/ Testing /\ pc # "hold" /\ RecordWrite("match")
           \/ /\ Testing /\ pc # "hold" /\ pc' = "release" /\ exitCode' = 1 /\ UNCHANGED fans
              /\ \E o \in Outcomes \ {"match"} : RecordWrite(o)
<1>1. CASE UNCHANGED ring /\ (Testing' => Testing \/ pc = "start")
  BY <1>1
<1>2. CASE ReadBackMatches
  BY <1>2 DEF ReadBackMatches, At, Testing
<1>3. CASE \/ ReadBackDiffers
           \/ \E why \in {"busy", "timed out", "other"} : WriteFails(why) \/ ReadBackFails(why)
  <2>1. CodeFromSmcError("other") = 1
    BY DEF CodeFromSmcError
  <2>2. /\ pc \in {"write", "read back"} /\ pc' = "release" /\ exitCode' = 1 /\ UNCHANGED fans
        /\ RecordWrite("mismatch") \/ RecordWrite("write failed") \/ RecordWrite("readback failed")
    BY <1>3, <2>1 DEF ReadBackDiffers, WriteFails, ReadBackFails, Abort, At, Goto, loop
  <2> QED
    BY <2>2 DEF Testing, Outcomes
<1>4. CASE \/ RejectArguments \/ AcquireFails \/ Acquire \/ WriteDone \/ Leave
           \/ \E why \in {"busy", "timed out"} : Retry(why)
           \/ \E v \in Speeds : TakeSample(v) \/ EndMinHold(v) \/ EndIteration(v) \/ EndFan(v)
           \/ \E ok \in BOOLEAN : ReleaseFan(ok)
           \/ \E f \in Fans : TakeBack(f)
           \/ UNCHANGED vars
  <2>1. UNCHANGED ring
    BY <1>4 DEF RejectArguments, AcquireFails, Refuse, Acquire, WriteDone, Leave, Retry,
       TakeSample, EndMinHold, EndIteration, EndFan, ReleaseFan, TakeBack, vars
  <2>2. Testing' => Testing \/ pc = "start"
    BY <1>4 DEF RejectArguments, AcquireFails, Refuse, Acquire, WriteDone, Leave, Retry,
       TakeSample, EndMinHold, EndIteration, EndFan, ReleaseFan, TakeBack, vars, At, Goto, Testing
  <2> QED
    BY <2>1, <2>2
<1> QED
  BY <1>2, <1>3, <1>4 DEF Next, Program

LEMMA RecordsAre ==
    ASSUME Types, Loop, Testing, NEW o \in Outcomes
    PROVE  [fan |-> fan, value |-> Value, outcome |-> o] \in Records
<1>1. fan \in Fans
  <2>1. fan \in 0 .. MaxFans /\ fans \in 0 .. MaxFans /\ fan < fans
    BY DEF Types, Loop
  <2> QED
    BY <2>1, ConstantsAre DEF Fans
<1>2. Value \in {0, 1}
  BY DEF Value
<1> QED
  BY <1>1, <1>2, SelftestAssumption

LEMMA RingNexts ==
    ASSUME Types, Loop, [Next]_vars
    PROVE  [RingNext]_ring
<1>1. "match" \in Outcomes
  BY DEF Outcomes
<1> QED
  BY <1>1, RingSteps, RecordsAre DEF RecordWrite, RingNext

LEMMA Started ==
    Init => Types /\ DataTypes /\ Loop /\ RingInit
<1> SUFFICES ASSUME Init
             PROVE  Types /\ DataTypes /\ Loop /\ RingInit
  OBVIOUS
<1>1. /\ mode = [f \in Fans |-> 0] /\ fans = 0 /\ fan = 0 /\ iter = 0 /\ half = "min" /\ pc = "start"
      /\ retried = {} /\ taken = 0 /\ reports = <<>> /\ exitCode = -1 /\ released = 0 /\ refused = {}
      /\ samples = [f \in Fans |-> [h \in Halves |-> NoSamples]] /\ RingInit
  BY DEF Init
<1>2. 0 \in 0 .. MaxFans /\ 0 \in 0 .. Iterations - 1 /\ 0 \in 0 .. SamplesPerHold
  BY ConstantsAre
<1>3. Types
  BY <1>1, <1>2 DEF Types, Halves
<1>4. DataTypes
  <2>1. NoSamples \in [Speeds -> Nat]
    BY DEF NoSamples
  <2> QED
    BY <1>1, <1>2, <2>1 DEF DataTypes
<1>5. Loop
  <2>1. ~Testing /\ pc # "hold" /\ pc # "release" /\ count = 0
    BY <1>1 DEF Testing, RingInit
  <2> QED
    BY <1>1, <2>1 DEF Loop
<1> QED
  BY <1>1, <1>3, <1>4, <1>5

\* For any number of fans, iterations, samples and slots, the loop counters of
\* run_selftest stay in their ranges, and what it counts are numbers.
THEOREM SelftestTypesKept == Spec => []TypeOK
<1>1. Types /\ DataTypes => TypeOK
  BY DEF Types, DataTypes, TypeOK
<1> QED
  BY <1>1, Started, TypesKept, DataTypesKept, LoopKept, PTL DEF Spec

\* Whatever the test meets, it uses the ring by pushing only: the ring is a log of
\* its last writes.
THEOREM SelftestKeepsLog == Spec => LogSpec
<1>1. Spec => RingSpec
  BY Started, TypesKept, DataTypesKept, LoopKept, RingNexts, PTL DEF Spec, RingSpec
<1> QED
  BY <1>1, RingKeepsRecent
-----------------------------------------------------------------------------
(* The release of the fans.                                                  *)

Released ==
    /\ pc = "release" => \A f \in Fans : f < released /\ f \notin refused => mode[f] = 0
    /\ FansLeftAuto

LEMMA ReleasedKept ==
    ASSUME Types, Loop, Released, [Next]_vars
    PROVE  Released'
<1> USE DEF At, Goto
<1>0. fans \in Nat /\ released \in Nat /\ mode \in [Fans -> {0, 1}] /\ \A f \in Fans : f \in Nat
  <2>1. fans \in 0 .. MaxFans /\ released \in 0 .. MaxFans /\ mode \in [Fans -> {0, 1}]
    BY DEF Types
  <2> QED
    BY <2>1, ConstantsAre DEF Fans
<1>1. CASE RejectArguments \/ AcquireFails
  <2>1. pc' = "exited" /\ fans' = 0
    BY <1>1 DEF RejectArguments, AcquireFails, Refuse, Loop, loop
  <2>2. \A f \in Fans : ~(f < fans')
    BY <1>0, <2>1
  <2> QED
    BY <2>1, <2>2 DEF Released, FansLeftAuto
<1>2. CASE /\ pc' \in {"write", "read back", "hold"}
  BY <1>2 DEF Released, FansLeftAuto
<1>3. CASE pc' = "release" /\ pc # "release" /\ released' = 0
  <2>1. \A f \in Fans : ~(f < released')
    BY <1>0, <1>3
  <2> QED
    BY <1>3, <2>1 DEF Released, FansLeftAuto
<1>4. CASE \E ok \in BOOLEAN : ReleaseFan(ok)
  <2>1. PICK ok \in BOOLEAN : ReleaseFan(ok)
    BY <1>4
  <2>2. pc = "release" /\ pc' = "release" /\ released' = released + 1
    BY <2>1 DEF ReleaseFan
  <2>3. ASSUME NEW f \in Fans, f < released', f \notin refused'
        PROVE  mode'[f] = 0
    <3>1. CASE f = released
      <4>1. ok
        BY <2>1, <2>3, <3>1 DEF ReleaseFan
      <4> QED
        BY <1>0, <2>1, <3>1, <4>1 DEF ReleaseFan
    <3>2. CASE f # released
      <4>1. f < released /\ f \notin refused
        BY <1>0, <2>1, <2>2, <2>3, <3>2 DEF ReleaseFan
      <4>2. mode[f] = 0
        BY <2>2, <4>1 DEF Released
      <4> QED
        BY <1>0, <2>1, <3>2, <4>2 DEF ReleaseFan
    <3> QED
      BY <3>1, <3>2
  <2> QED
    BY <2>2, <2>3 DEF Released, FansLeftAuto
<1>5. CASE Leave
  BY <1>5 DEF Leave, Released, FansLeftAuto, loop, ending
<1>6. CASE \E f \in Fans : TakeBack(f)
  <2>1. PICK g \in Fans : TakeBack(g)
    BY <1>6
  <2>2. \A f \in Fans : mode[f] = 0 => mode'[f] = 0
    BY <1>0, <2>1 DEF TakeBack
  <2> QED
    BY <2>1, <2>2 DEF TakeBack, Released, FansLeftAuto, loop, ending
<1>7. CASE UNCHANGED vars
  BY <1>7 DEF Released, FansLeftAuto, vars, loop, ending
<1>8. ASSUME \/ Acquire \/ WriteDone \/ ReadBackMatches \/ ReadBackDiffers
             \/ \E why \in {"busy", "timed out"} : Retry(why)
             \/ \E why \in {"busy", "timed out", "other"} : WriteFails(why) \/ ReadBackFails(why)
             \/ \E v \in Speeds : TakeSample(v) \/ EndMinHold(v) \/ EndIteration(v) \/ EndFan(v)
      PROVE  \/ pc' \in {"write", "read back", "hold"}
             \/ pc' = "release" /\ pc # "release" /\ released' = 0
  <2>1. /\ pc \in {"start", "write", "read back", "hold"}
        /\ pc' \in {"write", "read back", "hold", "release"}
        /\ released' = released
    BY <1>8 DEF Acquire, WriteDone, ReadBackMatches, ReadBackDiffers, Abort, Retry, WriteFails,
       ReadBackFails, TakeSample, EndMinHold, EndIteration, EndFan, ending
  <2>2. pc = "start" \/ Testing
    BY <2>1 DEF Testing
  <2>3. released = 0
    BY <2>2 DEF Loop
  <2> QED
    BY <2>1, <2>3
<1> QED
  BY <1>1, <1>2, <1>3, <1>4, <1>5, <1>6, <1>7, <1>8 DEF Next, Program

\* For any number of fans, none that was enumerated is left in mode 1 at the end but
\* one whose release was refused.
THEOREM SelftestLeavesFansAuto == Spec => []FansLeftAuto
<1>1. Init => Released
  BY DEF Init, Released, FansLeftAuto, At
<1>2. Released => FansLeftAuto
  BY DEF Released
<1> QED
  BY <1>1, <1>2, Started, TypesKept, DataTypesKept, LoopKept, ReleasedKept, PTL DEF Spec
-----------------------------------------------------------------------------
(* The records.                                                              *)

\* Whether record r may be of the n-th write of the loop, from 0.
IsWrite(n, r) ==
    /\ n \in 2 * Iterations * r.fan .. 2 * Iterations * (r.fan + 1) - 1
    /\ r.value = IF n % 2 = 0 THEN 1 ELSE 0

\* The number of the i-th write that the ring still has.
Number(i) == count - Len(ReadOut) + i - 1

Told ==
    /\ \A i \in 1 .. Len(ReadOut) :
          /\ IsWrite(Number(i), ReadOut[i])
          /\ Number(i) + 1 < count => ReadOut[i].outcome = "match"
    /\ pc = "start" \/ Testing => \A i \in 1 .. Len(ReadOut) : ReadOut[i].outcome = "match"

\* What is read out is a sequence, as long as the ring is full.
LEMMA ReadOutIs ==
    ASSUME RingInv
    PROVE  /\ ReadOut \in Seq(Records \cup {ZeroRecord})
           /\ Len(ReadOut) = IF count < Capacity THEN count ELSE Capacity
<1> USE CapacityAssumption DEF RingInv, Slots
<1> DEFINE S == Records \cup {ZeroRecord}
           size == IF count < Capacity THEN count ELSE Capacity
<1>1. ReadOut \in [1 .. size -> S]
  <2>1. CASE count < Capacity
    <3>1. \A i \in 1 .. count : records[i - 1] \in S
      BY <2>1
    <3> QED
      BY <2>1, <3>1 DEF ReadOut
  <2>2. CASE ~(count < Capacity)
    <3> DEFINE at(i) == IF next + i - 1 < Capacity THEN records[next + i - 1]
                                                   ELSE records[next + i - 1 - Capacity]
    <3>1. \A i \in 1 .. Capacity : at(i) \in S
      OBVIOUS
    <3>2. ReadOut = [i \in 1 .. Capacity |-> at(i)]
      BY <2>2 DEF ReadOut
    <3> HIDE DEF at
    <3> QED
      BY <2>2, <3>1, <3>2
  <2> QED
    BY <2>1, <2>2
<1>2. size \in Nat
  OBVIOUS
<1> HIDE DEF size
<1>3. ReadOut \in Seq(S)
  BY <1>1, <1>2, SeqDef
<1>4. DOMAIN ReadOut = 1 .. size
  BY <1>1
<1> QED
  BY <1>2, <1>3, <1>4, LenProperties DEF size

\* A push keeps the number of each record that the ring still has.
LEMMA PushKeepsNumbers ==
    ASSUME RingInv, NEW r \in Records, Push(r)
    PROVE  /\ count' = count + 1
           /\ Len(ReadOut') \in Nat
           /\ \A i \in 1 .. Len(ReadOut') :
                 \/ Number(i)' = count /\ ReadOut'[i] = r
                 \/ \E j \in 1 .. Len(ReadOut) : Number(i)' = Number(j) /\ ReadOut'[i] = ReadOut[j]
<1> DEFINE S == Records \cup {ZeroRecord}
           longer == Append(ReadOut, r)
<1>1. ReadOut \in Seq(S) /\ Len(ReadOut) = IF count < Capacity THEN count ELSE Capacity
  BY ReadOutIs
<1>2. /\ longer \in Seq(S)
      /\ Len(longer) = Len(ReadOut) + 1
      /\ longer[Len(ReadOut) + 1] = r
      /\ \A i \in 1 .. Len(ReadOut) : longer[i] = ReadOut[i]
  BY <1>1, AppendProperties
<1>3. count' = count + 1 /\ count \in Nat /\ Capacity \in Nat \ {0}
  BY CapacityAssumption DEF Push, RingInv
<1>4. ReadOut' = Log!Newest(longer)
  BY PushReadsOut
<1> HIDE DEF longer
<1>5. CASE count < Capacity
  <2>1. Len(ReadOut) = count /\ Len(longer) = count + 1
    BY <1>1, <1>2, <1>5
  <2>2. ReadOut' = longer
    BY <1>3, <1>4, <1>5, <2>1 DEF Log!Newest
  <2>3. ASSUME NEW i \in 1 .. count + 1
        PROVE  \/ Number(i)' = count /\ ReadOut'[i] = r
               \/ \E j \in 1 .. count : Number(i)' = Number(j) /\ ReadOut'[i] = ReadOut[j]
    <3>0. Number(i)' = i - 1 /\ Number(i) = i - 1
      BY <1>3, <2>1, <2>2 DEF Number
    <3>1. CASE i = count + 1
      BY <1>2, <1>3, <2>1, <2>2, <3>0, <3>1
    <3>2. CASE i \in 1 .. count
      BY <1>2, <2>1, <2>2, <3>0, <3>2
    <3> QED
      BY <1>3, <3>1, <3>2
  <2> QED
    BY <1>3, <2>1, <2>2, <2>3
<1>6. CASE ~(count < Capacity)
  <2>1. Len(ReadOut) = Capacity /\ Len(longer) = Capacity + 1
    BY <1>1, <1>2, <1>6
  <2>2. ReadOut' = [i \in 1 .. Capacity |-> longer[i + 1]]
    BY <1>2, <1>3, <1>4, <2>1 DEF Log!Newest
  <2>3. Len(ReadOut') = Capacity
    BY <1>3, <2>2
  <2>4. ASSUME NEW i \in 1 .. Capacity
        PROVE  \/ Number(i)' = count /\ ReadOut'[i] = r
               \/ \E j \in 1 .. Capacity : Number(i)' = Number(j) /\ ReadOut'[i] = ReadOut[j]
    <3>0. Number(i)' = count - Capacity + i
      BY <1>3, <2>3 DEF Number
    <3>1. CASE i = Capacity
      BY <1>2, <1>3, <2>1, <2>2, <3>0, <3>1
    <3>2. CASE i + 1 \in 1 .. Capacity
      <4>1. Number(i + 1) = count - Capacity + i
        BY <1>3, <2>1 DEF Number
      <4> QED
        BY <1>2, <2>1, <2>2, <3>0, <3>2, <4>1
    <3> QED
      BY <1>3, <3>1, <3>2
  <2> QED
    BY <1>3, <2>1, <2>3, <2>4
<1> QED
  BY <1>5, <1>6

\* The record of a write has the number of its place in the loop.
LEMMA RecordIsOfPosition ==
    ASSUME Types, NEW o
    PROVE  IsWrite(Position, [fan |-> fan, value |-> Value, outcome |-> o])
<1> DEFINE passed == fan * Iterations + iter
           h == IF half = "min" THEN 0 ELSE 1
<1>1. fan \in Nat /\ iter \in 0 .. Iterations - 1 /\ Iterations \in Nat /\ h \in {0, 1}
  <2>1. fan \in 0 .. MaxFans /\ iter \in 0 .. Iterations - 1
    BY DEF Types
  <2> QED
    BY <2>1, ConstantsAre
<1>2. fan * Iterations \in Nat /\ passed \in Nat
  BY <1>1
<1>3. Position = 2 * passed + h
  BY DEF Position
<1> HIDE DEF passed, h
<1>4. Position % 2 = h
  BY <1>1, <1>2, <1>3
<1>5. Value = IF Position % 2 = 0 THEN 1 ELSE 0
  BY <1>4 DEF Value, h
<1>6. /\ 2 * Iterations * fan = 2 * (fan * Iterations)
      /\ 2 * Iterations * (fan + 1) = 2 * (fan * Iterations) + 2 * Iterations
  BY <1>1
<1>7. Position \in 2 * Iterations * fan .. 2 * Iterations * (fan + 1) - 1
  <2>1. passed \in fan * Iterations .. fan * Iterations + Iterations - 1
    BY <1>1, <1>2 DEF passed
  <2>2. Position \in 2 * (fan * Iterations) .. 2 * (fan * Iterations) + 2 * Iterations - 1
    <3>1. ASSUME NEW q \in Nat, NEW p \in q .. q + Iterations - 1, NEW b \in {0, 1}
          PROVE  2 * p + b \in 2 * q .. 2 * q + 2 * Iterations - 1
      BY ConstantsAre
    <3> QED
      BY <1>1, <1>2, <1>3, <2>1, <3>1
  <2> QED
    BY <1>1, <1>2, <1>6, <2>2
<1>8. [fan |-> fan, value |-> Value, outcome |-> o].fan = fan /\ [fan |-> fan, value |-> Value, outcome |-> o].value = Value
  OBVIOUS
<1> QED
  BY <1>5, <1>7, <1>8, Zenon DEF IsWrite

LEMMA ToldKept ==
    ASSUME Types, Loop, RingInv, Told, [Next]_vars
    PROVE  Told'
<1>1. CASE UNCHANGED ring /\ (Testing' => Testing \/ pc = "start")
  <2>1. ReadOut' = ReadOut /\ count' = count /\ \A i : Number(i)' = Number(i)
    BY <1>1 DEF ring, ReadOut, Number
  <2>2. \A n, r : IsWrite(n, r)' <=> IsWrite(n, r)
    BY DEF IsWrite
  <2>3. pc' = "start" => pc = "start"
    <3>1. pc' = "start" => UNCHANGED pc
      BY DEF Next, Program, vars, RejectArguments, AcquireFails, Refuse, Acquire, Retry, WriteDone,
         ReadBackMatches, ReadBackDiffers, WriteFails, ReadBackFails, Abort, TakeSample, EndMinHold,
         EndIteration, EndFan, ReleaseFan, Leave, TakeBack, Goto
    <3> QED
      BY <3>1
  <2> QED
    BY <1>1, <2>1, <2>3 DEF Told, IsWrite
<1>2. ASSUME NEW o \in Outcomes, Testing, pc # "hold", RecordWrite(o),
             o # "match" => pc' = "release"
      PROVE  Told'
  <2> DEFINE r == [fan |-> fan, value |-> Value, outcome |-> o]
  <2>1. r \in Records /\ Push(r)
    BY <1>2, RecordsAre DEF RecordWrite
  <2>2. IsWrite(count, r) /\ count \in Nat
    <3>1. count = Position
      BY <1>2 DEF Loop
    <3>2. IsWrite(Position, r)
      BY RecordIsOfPosition
    <3> QED
      BY <3>1, <3>2 DEF RingInv
  <2>3. r.outcome = o
    OBVIOUS
  <2> HIDE DEF r
  <2>4. /\ count' = count + 1
        /\ \A i \in 1 .. Len(ReadOut') :
              \/ Number(i)' = count /\ ReadOut'[i] = r
              \/ \E j \in 1 .. Len(ReadOut) : Number(i)' = Number(j) /\ ReadOut'[i] = ReadOut[j]
    BY <2>1, PushKeepsNumbers
  <2>5. \A j \in 1 .. Len(ReadOut) : IsWrite(Number(j), ReadOut[j]) /\ ReadOut[j].outcome = "match"
    BY <1>2 DEF Told
  <2>6. ASSUME NEW i \in 1 .. Len(ReadOut')
        PROVE  /\ IsWrite(Number(i)', ReadOut'[i])
               /\ Number(i)' + 1 < count' => ReadOut'[i].outcome = "match"
               /\ o = "match" => ReadOut'[i].outcome = "match"
    <3>1. CASE Number(i)' = count /\ ReadOut'[i] = r
      BY <2>2, <2>3, <2>4, <3>1
    <3>2. CASE \E j \in 1 .. Len(ReadOut) : Number(i)' = Number(j) /\ ReadOut'[i] = ReadOut[j]
      BY <2>5, <3>2
    <3> QED
      BY <2>4, <3>1, <3>2
  <2>7. pc' = "start" \/ Testing' => o = "match"
    <3>1. pc' # "start"
      BY <1>2 DEF Testing, Next, Program, vars, RejectArguments, AcquireFails, Refuse, Acquire, Retry,
         WriteDone, ReadBackMatches, ReadBackDiffers, WriteFails, ReadBackFails, Abort, TakeSample,
         EndMinHold, EndIteration, EndFan, ReleaseFan, Leave, TakeBack, At, Goto
    <3> QED
      BY <1>2, <3>1 DEF Testing
  <2> QED
    BY <2>6, <2>7 DEF Told, IsWrite
<1> QED
  BY <1>1, <1>2, RingSteps DEF Outcomes

LEMMA ToldTells == RingInv /\ Told => RecordsTellTheLoop
<1> SUFFICES ASSUME RingInv, Told
             PROVE  RecordsTellTheLoop
  OBVIOUS
<1>1. Recent(Capacity) = ReadOut
  BY RecentIs
<1>2. DOMAIN ReadOut = 1 .. Len(ReadOut)
  BY ReadOutIs, LenProperties
<1> QED
  BY <1>1, <1>2 DEF Told, IsWrite, Number, RecordsTellTheLoop

LEMMA ToldAtFirst == Init => Told
<1> SUFFICES ASSUME Init
             PROVE  Told
  OBVIOUS
<1>1. RingInv /\ count = 0
  BY RingInvInductive DEF Init, RingInit
<1>2. Len(ReadOut) = 0
  BY <1>1, ReadOutIs, CapacityAssumption
<1> QED
  BY <1>2 DEF Told

\* For any number of fans, iterations and slots, the records in the ring are the last
\* writes of the loop in their order, verified but perhaps the last.
THEOREM SelftestRecordsTell == Spec => []RecordsTellTheLoop
BY Started, TypesKept, DataTypesKept, LoopKept, RingNexts, RingInvInductive, ToldAtFirst, ToldKept,
   ToldTells, PTL DEF Spec
-----------------------------------------------------------------------------
(* The exit code.                                                            *)

LastSlot == IF next = 0 THEN Capacity - 1 ELSE next - 1

Exits ==
    /\ exitCode # -1 => pc \in {"release", "exited"}
    /\ fans > 0 =>
          /\ exitCode \in {0, 3} =>
                /\ Len(reports) = fans /\ count = 2 * Iterations * fans
                /\ \A i \in 1 .. Len(ReadOut) : ReadOut[i].outcome = "match"
          /\ exitCode = 0 => \A i \in DOMAIN reports : reports[i] = "pass"
          /\ exitCode = 1 => count > 0 /\ records[LastSlot].outcome # "match"

LEMMA PushIsLast ==
    ASSUME RingInv, NEW r, Push(r)
    PROVE  count' > 0 /\ records'[LastSlot'] = r
<1>1. next \in 0 .. Capacity - 1 /\ Capacity \in Nat \ {0} /\ count \in Nat
  BY CapacityAssumption DEF RingInv, Slots
<1>2. next' = IF next + 1 < Capacity THEN next + 1 ELSE 0
  <2>1. next + 1 \in 0 .. 2 * Capacity - 1
    BY <1>1
  <2> QED
    BY <1>1, <2>1, WrapOnce DEF Push
<1>3. LastSlot' = next
  BY <1>1, <1>2 DEF LastSlot
<1> QED
  BY <1>1, <1>3 DEF Push, RingInv, Slots

LEMMA RecentOneIs == RingInv /\ count > 0 => Recent(1)[1] = records[LastSlot]
<1> SUFFICES ASSUME RingInv, count > 0
             PROVE  Recent(1)[1] = records[LastSlot]
  OBVIOUS
<1>1. next \in 0 .. Capacity - 1 /\ Capacity \in Nat \ {0} /\ count \in Nat
  BY CapacityAssumption DEF RingInv, Slots
<1> DEFINE available == IF count < Capacity THEN count ELSE Capacity
           take == IF 1 < available THEN 1 ELSE available
<1>2. take = 1
  BY <1>1
<1>3. Recent(1) = [i \in 1 .. take |-> records[Wrap(Wrap(next + Capacity - take) + i - 1)]]
  BY DEF Recent
<1>4. Recent(1)[1] = records[Wrap(Wrap(next + Capacity - 1) + 1 - 1)]
  BY <1>2, <1>3
<1>5. Wrap(next + Capacity - 1) = LastSlot
  BY <1>1, WrapOnce DEF LastSlot
<1>6. LastSlot \in 0 .. Capacity - 1
  BY <1>1 DEF LastSlot
<1>7. Wrap(LastSlot + 1 - 1) = LastSlot
  BY <1>1, <1>6, WrapOnce
<1> QED
  BY <1>4, <1>5, <1>7

LEMMA ExitsKept ==
    ASSUME Types, DataTypes, Loop, RingInv, Told, Exits, [Next]_vars
    PROVE  Exits'
<1> USE DEF At, Goto
<1>1. CASE UNCHANGED <<fans, reports, exitCode, ring>> /\ (pc' = pc \/ pc' \in {"release", "exited"} \/ Testing)
  <2>1. exitCode' # -1 => pc' \in {"release", "exited"}
    BY <1>1 DEF Exits, Loop, Testing
  <2>2. UNCHANGED <<ReadOut, LastSlot>>
    BY <1>1 DEF ring, ReadOut, LastSlot
  <2> QED
    BY <1>1, <2>1, <2>2 DEF Exits, ring
<1>2. CASE RejectArguments \/ AcquireFails
  <2>1. pc' = "exited" /\ ~(fans' > 0)
    BY <1>2 DEF RejectArguments, AcquireFails, Refuse, Loop, loop
  <2> QED
    BY <2>1 DEF Exits
<1>3. CASE Acquire
  <2>1. exitCode = -1
    BY <1>3 DEF Acquire, Loop
  <2>2. /\ exitCode' # -1 => pc' \in {"release", "exited"}
        /\ fans' > 0 => exitCode' \in {64, -1}
    BY <1>3, <2>1 DEF Acquire
  <2> QED
    BY <2>2 DEF Exits
<1>4. CASE ReadBackMatches
  <2>1. exitCode' = -1
    BY <1>4 DEF ReadBackMatches, Loop, Testing
  <2> QED
    BY <2>1 DEF Exits
<1>5. CASE \/ ReadBackDiffers
           \/ \E why \in {"busy", "timed out", "other"} : WriteFails(why) \/ ReadBackFails(why)
  <2>1. RecordWrite("mismatch") \/ RecordWrite("write failed") \/ RecordWrite("readback failed")
    BY <1>5 DEF ReadBackDiffers, WriteFails, ReadBackFails, Abort
  <2>5. exitCode' = 1
    BY <1>5 DEF ReadBackDiffers, WriteFails, ReadBackFails, Abort, CodeFromSmcError
  <2>6. pc' \in {"release", "exited"}
    BY <1>5 DEF ReadBackDiffers, WriteFails, ReadBackFails, Abort
  <2>7. ~(exitCode' \in {0, 3}) /\ ~(exitCode' = 0)
    BY <2>5
  <2>2. PICK o \in {"mismatch", "write failed", "readback failed"} : RecordWrite(o)
    BY <2>1
  <2> DEFINE r == [fan |-> fan, value |-> Value, outcome |-> o]
  <2>3. Push(r) /\ r.outcome # "match"
    BY <2>2 DEF RecordWrite
  <2> HIDE DEF r
  <2>4. count' > 0 /\ records'[LastSlot'].outcome # "match"
    BY <2>3, PushIsLast
  <2>8. /\ exitCode' # -1 => pc' \in {"release", "exited"}
        /\ exitCode' = 1 => count' > 0 /\ records'[LastSlot'].outcome # "match"
    BY <2>4, <2>6
  <2> QED
    BY <2>7, <2>8 DEF Exits
<1>6. CASE \E v \in Speeds : EndFan(v)
  <2>1. PICK v \in Speeds : EndFan(v)
    BY <1>6
  <2>2. /\ pc = "hold" /\ half = "auto" /\ iter + 1 = Iterations /\ UNCHANGED <<fans, ring>>
        /\ reports' = Append(reports, ClassifyFan(iter + 1, 0, samples'[fan]))
    BY <2>1 DEF EndFan
  <2>3. Testing
    BY <2>2 DEF Testing
  <2>4. /\ fan < fans /\ exitCode = -1 /\ Len(reports) = fan /\ count = Position + 1
        /\ \A i \in DOMAIN reports : reports[i] # "fail"
    BY <2>2, <2>3 DEF Loop
  <2>5. CASE fan + 1 < fans
    <3>1. exitCode' = -1
      BY <2>1, <2>4, <2>5 DEF EndFan
    <3> QED
      BY <3>1 DEF Exits
  <2>6. CASE ~(fan + 1 < fans)
    <3>1. exitCode' = ExitCode(Classify(reports', 0)) /\ pc' = "release"
      BY <2>1, <2>6 DEF EndFan
    <3>2. fan + 1 = fans
      <4>1. fan \in 0 .. MaxFans /\ fans \in 0 .. MaxFans
        BY DEF Types
      <4> QED
        BY <2>4, <2>6, <4>1, ConstantsAre
    <3>3. count' = 2 * Iterations * fans'
      <4>1. fan \in Int /\ iter \in Int /\ Iterations \in Int
        <5>1. fan \in 0 .. MaxFans /\ iter \in 0 .. Iterations - 1
          BY DEF Types
        <5> QED
          BY <5>1, ConstantsAre
      <4>2. Position = 2 * (fan * Iterations + iter) + 1
        BY <2>2 DEF Position
      <4>3. 2 * Iterations * (fan + 1) = 2 * (fan * Iterations) + 2 * Iterations /\ fan * Iterations \in Int
        BY <4>1
      <4>4. count = 2 * Iterations * (fan + 1)
        BY <2>2, <2>4, <4>1, <4>2, <4>3
      <4> QED
        BY <2>2, <3>2, <4>4 DEF ring
    <3>4. ClassifyFan(iter + 1, 0, samples'[fan]) \in {"pass", "inconclusive"}
      BY <2>2, ClassesAre
    <3>5. /\ Len(reports') = fans'
          /\ reports' \in Seq({"pass", "inconclusive", "fail"})
          /\ \A i \in DOMAIN reports' : reports'[i] # "fail"
      BY <2>2, <2>4, <3>2, <3>4 DEF DataTypes
    <3>6. Classify(reports', 0) =
            IF "inconclusive" \in {reports'[i] : i \in DOMAIN reports'} THEN "inconclusive" ELSE "pass"
      BY ClassesAre
    <3>7. exitCode' \in {0, 3} /\ (exitCode' = 0 => Classify(reports', 0) = "pass")
      BY <3>1, <3>6, ExitCodesAre
    <3>8. exitCode' = 0 => \A i \in DOMAIN reports' : reports'[i] = "pass"
      <4>1. \A i \in DOMAIN reports' : reports'[i] \in {"pass", "inconclusive", "fail"}
        BY <3>5
      <4> QED
        BY <3>5, <3>6, <3>7, <4>1
    <3>9. \A i \in 1 .. Len(ReadOut') : ReadOut'[i].outcome = "match"
      <4>1. ReadOut' = ReadOut
        BY <2>2 DEF ring, ReadOut
      <4> QED
        BY <2>3, <4>1 DEF Told
    <3>10. exitCode' # 1
      BY <3>7
    <3> QED
      BY <3>1, <3>3, <3>5, <3>8, <3>9, <3>10 DEF Exits
  <2> QED
    BY <2>5, <2>6
<1>7. ASSUME \/ WriteDone \/ Leave \/ UNCHANGED vars
             \/ \E why \in {"busy", "timed out"} : Retry(why)
             \/ \E v \in Speeds : TakeSample(v) \/ EndMinHold(v) \/ EndIteration(v)
             \/ \E ok \in BOOLEAN : ReleaseFan(ok)
             \/ \E f \in Fans : TakeBack(f)
      PROVE  UNCHANGED <<fans, reports, exitCode, ring>> /\ (pc' = pc \/ pc' \in {"release", "exited"} \/ Testing)
  BY <1>7 DEF WriteDone, Leave, vars, Retry, TakeSample, EndMinHold, EndIteration, ReleaseFan, TakeBack,
     loop, data, Testing
<1> QED
  BY <1>1, <1>2, <1>3, <1>4, <1>5, <1>6, <1>7 DEF Next, Program

LEMMA ExitsTell == RingInv /\ Exits => ExitCodeTells
<1> SUFFICES ASSUME RingInv, Exits
             PROVE  ExitCodeTells
  OBVIOUS
<1>1. Recent(Capacity) = ReadOut /\ DOMAIN ReadOut = 1 .. Len(ReadOut)
  BY RecentIs, ReadOutIs, LenProperties
<1> QED
  BY <1>1, RecentOneIs DEF Exits, ExitCodeTells

\* For any number of fans, iterations and slots, the exit code tells what was verified.
THEOREM SelftestExitCodeTells == Spec => []ExitCodeTells
<1>1. Init => Exits
  BY DEF Init, Exits
<1> QED
  BY <1>1, Started, TypesKept, DataTypesKept, LoopKept, RingNexts, RingInvInductive, ToldAtFirst, ToldKept,
     ExitsKept, ExitsTell, PTL DEF Spec

-----------------------------------------------------------------------------
(* Least and greatest elements.                                              *)

\* A set of numbers has a least element, and Min is it.
LEMMA HasLeast ==
    ASSUME NEW S \in SUBSET Nat, S # {}
    PROVE  Min(S) \in S /\ \A y \in S : Min(S) <= y
<1> DEFINE Less == OpToRel(<, Nat)
<1>1. PICK x \in S : \A y \in S : ~(<<y, x>> \in Less)
  <2>1. IsWellFoundedOn(Less, Nat)
    BY NatLessThanWellFounded
  <2> HIDE DEF Less
  <2> QED
    BY <2>1, WFMin
<1>2. \A y \in S : x <= y
  <2> SUFFICES ASSUME NEW y \in S
               PROVE  x <= y
    OBVIOUS
  <2>1. x \in Nat /\ y \in Nat /\ ~(<<y, x>> \in Less)
    BY <1>1
  <2> QED
    BY <2>1 DEF OpToRel
<1> QED
  BY <1>2 DEF Min

\* A finite set of numbers has a greatest element, the one with the fewest above it.
LEMMA HasGreatest ==
    ASSUME NEW S \in SUBSET Nat, IsFiniteSet(S), S # {}
    PROVE  Max(S) \in S /\ \A y \in S : Max(S) >= y
<1> DEFINE Above  == [x \in S |-> {y \in S : y > x}]
           Counts == {n \in Nat : \E x \in S : n = Cardinality(Above[x])}
<1>1. \A x \in S : IsFiniteSet(Above[x]) /\ Cardinality(Above[x]) \in Nat
  <2> SUFFICES ASSUME NEW x \in S
               PROVE  IsFiniteSet(Above[x]) /\ Cardinality(Above[x]) \in Nat
    OBVIOUS
  <2>1. Above[x] \in SUBSET S
    OBVIOUS
  <2> HIDE DEF Above
  <2> QED
    BY <2>1, FS_Subset, FS_CardinalityType
<1>2. Counts \subseteq Nat /\ Counts # {}
  <2> HIDE DEF Above
  <2> QED
    BY <1>1
<1>3. Min(Counts) \in Counts /\ \A n \in Counts : Min(Counts) <= n
  <2> HIDE DEF Counts
  <2> QED
    BY <1>2, HasLeast
<1>4. PICK x \in S : Min(Counts) = Cardinality(Above[x])
  BY <1>3
<1>5. \A y \in S : x >= y
  <2> SUFFICES ASSUME NEW y \in S, ~(x >= y)
               PROVE  FALSE
    OBVIOUS
  <2>1. y > x
    OBVIOUS
  <2>2. Above[y] \in SUBSET Above[x] /\ y \in Above[x] /\ y \notin Above[y]
    <3>1. \A z \in S : z \in Nat /\ Above[z] = {w \in S : w > z}
      OBVIOUS
    <3> HIDE DEF Above
    <3>2. x \in Nat /\ y \in Nat /\ S \subseteq Nat
      OBVIOUS
    <3>3. \A w \in S : w > y => w > x
      BY <2>1, <3>2
    <3>4. Above[x] = {w \in S : w > x} /\ Above[y] = {w \in S : w > y}
      BY <3>1
    <3>5. ~(y > y)
      BY <3>2
    <3> QED
      BY <2>1, <3>3, <3>4, <3>5
  <2>3. Cardinality(Above[y]) \in Counts
    BY <1>1
  <2>4. Cardinality(Above[x]) <= Cardinality(Above[y])
    BY <1>3, <1>4, <2>3
  <2> HIDE DEF Above, Counts
  <2>5. Cardinality(Above[y]) <= Cardinality(Above[x])
    BY <1>1, <2>2, FS_Subset
  <2>6. Cardinality(Above[y]) = Cardinality(Above[x])
    <3>1. Cardinality(Above[x]) \in Nat /\ Cardinality(Above[y]) \in Nat
      BY <1>1
    <3> QED
      BY <2>4, <2>5, <3>1
  <2>7. Above[y] = Above[x]
    BY <1>1, <2>2, <2>6, FS_Subset
  <2> QED
    BY <2>2, <2>7
<1> QED
  BY <1>5 DEF Max

-----------------------------------------------------------------------------
(* The samples of a hold, and their median.                                  *)

LEMMA SpeedsAre == Speeds \in SUBSET Nat /\ IsFiniteSet(Speeds) /\ 0 \in Speeds
BY SelftestAssumption

LEMMA FastestIs == Max(Speeds) \in Speeds /\ \A u \in Speeds : u <= Max(Speeds)
BY SpeedsAre, HasGreatest

LEMMA AtMostFinite ==
    ASSUME NEW b \in [Speeds -> Nat], NEW v
    PROVE  IsFiniteSet(AtMost(b, v)) /\ Upto(b, v) \in Nat
<1> DEFINE U == {u \in Speeds : u <= v}
           g == [u \in U |-> {u} \X (1 .. b[u])]
           T == {g[u] : u \in U}
<1>1. IsFiniteSet(U)
  BY SpeedsAre, FS_Subset
<1>2. g \in Surjection(U, T)
  BY DEF Surjection
<1>3. \A u \in U : IsFiniteSet(g[u])
  <2> SUFFICES ASSUME NEW u \in U
               PROVE  IsFiniteSet(g[u])
    OBVIOUS
  <2>1. b[u] \in Int /\ g[u] = {u} \X (1 .. b[u])
    OBVIOUS
  <2>2. IsFiniteSet({u}) /\ IsFiniteSet(1 .. b[u])
    <3>1. IsFiniteSet({u})
      BY FS_Singleton
    <3> HIDE DEF g, U
    <3>2. IsFiniteSet(1 .. b[u])
      BY <2>1, FS_Interval
    <3> QED
      BY <3>1, <3>2
  <2>3. IsFiniteSet({u} \X (1 .. b[u]))
    BY <2>2, FS_Product
  <2> QED
    BY <2>1, <2>3
<1>4. AtMost(b, v) = UNION T
  BY DEF AtMost
<1>5. IsFiniteSet(UNION T)
  <2>1. \A t \in T : IsFiniteSet(t)
    BY <1>3
  <2> HIDE DEF T, g, U
  <2>2. IsFiniteSet(T)
    BY <1>1, <1>2, FS_Surjection
  <2> QED
    BY <2>1, <2>2, FS_UNION
<1> QED
  BY <1>4, <1>5, FS_CardinalityType DEF Upto

\* The samples that are 0 come first.
LEMMA ZerosAre ==
    ASSUME NEW b \in [Speeds -> Nat]
    PROVE  Upto(b, 0) = b[0]
<1>1. {u \in Speeds : u <= 0} = {0}
  <2>1. \A u \in Speeds : u \in Nat /\ (u <= 0 <=> u = 0)
    BY SpeedsAre
  <2>2. 0 \in Speeds
    BY SpeedsAre
  <2> QED
    BY <2>1, <2>2
<1>2. AtMost(b, 0) = {0} \X (1 .. b[0])
  BY <1>1 DEF AtMost
<1>3. IsFiniteSet({0}) /\ Cardinality({0}) = 1
  BY FS_Singleton
<1>4. b[0] \in Nat
  BY SpeedsAre
<1>5. IsFiniteSet(1 .. b[0]) /\ Cardinality(1 .. b[0]) = b[0]
  BY <1>4, FS_Interval
<1>6. Cardinality({0} \X (1 .. b[0])) = 1 * b[0]
  BY <1>3, <1>5, FS_Product
<1>7. 1 * b[0] = b[0]
  BY <1>4
<1> QED
  BY <1>2, <1>6, <1>7 DEF Upto

LEMMA RankIs ==
    ASSUME NEW b \in [Speeds -> Nat], NEW i \in Int
    PROVE  /\ i < Upto(b, Max(Speeds)) => Rank(b, i) \in Nat
           /\ i < b[0] => Rank(b, i) = 0
<1> DEFINE Over == {v \in Speeds : Upto(b, v) > i}
<1>1. Over \in SUBSET Nat
  BY SpeedsAre
<1>2. Rank(b, i) = Min(Over)
  BY DEF Rank
<1>3. ASSUME i < Upto(b, Max(Speeds))
      PROVE  Rank(b, i) \in Nat
  <2>1. Max(Speeds) \in Over
    BY <1>3, FastestIs, AtMostFinite
  <2> HIDE DEF Over
  <2> QED
    BY <1>1, <1>2, <2>1, HasLeast
<1>4. ASSUME i < b[0]
      PROVE  Rank(b, i) = 0
  <2>1. 0 \in Over
    BY <1>4, SpeedsAre, ZerosAre
  <2> HIDE DEF Over
  <2>2. Min(Over) \in Nat /\ Min(Over) <= 0
    BY <1>1, <2>1, HasLeast
  <2> QED
    BY <1>2, <2>2
<1> QED
  BY <1>3, <1>4

\* Samples most of which are 0 have the median 0.
LEMMA MedianIs ==
    ASSUME NEW b \in [Speeds -> Nat]
    PROVE  /\ TwiceMedian(b) \in Nat
           /\ 2 * b[0] > Upto(b, Max(Speeds)) => TwiceMedian(b) = 0
<1> DEFINE n == Upto(b, Max(Speeds))
<1>1. n \in Nat /\ b[0] \in Nat
  BY AtMostFinite, SpeedsAre
<1>2. TwiceMedian(b) = IF n = 0 THEN 0
                       ELSE IF n % 2 = 1 THEN 2 * Rank(b, n \div 2)
                       ELSE Rank(b, n \div 2 - 1) + Rank(b, n \div 2)
  BY DEF TwiceMedian
<1>3. /\ n \div 2 \in Int /\ n \div 2 - 1 \in Int
      /\ n # 0 => n \div 2 < n /\ n \div 2 - 1 < n
      /\ 2 * b[0] > n => n \div 2 < b[0] /\ n \div 2 - 1 < b[0]
  <2> HIDE DEF n
  <2> QED
    BY <1>1
<1>4. n # 0 => Rank(b, n \div 2) \in Nat /\ Rank(b, n \div 2 - 1) \in Nat
  BY <1>3, RankIs
<1>5. 2 * b[0] > n => Rank(b, n \div 2) = 0 /\ Rank(b, n \div 2 - 1) = 0
  BY <1>3, RankIs
<1> HIDE DEF n
<1>6. TwiceMedian(b) \in Nat /\ (2 * b[0] > n => TwiceMedian(b) = 0)
  BY <1>2, <1>4, <1>5
<1> QED
  BY <1>6 DEF n

LEMMA NoSamplesAre == Upto(NoSamples, Max(Speeds)) = 0
<1>1. AtMost(NoSamples, Max(Speeds)) = {}
  BY DEF AtMost, NoSamples
<1> QED
  BY <1>1, FS_EmptySet DEF Upto

\* A sample more.
LEMMA SamplesAdd ==
    ASSUME NEW b \in [Speeds -> Nat], NEW v \in Speeds
    PROVE  Upto([b EXCEPT ![v] = b[v] + 1], Max(Speeds)) = Upto(b, Max(Speeds)) + 1
<1> DEFINE c == [b EXCEPT ![v] = b[v] + 1]
           new == <<v, b[v] + 1>>
<1>1. c \in [Speeds -> Nat] /\ b[v] \in Nat
  OBVIOUS
<1>2. \A d \in [Speeds -> Nat] : \A u, k :
        <<u, k>> \in AtMost(d, Max(Speeds)) <=> u \in Speeds /\ k \in 1 .. d[u]
  BY FastestIs DEF AtMost
<1>3. new \notin AtMost(b, Max(Speeds))
  <2>1. ~(b[v] + 1 \in 1 .. b[v])
    BY <1>1
  <2> QED
    BY <1>2, <2>1
<1>4. AtMost(c, Max(Speeds)) = AtMost(b, Max(Speeds)) \cup {new}
  <2>1. \A d \in [Speeds -> Nat] : \A e \in AtMost(d, Max(Speeds)) : e = <<e[1], e[2]>>
    BY DEF AtMost
  <2>2. \A u, k : u \in Speeds /\ k \in 1 .. c[u] <=> (u \in Speeds /\ k \in 1 .. b[u]) \/ <<u, k>> = new
    <3> SUFFICES ASSUME NEW u \in Speeds, NEW k
                 PROVE  k \in 1 .. c[u] <=> k \in 1 .. b[u] \/ <<u, k>> = new
      BY <1>1
    <3>1. CASE u = v
      BY <1>1, <3>1
    <3>2. CASE u # v
      BY <1>1, <3>2
    <3> QED
      BY <3>1, <3>2
  <2>3. \A u, k : <<u, k>> \in AtMost(c, Max(Speeds)) <=> <<u, k>> \in AtMost(b, Max(Speeds)) \/ <<u, k>> = new
    BY <1>1, <1>2, <2>2
  <2>4. new = <<new[1], new[2]>>
    OBVIOUS
  <2> HIDE DEF c, new
  <2> QED
    BY <1>1, <2>1, <2>3, <2>4
<1>5. IsFiniteSet(AtMost(b, Max(Speeds))) /\ Upto(b, Max(Speeds)) \in Nat
  BY AtMostFinite
<1> HIDE DEF c, new
<1>6. Cardinality(AtMost(c, Max(Speeds))) = Cardinality(AtMost(b, Max(Speeds))) + 1
  BY <1>3, <1>4, <1>5, FS_AddElement
<1> QED
  BY <1>6 DEF Upto, c

-----------------------------------------------------------------------------
\* How many samples of a fan in mode 0 there are at a place of the loop, and that
\* there are none yet of the fans to come.
Counted ==
    /\ pc = "start" => \A f \in Fans : samples[f]["auto"] = NoSamples
    /\ Testing =>
          /\ \A f \in Fans : f > fan => samples[f]["auto"] = NoSamples
          /\ Upto(samples[fan]["auto"], Max(Speeds)) =
                 iter * SamplesPerHold + (IF pc = "hold" /\ half = "auto" THEN taken ELSE 0)
    /\ PassNeedsReadings

LEMMA CountersAre ==
    ASSUME Types, DataTypes, Loop
    PROVE  /\ fan \in Nat /\ iter \in Nat /\ fans \in Nat /\ taken \in Nat
           /\ iter * SamplesPerHold \in Nat
           /\ (iter + 1) * SamplesPerHold = iter * SamplesPerHold + SamplesPerHold
           /\ Testing => fan \in Fans
           /\ fan + 1 < fans => fan + 1 \in Fans
           /\ \A f \in Fans : f \in Nat
<1>1. /\ fan \in 0 .. MaxFans /\ fans \in 0 .. MaxFans /\ iter \in 0 .. Iterations - 1
      /\ taken \in 0 .. SamplesPerHold
  BY DEF Types, DataTypes
<1>2. fan \in Nat /\ iter \in Nat /\ fans \in Nat /\ taken \in Nat /\ SamplesPerHold \in Nat
  BY <1>1, ConstantsAre
<1>3. /\ iter * SamplesPerHold \in Nat
      /\ (iter + 1) * SamplesPerHold = iter * SamplesPerHold + SamplesPerHold
  BY <1>2
<1>4. Testing => fan < fans
  BY DEF Loop
<1> QED
  BY <1>1, <1>2, <1>3, <1>4, ConstantsAre DEF Fans

\* What one more sample does to the counts.
LEMMA SampleCounts ==
    ASSUME Types, DataTypes, Loop, Testing, NEW v \in Speeds, Sample(v)
    PROVE  /\ \A f \in Fans \ {fan} : samples'[f] = samples[f]
           /\ half = "min" => samples'[fan]["auto"] = samples[fan]["auto"]
           /\ half = "auto" => Upto(samples'[fan]["auto"], Max(Speeds))
                                 = Upto(samples[fan]["auto"], Max(Speeds)) + 1
           /\ \A f \in Fans : samples'[f]["auto"] \in [Speeds -> Nat]
<1>1. fan \in Fans
  BY CountersAre
<1>2. /\ samples \in [Fans -> [Halves -> [Speeds -> Nat]]]
      /\ half \in Halves
      /\ samples' = [samples EXCEPT ![fan][half][v] = samples[fan][half][v] + 1]
  BY DEF Types, DataTypes, Sample
<1>3. \A f \in Fans \ {fan} : samples'[f] = samples[f]
  BY <1>1, <1>2
<1>4. half = "min" => samples'[fan]["auto"] = samples[fan]["auto"]
  BY <1>1, <1>2
<1>5. ASSUME half = "auto"
      PROVE  Upto(samples'[fan]["auto"], Max(Speeds)) = Upto(samples[fan]["auto"], Max(Speeds)) + 1
  <2>1. samples'[fan]["auto"] = [samples[fan]["auto"] EXCEPT ![v] = samples[fan]["auto"][v] + 1]
    BY <1>1, <1>2, <1>5
  <2>2. samples[fan]["auto"] \in [Speeds -> Nat]
    BY <1>1, <1>2 DEF Halves
  <2> QED
    BY <2>1, <2>2, SamplesAdd
<1>6. \A f \in Fans : samples'[f]["auto"] \in [Speeds -> Nat]
  BY <1>1, SampleTypes DEF Halves
<1> QED
  BY <1>3, <1>4, <1>5, <1>6

\* A fan passes only if its speeds in mode 0 have a median above 0.
LEMMA PassIs ==
    ASSUME NEW s \in [Halves -> [Speeds -> Nat]], ClassifyFan(Iterations, 0, s) = "pass",
           Upto(s["auto"], Max(Speeds)) = Iterations * SamplesPerHold
    PROVE  2 * s["auto"][0] <= Iterations * SamplesPerHold
<1>1. s["auto"] \in [Speeds -> Nat] /\ s["min"] \in [Speeds -> Nat] /\ s["auto"][0] \in Nat
  BY SpeedsAre DEF Halves
<1>2. TwiceMedian(s["auto"]) \in Nat /\ TwiceMedian(s["min"]) \in Nat
  BY <1>1, MedianIs
<1>3. Threshold \in Nat /\ Threshold > 0 /\ Iterations \in Nat /\ SamplesPerHold \in Nat
  BY SelftestAssumption
<1>4. TwiceMedian(s["auto"]) - TwiceMedian(s["min"]) >= 2 * Threshold
  BY <1>3 DEF ClassifyFan
<1>5. TwiceMedian(s["auto"]) # 0
  BY <1>2, <1>3, <1>4
<1>6. ~(2 * s["auto"][0] > Iterations * SamplesPerHold)
  BY <1>1, <1>5, MedianIs
<1>7. Iterations * SamplesPerHold \in Nat
  BY <1>3
<1> QED
  BY <1>1, <1>6, <1>7

LEMMA CountedKept ==
    ASSUME Types, DataTypes, Loop, Counted, [Next]_vars
    PROVE  Counted'
<1> USE DEF At, Goto
<1>1. CASE RejectArguments \/ AcquireFails \/ Leave
  BY <1>1 DEF RejectArguments, AcquireFails, Refuse, Leave, Counted, PassNeedsReadings, Testing, data
<1>2. CASE Acquire
  <2>1. /\ pc = "start" /\ pc' \in {"write", "release"}
        /\ UNCHANGED <<samples, fan, iter, half, reports>>
    BY <1>2 DEF Acquire, data
  <2>2. /\ fan = 0 /\ iter = 0 /\ reports = <<>>
        /\ \A f \in Fans : samples[f]["auto"] = NoSamples
    BY <2>1 DEF Loop, Counted
  <2>3. PassNeedsReadings'
    BY <2>1, <2>2 DEF PassNeedsReadings
  <2>4. CASE pc' = "release"
    BY <2>3, <2>4 DEF Counted, Testing
  <2>5. CASE pc' = "write"
    <3>1. 0 \in Fans
      <4>1. fans' \in 0 .. MaxFans /\ fans' > 0
        BY <1>2, <2>5 DEF Acquire
      <4> QED
        BY <4>1, ConstantsAre DEF Fans
    <3>2. 0 * SamplesPerHold + 0 = 0
      BY ConstantsAre
    <3>3. Upto(samples'[fan']["auto"], Max(Speeds)) = 0
      BY <2>1, <2>2, <3>1, NoSamplesAre
    <3> QED
      BY <2>1, <2>2, <2>3, <2>5, <3>2, <3>3 DEF Counted
  <2> QED
    BY <2>1, <2>4, <2>5
<1>3. CASE \/ \E why \in {"busy", "timed out"} : Retry(why)
           \/ \E f \in Fans : TakeBack(f)
           \/ \E ok \in BOOLEAN : ReleaseFan(ok)
           \/ UNCHANGED vars
  <2>1. UNCHANGED <<pc, fan, iter, half, taken, samples, reports>>
    BY <1>3 DEF Retry, TakeBack, ReleaseFan, vars, loop, data
  <2> QED
    BY <2>1 DEF Counted, PassNeedsReadings, Testing
<1>4. CASE WriteDone \/ ReadBackMatches
  <2>1. /\ pc \in {"write", "read back"} /\ pc' \in {"read back", "hold"}
        /\ pc' = "hold" => taken' = 0
        /\ UNCHANGED <<fan, iter, half, samples, reports>>
    BY <1>4 DEF WriteDone, ReadBackMatches, loop, data
  <2> QED
    BY <2>1 DEF Counted, PassNeedsReadings, Testing
<1>5. CASE \/ ReadBackDiffers
           \/ \E why \in {"busy", "timed out", "other"} : WriteFails(why) \/ ReadBackFails(why)
  <2>1. pc' = "release" /\ UNCHANGED <<samples, reports>>
    BY <1>5 DEF ReadBackDiffers, WriteFails, ReadBackFails, Abort, data
  <2> QED
    BY <2>1 DEF Counted, PassNeedsReadings, Testing
<1>6. CASE \E v \in Speeds : TakeSample(v) \/ EndMinHold(v) \/ EndIteration(v) \/ EndFan(v)
  <2>1. PICK v \in Speeds : TakeSample(v) \/ EndMinHold(v) \/ EndIteration(v) \/ EndFan(v)
    BY <1>6
  <2>2. Testing /\ pc = "hold" /\ Sample(v) /\ taken' = taken + 1
    BY <2>1 DEF TakeSample, EndMinHold, EndIteration, EndFan, Testing, Sample
  <2>3. /\ \A f \in Fans \ {fan} : samples'[f] = samples[f]
        /\ half = "min" => samples'[fan]["auto"] = samples[fan]["auto"]
        /\ half = "auto" => Upto(samples'[fan]["auto"], Max(Speeds))
                              = Upto(samples[fan]["auto"], Max(Speeds)) + 1
    BY <2>2, SampleCounts
  <2>4. /\ \A f \in Fans : f > fan => samples'[f]["auto"] = NoSamples
        /\ Upto(samples[fan]["auto"], Max(Speeds)) =
               iter * SamplesPerHold + (IF half = "auto" THEN taken ELSE 0)
    BY <2>2, <2>3, CountersAre DEF Counted
  <2>5. \A i \in DOMAIN reports :
            reports[i] = "pass" => 2 * samples'[i - 1]["auto"][0] <= Iterations * SamplesPerHold
    <3> SUFFICES ASSUME NEW i \in DOMAIN reports, reports[i] = "pass"
                 PROVE  2 * samples'[i - 1]["auto"][0] <= Iterations * SamplesPerHold
      OBVIOUS
    <3>1. Len(reports) = fan /\ i \in 1 .. Len(reports)
      BY <2>2 DEF Loop, DataTypes
    <3>2. fan \in Fans /\ fan \in Nat
      BY <2>2, CountersAre
    <3>3. i - 1 \in Fans \ {fan}
      BY <3>1, <3>2, ConstantsAre DEF Fans
    <3> QED
      BY <2>3, <3>3 DEF Counted, PassNeedsReadings
  <2>6. CASE TakeSample(v)
    <3>1. UNCHANGED <<pc, fan, iter, half, reports>>
      BY <2>6 DEF TakeSample, loop
    <3>2. PassNeedsReadings'
      BY <2>5, <3>1 DEF PassNeedsReadings
    <3>3. half \in {"min", "auto"}
      BY DEF Types, Halves
    <3>4. Upto(samples'[fan]["auto"], Max(Speeds)) =
              iter * SamplesPerHold + (IF half = "auto" THEN taken' ELSE 0)
      BY <2>2, <2>3, <2>4, <3>3, CountersAre
    <3> QED
      BY <2>2, <2>4, <3>1, <3>2, <3>4 DEF Counted
  <2>7. CASE EndMinHold(v)
    <3>1. half = "min" /\ pc' = "write" /\ UNCHANGED <<fan, iter, reports>>
      BY <2>7 DEF EndMinHold
    <3>2. PassNeedsReadings'
      BY <2>5, <3>1 DEF PassNeedsReadings
    <3> QED
      BY <2>3, <2>4, <3>1, <3>2 DEF Counted
  <2>8. CASE EndIteration(v)
    <3>1. /\ half = "auto" /\ taken + 1 = SamplesPerHold /\ pc' = "write" /\ iter' = iter + 1
          /\ UNCHANGED <<fan, reports>>
      BY <2>8 DEF EndIteration
    <3>2. PassNeedsReadings'
      BY <2>5, <3>1 DEF PassNeedsReadings
    <3>3. Upto(samples'[fan]["auto"], Max(Speeds)) = (iter + 1) * SamplesPerHold + 0
      BY <2>3, <2>4, <3>1, CountersAre
    <3> QED
      BY <2>4, <3>1, <3>2, <3>3 DEF Counted
  <2>9. CASE EndFan(v)
    <3>1. /\ half = "auto" /\ taken + 1 = SamplesPerHold /\ iter + 1 = Iterations
          /\ reports' = Append(reports, ClassifyFan(iter + 1, 0, samples'[fan]))
      BY <2>9 DEF EndFan
    <3>2. Upto(samples'[fan]["auto"], Max(Speeds)) = Iterations * SamplesPerHold
      BY <2>3, <2>4, <3>1, CountersAre
    <3>3. fan \in Fans /\ fan \in Nat /\ Len(reports) = fan
      BY <2>2, CountersAre DEF Loop
    <3>4. samples'[fan] \in [Halves -> [Speeds -> Nat]]
      BY <2>2, <3>3, SampleTypes
    <3>5. PassNeedsReadings'
      <4> SUFFICES ASSUME NEW i \in DOMAIN reports', reports'[i] = "pass"
                   PROVE  2 * samples'[i - 1]["auto"][0] <= Iterations * SamplesPerHold
        BY DEF PassNeedsReadings
      <4>1. reports \in Seq({"pass", "inconclusive", "fail"})
        BY DEF DataTypes
      <4>2. i \in 1 .. fan + 1 /\ (i # fan + 1 => i \in DOMAIN reports /\ reports'[i] = reports[i])
        BY <3>1, <3>3, <4>1
      <4>3. CASE i = fan + 1
        <5>1. reports'[i] = ClassifyFan(iter + 1, 0, samples'[fan]) /\ i - 1 = fan
          BY <3>1, <3>3, <4>1, <4>3
        <5>2. ClassifyFan(Iterations, 0, samples'[fan]) = "pass"
          BY <3>1, <5>1
        <5> QED
          BY <3>2, <3>4, <5>1, <5>2, PassIs
      <4> QED
        BY <2>5, <4>2, <4>3
    <3>6. CASE fan + 1 < fans
      <4>1. pc' = "write" /\ fan' = fan + 1 /\ iter' = 0 /\ half' = "min"
        BY <2>9, <3>6 DEF EndFan
      <4>2. fan + 1 \in Fans /\ \A f \in Fans : f \in Nat
        BY <3>6, CountersAre
      <4>3. samples'[fan + 1]["auto"] = NoSamples
        BY <2>4, <3>3, <4>2
      <4>4. 0 * SamplesPerHold + 0 = 0
        BY ConstantsAre
      <4>5. \A f \in Fans : f > fan' => samples'[f]["auto"] = NoSamples
        BY <2>4, <3>3, <4>1, <4>2
      <4>6. Upto(samples'[fan']["auto"], Max(Speeds)) = 0
        BY <4>1, <4>3, NoSamplesAre
      <4> QED
        BY <3>5, <4>1, <4>4, <4>5, <4>6 DEF Counted
    <3>7. CASE ~(fan + 1 < fans)
      <4>1. pc' = "release"
        BY <2>9, <3>7 DEF EndFan
      <4> QED
        BY <3>5, <4>1 DEF Counted, Testing
    <3> QED
      BY <3>6, <3>7
  <2> QED
    BY <2>1, <2>6, <2>7, <2>8, <2>9
<1> QED
  BY <1>1, <1>2, <1>3, <1>4, <1>5, <1>6 DEF Next, Program

\* For any number of fans, iterations, samples and speeds, a fan passes only with
\* readings: failed ones, which count as 0, do not make it.
THEOREM SelftestPassNeedsReadings == Spec => []PassNeedsReadings
<1>1. Init => Counted
  <2> SUFFICES ASSUME Init
               PROVE  Counted
    OBVIOUS
  <2>1. \A f \in Fans : samples[f]["auto"] = NoSamples
    BY DEF Init, Halves
  <2> QED
    BY <2>1 DEF Init, Counted, Testing, PassNeedsReadings
<1>2. Counted => PassNeedsReadings
  BY DEF Counted
<1> QED
  BY <1>1, <1>2, Started, TypesKept, DataTypesKept, LoopKept, CountedKept, PTL DEF Spec

-----------------------------------------------------------------------------
(* The steps that are left.                                                  *)

LEMMA PairHasTwo ==
    ASSUME NEW x, NEW y, x # y
    PROVE  IsFiniteSet({x, y}) /\ Cardinality({x, y}) = 2
<1>1. {x, y} = {x} \cup {y} /\ y \notin {x}
  OBVIOUS
<1>2. IsFiniteSet({x}) /\ Cardinality({x}) = 1
  BY FS_Singleton
<1>3. IsFiniteSet({x} \cup {y}) /\ Cardinality({x} \cup {y}) = Cardinality({x}) + 1
  BY <1>1, <1>2, FS_AddElement
<1> QED
  BY <1>1, <1>2, <1>3

\* Each transient error is retried once: two retries of a call, at most.
LEMMA RetriesAre ==
    ASSUME Types
    PROVE  /\ Cardinality(retried) \in 0 .. 2 /\ Cardinality({}) = 0
           /\ \A why \in {"busy", "timed out"} \ retried :
                  Cardinality(retried \cup {why}) = Cardinality(retried) + 1
<1> DEFINE Transient == {"busy", "timed out"}
<1>1. IsFiniteSet(Transient) /\ Cardinality(Transient) = 2
  BY PairHasTwo
<1>2. retried \in SUBSET Transient
  BY DEF Types
<1> HIDE DEF Transient
<1>3. IsFiniteSet(retried) /\ Cardinality(retried) \in Nat /\ Cardinality(retried) <= 2
  BY <1>1, <1>2, FS_Subset, FS_CardinalityType
<1>4. \A why : why \notin retried => Cardinality(retried \cup {why}) = Cardinality(retried) + 1
  BY <1>3, FS_AddElement
<1> QED
  <2>1. Cardinality({}) = 0
    BY FS_EmptySet
  <2>2. Cardinality(retried) \in 0 .. 2
    BY <1>3
  <2> QED
    BY <1>4, <2>1, <2>2

\* A hold is left as long as the loop runs, and each one left has its own steps.
LEMMA HoldsAre ==
    ASSUME Types, DataTypes, Loop
    PROVE  /\ HoldSteps \in Nat /\ HoldSteps = SamplesPerHold + 6
           /\ Testing => HoldsLeft \in Nat /\ HoldsLeft >= 1 /\ (HoldsLeft - 1) * HoldSteps \in Nat
<1>1. HoldSteps \in Nat /\ HoldSteps = SamplesPerHold + 6
  BY ConstantsAre DEF HoldSteps
<1>2. ASSUME Testing
      PROVE  HoldsLeft \in Nat /\ HoldsLeft >= 1
  <2> DEFINE d == fans - fan - 1
  <2>1. fan \in Nat /\ fans \in Nat /\ fan < fans /\ iter \in 0 .. Iterations - 1 /\ Iterations \in Nat
    BY <1>2, CountersAre, ConstantsAre DEF Types, Loop
  <2>2. d \in Nat /\ fans - fan = d + 1
    BY <2>1
  <2> HIDE DEF d
  <2>3. d * Iterations \in Nat /\ (d + 1) * Iterations = d * Iterations + Iterations
    BY <2>1, <2>2
  <2>4. (fans - fan) * Iterations = d * Iterations + Iterations
    BY <2>2, <2>3
  <2> QED
    BY <2>1, <2>3, <2>4 DEF HoldsLeft
<1>3. ASSUME Testing
      PROVE  (HoldsLeft - 1) * HoldSteps \in Nat
  <2>1. HoldsLeft - 1 \in Nat
    BY <1>2, <1>3
  <2> HIDE DEF HoldsLeft, HoldSteps
  <2> QED
    BY <1>1, <2>1
<1> QED
  BY <1>1, <1>2, <1>3

LEMMA StepsAre ==
    ASSUME Types, DataTypes, Loop
    PROVE  StepsLeft \in Nat
<1> DEFINE P == (HoldsLeft - 1) * HoldSteps
<1>1. /\ fans \in Nat /\ taken \in 0 .. SamplesPerHold /\ SamplesPerHold \in Nat /\ released \in Nat
      /\ Cardinality(retried) \in 0 .. 2
  <2>1. released \in 0 .. MaxFans /\ taken \in 0 .. SamplesPerHold
    BY DEF Types, DataTypes
  <2>2. Cardinality(retried) \in 0 .. 2
    BY RetriesAre
  <2> QED
    BY <2>1, <2>2, CountersAre, ConstantsAre
<1>2. Testing => P \in Nat
  BY HoldsAre
<1>3. CASE pc = "start"
  <2>1. 2 * MaxFans * Iterations * HoldSteps \in Nat
    <3>1. 2 * MaxFans \in Nat /\ Iterations \in Nat /\ HoldSteps \in Nat
      BY ConstantsAre, HoldsAre
    <3>2. 2 * MaxFans * Iterations \in Nat
      BY <3>1
    <3> QED
      BY <3>1, <3>2
  <2>2. StepsLeft = 2 * MaxFans * Iterations * HoldSteps + MaxFans + 2
    BY <1>3 DEF StepsLeft
  <2> QED
    BY <2>1, <2>2, ConstantsAre
<1>4. CASE Testing
  <2>1. P \in Nat
    BY <1>2, <1>4
  <2>2. StepsLeft \in {P + fans + 1 + SamplesPerHold + 4 + (2 - Cardinality(retried)),
                       P + fans + 1 + SamplesPerHold + 1 + (2 - Cardinality(retried)),
                       P + fans + 1 + SamplesPerHold - taken}
    BY <1>4 DEF StepsLeft, Testing
  <2> HIDE DEF P
  <2> QED
    BY <1>1, <2>1, <2>2
<1>5. CASE pc = "release"
  <2>1. released <= fans /\ StepsLeft = fans - released + 1
    BY <1>5 DEF Loop, StepsLeft
  <2> QED
    BY <1>1, <2>1
<1>6. CASE pc = "exited"
  BY <1>6 DEF StepsLeft
<1> QED
  BY <1>3, <1>4, <1>5, <1>6 DEF Types, Testing

\* The hold behind this one has fewer steps left than this one, whatever it takes.
LEMMA NextHoldIsLess ==
    ASSUME Types, DataTypes, Loop, Testing, HoldsLeft' = HoldsLeft - 1, UNCHANGED fans,
           pc = "hold", pc' = "write", UNCHANGED retried, Loop', Types', DataTypes'
    PROVE  StepsLeft' < StepsLeft
<1> DEFINE P == (HoldsLeft - 1) * HoldSteps
           Q == (HoldsLeft' - 1) * HoldSteps
<1>1. HoldSteps \in Nat /\ HoldSteps = SamplesPerHold + 6 /\ SamplesPerHold \in Nat
  BY HoldsAre, ConstantsAre
<1>2. HoldsLeft \in Nat /\ P \in Nat
  BY HoldsAre
<1>3. Q = P - HoldSteps
  <2>1. \A n \in Int, h \in Int : (n - 1 - 1) * h = (n - 1) * h - h
    OBVIOUS
  <2>2. Q = (HoldsLeft - 1 - 1) * HoldSteps
    OBVIOUS
  <2> QED
    BY <1>1, <1>2, <2>1, <2>2
<1>4. StepsLeft = P + fans + 1 + SamplesPerHold - taken
  BY DEF StepsLeft
<1>5. StepsLeft' = Q + fans + 1 + SamplesPerHold + 4 + (2 - Cardinality(retried))
  BY DEF StepsLeft, HoldSteps
<1>6. /\ fans \in Nat /\ taken \in Nat /\ taken < SamplesPerHold /\ Cardinality(retried) \in 0 .. 2
  BY CountersAre, RetriesAre DEF Loop
<1> HIDE DEF P, Q
<1> QED
  BY <1>1, <1>2, <1>3, <1>4, <1>5, <1>6

LEMMA ProductsGrow ==
    \A a, b, n \in Nat : a <= b => a * n \in Nat /\ b * n \in Nat /\ a * n <= b * n
<1> SUFFICES ASSUME NEW a \in Nat, NEW b \in Nat, NEW n \in Nat, a <= b
             PROVE  a * n \in Nat /\ b * n \in Nat /\ a * n <= b * n
  OBVIOUS
<1>1. PICK d \in Nat : b = a + d
  <2>1. b - a \in Nat /\ b = a + (b - a)
    OBVIOUS
  <2> QED
    BY <2>1
<1>2. b * n = a * n + d * n /\ a * n \in Nat /\ d * n \in Nat
  BY <1>1
<1> QED
  BY <1>2

\* As many holds are left at the start as a machine with all its fans has, at most.
LEMMA FirstHoldIsLess ==
    ASSUME Types, DataTypes, Loop, pc = "start", pc' = "write", fans' \in 0 .. MaxFans,
           UNCHANGED <<fan, iter, half, retried>>
    PROVE  StepsLeft' < StepsLeft
<1>1. /\ HoldSteps \in Nat /\ HoldSteps = SamplesPerHold + 6 /\ SamplesPerHold \in Nat
      /\ MaxFans \in Nat /\ Iterations \in Nat /\ fans' \in Nat /\ fans' <= MaxFans
      /\ Cardinality(retried) \in 0 .. 2
  <2>1. Cardinality(retried) \in 0 .. 2
    BY RetriesAre
  <2>2. HoldSteps \in Nat /\ HoldSteps = SamplesPerHold + 6
    BY HoldsAre
  <2> QED
    BY <2>1, <2>2, ConstantsAre
<1>2. fan = 0 /\ iter = 0 /\ half = "min"
  BY DEF Loop
<1> DEFINE N == 2 * (fans' * Iterations)
           M == 2 * (MaxFans * Iterations)
<1>3. HoldsLeft' = N
  <2>1. HoldsLeft' = 2 * ((fans' - 0) * Iterations - 0) - 0
    BY <1>2 DEF HoldsLeft
  <2>2. (fans' - 0) * Iterations = fans' * Iterations /\ fans' * Iterations \in Int
    BY <1>1
  <2> QED
    BY <2>1, <2>2
<1>4. N \in Nat /\ M \in Nat /\ N <= M
  <2>1. fans' * Iterations \in Nat /\ MaxFans * Iterations \in Nat /\ fans' * Iterations <= MaxFans * Iterations
    BY <1>1, ProductsGrow
  <2> QED
    BY <2>1
<1>5. StepsLeft = M * HoldSteps + MaxFans + 2
  <2>1. 2 * MaxFans * Iterations = M
    BY <1>1
  <2>2. StepsLeft = 2 * MaxFans * Iterations * HoldSteps + MaxFans + 2
    BY DEF StepsLeft
  <2> QED
    BY <2>1, <2>2
<1>6. StepsLeft' = (N - 1) * HoldSteps + fans' + 1 + SamplesPerHold + 4 + (2 - Cardinality(retried))
  BY <1>3 DEF StepsLeft, HoldSteps
<1> HIDE DEF N, M, HoldSteps
<1>7. (N - 1) * HoldSteps = N * HoldSteps - HoldSteps /\ N * HoldSteps \in Int
  BY <1>1, <1>4
<1>8. N * HoldSteps <= M * HoldSteps
  BY <1>1, <1>4, ProductsGrow
<1>9. M * HoldSteps \in Int
  BY <1>1, <1>4
<1> QED
  BY <1>1, <1>5, <1>6, <1>7, <1>8, <1>9

LEMMA ProgramCountsDown ==
    ASSUME Types, DataTypes, Loop, Types', DataTypes', Loop', Program
    PROVE  StepsLeft' < StepsLeft
<1> USE DEF At, Goto
<1>0. /\ fans \in Nat /\ fan \in Nat /\ iter \in Nat /\ Iterations \in Nat
      /\ taken \in Nat /\ SamplesPerHold \in Nat /\ released \in Nat /\ MaxFans \in Nat
      /\ Cardinality(retried) \in 0 .. 2 /\ Cardinality({}) = 0
      /\ StepsLeft \in Nat
      /\ Testing => (HoldsLeft - 1) * HoldSteps \in Nat
  <2>1. released \in 0 .. MaxFans
    BY DEF Types
  <2> QED
    <3>1. Cardinality(retried) \in 0 .. 2 /\ Cardinality({}) = 0
      BY RetriesAre
    <3>2. StepsLeft \in Nat
      BY StepsAre
    <3>3. Testing => (HoldsLeft - 1) * HoldSteps \in Nat
      BY HoldsAre
    <3> QED
      BY <2>1, <3>1, <3>2, <3>3, CountersAre, ConstantsAre
<1>s. pc = "start" => StepsLeft >= MaxFans + 2
  <2> SUFFICES ASSUME pc = "start"
               PROVE  StepsLeft >= MaxFans + 2
    OBVIOUS
  <2>1. 2 * MaxFans * Iterations * HoldSteps \in Nat
    <3>1. 2 * MaxFans \in Nat /\ HoldSteps \in Nat
      BY <1>0, HoldsAre
    <3>2. 2 * MaxFans * Iterations \in Nat
      BY <1>0, <3>1
    <3> QED
      BY <3>1, <3>2
  <2>2. StepsLeft = 2 * MaxFans * Iterations * HoldSteps + MaxFans + 2
    BY DEF StepsLeft
  <2> QED
    BY <1>0, <2>1, <2>2
<1>1. CASE RejectArguments \/ AcquireFails \/ Leave
  <2>1. pc' = "exited" /\ StepsLeft' = 0 /\ pc \in {"start", "release"}
    BY <1>1 DEF RejectArguments, AcquireFails, Refuse, Leave, StepsLeft
  <2>2. pc = "release" => StepsLeft >= 1
    BY <1>0 DEF StepsLeft, Loop
  <2> QED
    BY <1>0, <1>s, <2>1, <2>2
<1>2. CASE Acquire
  <2>1. /\ pc = "start" /\ pc' \in {"write", "release"} /\ fans' \in 0 .. MaxFans
        /\ UNCHANGED <<fan, iter, half, retried, released>>
    BY <1>2 DEF Acquire, ending
  <2>2. CASE pc' = "write"
    BY <2>1, <2>2, FirstHoldIsLess
  <2>3. CASE pc' = "release"
    <3>1. StepsLeft' = fans' + 1
      <4>1. released' = 0
        BY <2>1 DEF Loop
      <4> QED
        BY <2>1, <2>3, <4>1 DEF StepsLeft
    <3>2. \A f \in 0 .. MaxFans : f + 1 < StepsLeft
      BY <1>0, <1>s, <2>1
    <3>3. fans' + 1 < StepsLeft
      BY <2>1, <3>2
    <3> QED
      BY <3>1, <3>3
  <2> QED
    BY <2>1, <2>2, <2>3
<1>3. CASE \E why \in {"busy", "timed out"} : Retry(why)
  <2>2. /\ pc \in {"write", "read back"} /\ UNCHANGED <<pc, fans, fan, iter, half>>
        /\ Cardinality(retried') = Cardinality(retried) + 1
    BY <1>3, RetriesAre DEF Retry, loop
  <2>3. HoldsLeft' = HoldsLeft
    BY <2>2 DEF HoldsLeft
  <2> DEFINE later == (HoldsLeft - 1) * HoldSteps + fans + 1
  <2>4. later \in Int
    <3> DEFINE P == (HoldsLeft - 1) * HoldSteps
    <3>1. P \in Nat
      BY <1>0, <2>2 DEF Testing
    <3> HIDE DEF P
    <3>2. fans \in Nat
      BY <1>0
    <3>3. P + fans + 1 \in Int
      BY <3>1, <3>2
    <3> QED
      BY <3>3 DEF P
  <2>5. \/ /\ StepsLeft = later + SamplesPerHold + 4 + (2 - Cardinality(retried))
           /\ StepsLeft' = later + SamplesPerHold + 4 + (2 - Cardinality(retried'))
        \/ /\ StepsLeft = later + SamplesPerHold + 1 + (2 - Cardinality(retried))
           /\ StepsLeft' = later + SamplesPerHold + 1 + (2 - Cardinality(retried'))
    BY <2>2, <2>3 DEF StepsLeft, HoldSteps
  <2> HIDE DEF later
  <2>6. Cardinality(retried) \in 0 .. 2 /\ SamplesPerHold \in Nat
    BY <1>0
  <2>7. Cardinality(retried') = Cardinality(retried) + 1
    BY <2>2
  <2> QED
    BY <2>4, <2>5, <2>6, <2>7
<1>4. CASE WriteDone
  <2>1. /\ pc = "write" /\ pc' = "read back" /\ UNCHANGED <<fans, fan, iter, half>> /\ retried' = {}
    BY <1>4 DEF WriteDone, loop
  <2>2. HoldsLeft' = HoldsLeft
    BY <2>1 DEF HoldsLeft
  <2> DEFINE later == (HoldsLeft - 1) * HoldSteps + fans + 1
  <2>3. later \in Int
    <3> DEFINE P == (HoldsLeft - 1) * HoldSteps
    <3>1. P \in Nat
      BY <1>0, <2>1 DEF Testing
    <3> HIDE DEF P
    <3>2. P + fans + 1 \in Int
      BY <1>0, <3>1
    <3> QED
      BY <3>2 DEF P
  <2>4. /\ StepsLeft = later + SamplesPerHold + 4 + (2 - Cardinality(retried))
        /\ StepsLeft' = later + SamplesPerHold + 1 + (2 - Cardinality({}))
    BY <2>1, <2>2 DEF StepsLeft, HoldSteps
  <2> HIDE DEF later
  <2> QED
    BY <1>0, <2>3, <2>4
<1>5. CASE ReadBackMatches
  <2>1. /\ pc = "read back" /\ pc' = "hold" /\ UNCHANGED <<fans, fan, iter, half>> /\ taken' = 0
    BY <1>5 DEF ReadBackMatches, loop
  <2>2. HoldsLeft' = HoldsLeft
    BY <2>1 DEF HoldsLeft
  <2> DEFINE later == (HoldsLeft - 1) * HoldSteps + fans + 1
  <2>3. later \in Int
    <3> DEFINE P == (HoldsLeft - 1) * HoldSteps
    <3>1. P \in Nat
      BY <1>0, <2>1 DEF Testing
    <3> HIDE DEF P
    <3>2. P + fans + 1 \in Int
      BY <1>0, <3>1
    <3> QED
      BY <3>2 DEF P
  <2>4. /\ StepsLeft = later + SamplesPerHold + 1 + (2 - Cardinality(retried))
        /\ StepsLeft' = later + SamplesPerHold - 0
    BY <2>1, <2>2 DEF StepsLeft, HoldSteps
  <2> HIDE DEF later
  <2> QED
    BY <1>0, <2>3, <2>4
<1>6. CASE \/ ReadBackDiffers
           \/ \E why \in {"busy", "timed out", "other"} : WriteFails(why) \/ ReadBackFails(why)
  <2>1. pc \in {"write", "read back"} /\ pc' = "release" /\ UNCHANGED <<fans, released>>
    BY <1>6 DEF ReadBackDiffers, WriteFails, ReadBackFails, Abort, loop, ending
  <2>2. Testing /\ released = 0
    BY <2>1 DEF Testing, Loop
  <2>3. StepsLeft' = fans - 0 + 1
    BY <2>1, <2>2 DEF StepsLeft
  <2> DEFINE P == (HoldsLeft - 1) * HoldSteps
  <2>4. P \in Nat
    BY <1>0, <2>2
  <2>5. StepsLeft \in {P + fans + 1 + SamplesPerHold + 4 + (2 - Cardinality(retried)),
                       P + fans + 1 + SamplesPerHold + 1 + (2 - Cardinality(retried))}
    BY <2>1 DEF StepsLeft
  <2> HIDE DEF P
  <2> QED
    BY <1>0, <2>3, <2>4, <2>5
<1>7. CASE \E v \in Speeds : TakeSample(v)
  <2>1. /\ pc = "hold" /\ UNCHANGED <<pc, fans, fan, iter, half>> /\ taken' = taken + 1
    BY <1>7 DEF TakeSample, Sample, loop
  <2>2. HoldsLeft' = HoldsLeft
    BY <2>1 DEF HoldsLeft
  <2> DEFINE later == (HoldsLeft - 1) * HoldSteps + fans + 1
  <2>3. later \in Int
    <3> DEFINE P == (HoldsLeft - 1) * HoldSteps
    <3>1. P \in Nat
      BY <1>0, <2>1 DEF Testing
    <3> HIDE DEF P
    <3>2. P + fans + 1 \in Int
      BY <1>0, <3>1
    <3> QED
      BY <3>2 DEF P
  <2>4. /\ StepsLeft = later + SamplesPerHold - taken
        /\ StepsLeft' = later + SamplesPerHold - (taken + 1)
    BY <2>1, <2>2 DEF StepsLeft, HoldSteps
  <2> HIDE DEF later
  <2> QED
    BY <1>0, <2>3, <2>4
<1>q. Testing => (fans - fan) * Iterations \in Int
  BY <1>0
<1>8. CASE \E v \in Speeds : EndMinHold(v) \/ EndIteration(v)
  <2>1. /\ pc = "hold" /\ pc' = "write" /\ UNCHANGED <<fans, fan, retried>>
        /\ \/ half = "min" /\ half' = "auto" /\ iter' = iter
           \/ half = "auto" /\ half' = "min" /\ iter' = iter + 1
    BY <1>8 DEF EndMinHold, EndIteration
  <2>2. Testing
    BY <2>1 DEF Testing
  <2>3. HoldsLeft' = HoldsLeft - 1
    <3> DEFINE q == (fans - fan) * Iterations
    <3>1. q \in Int
      BY <1>q, <2>2
    <3>2. /\ HoldsLeft = 2 * (q - iter) - (IF half = "min" THEN 0 ELSE 1)
          /\ HoldsLeft' = 2 * (q - iter') - (IF half' = "min" THEN 0 ELSE 1)
      BY <2>1 DEF HoldsLeft
    <3> HIDE DEF q
    <3> QED
      BY <1>0, <2>1, <3>1, <3>2
  <2> QED
    BY <2>1, <2>2, <2>3, NextHoldIsLess
<1>9. CASE \E v \in Speeds : EndFan(v)
  <2>1. PICK v \in Speeds : EndFan(v)
    BY <1>9
  <2>2. pc = "hold" /\ half = "auto" /\ iter + 1 = Iterations /\ UNCHANGED <<fans, retried, released>>
    BY <2>1 DEF EndFan, ending
  <2>3. Testing /\ released = 0 /\ taken < SamplesPerHold
    BY <2>2 DEF Testing, Loop
  <2>4. CASE fan + 1 < fans
    <3>1. pc' = "write" /\ fan' = fan + 1 /\ iter' = 0 /\ half' = "min"
      BY <2>1, <2>4 DEF EndFan
    <3>2. HoldsLeft' = HoldsLeft - 1
      <4> DEFINE q == (fans - fan) * Iterations
                 r == (fans - (fan + 1)) * Iterations
      <4>1. q \in Int /\ r = q - Iterations
        <5>1. \A a, b, n \in Int : (a - (b + 1)) * n = (a - b) * n - n /\ (a - b) * n \in Int
          OBVIOUS
        <5> QED
          BY <1>0, <5>1
      <4>2. HoldsLeft = 2 * (q - iter) - 1 /\ HoldsLeft' = 2 * (r - 0) - 0
        BY <2>2, <3>1 DEF HoldsLeft
      <4> HIDE DEF q, r
      <4> QED
        BY <1>0, <2>2, <4>1, <4>2
    <3> QED
      BY <2>2, <2>3, <3>1, <3>2, NextHoldIsLess
  <2>5. CASE ~(fan + 1 < fans)
    <3>1. pc' = "release"
      BY <2>1, <2>5 DEF EndFan
    <3>2. StepsLeft' = fans - 0 + 1
      BY <2>2, <2>3, <3>1 DEF StepsLeft
    <3> DEFINE P == (HoldsLeft - 1) * HoldSteps
    <3>3. P \in Nat /\ StepsLeft = P + fans + 1 + SamplesPerHold - taken
      BY <1>0, <2>2, <2>3 DEF StepsLeft
    <3> HIDE DEF P
    <3> QED
      BY <1>0, <2>3, <3>2, <3>3
  <2> QED
    BY <2>4, <2>5
<1>10. CASE \E ok \in BOOLEAN : ReleaseFan(ok)
  <2>1. /\ pc = "release" /\ released < fans /\ released' = released + 1 /\ UNCHANGED <<pc, fans>>
    BY <1>10 DEF ReleaseFan, loop
  <2>2. StepsLeft = fans - released + 1 /\ StepsLeft' = fans - (released + 1) + 1
    BY <2>1 DEF StepsLeft
  <2> QED
    BY <1>0, <2>1, <2>2
<1> QED
  BY <1>1, <1>2, <1>3, <1>4, <1>5, <1>6, <1>7, <1>8, <1>9, <1>10 DEF Program

\* For any number of fans, iterations and samples, each step of the program leaves
\* fewer of them, so that none of its loops can go on for ever.
THEOREM SelftestStepsCountDown == Spec => StepsCountDown
<1>1. Types /\ DataTypes /\ Loop => StepsLeft \in Nat
  BY StepsAre
<1>2. ASSUME Types, DataTypes, Loop, Types', DataTypes', Loop', StepsLeft \in Nat, (StepsLeft \in Nat)', [Next]_vars
      PROVE  [/\ StepsLeft' \in 0 .. StepsLeft /\ (Program => StepsLeft' < StepsLeft)]_vars
  <2>1. CASE Program
    BY <1>2, <2>1, ProgramCountsDown
  <2>2. CASE ~Program
    <3>1. UNCHANGED <<pc, fans, fan, iter, half, retried, taken, released>>
      BY <1>2, <2>2 DEF Next, TakeBack, vars, loop, data, ending
    <3>2. StepsLeft' = StepsLeft
      BY <3>1 DEF StepsLeft, HoldsLeft, HoldSteps
    <3> QED
      BY <1>2, <2>2, <3>2
  <2> QED
    BY <2>1, <2>2
<1> QED
  BY <1>1, <1>2, Started, TypesKept, DataTypesKept, LoopKept, PTL DEF Spec, StepsCountDown
=============================================================================
