--------------------------- MODULE WatchdogProofs ---------------------------
(***************************************************************************)
(* The two promises of unlock.rs for every choice of periods and delays:   *)
(* a stall is answered within the deadline and one poll, and a healthy     *)
(* loop is left alone, the second if the loop's round fits the deadline.   *)
(***************************************************************************)
EXTENDS Watchdog, TLAPS

\* The timers keep their ranges.
THEOREM TypeCorrect == Spec => []TypeOK
<1>1. Init => TypeOK
  BY WatchdogAssumption DEF Init, TypeOK
<1>2. TypeOK /\ [Next]_vars => TypeOK'
  <2> SUFFICES ASSUME TypeOK, [Next]_vars
               PROVE  TypeOK'
    OBVIOUS
  <2> USE WatchdogAssumption DEF TypeOK
  <2>1. CASE Arm
    BY <2>1 DEF Arm
  <2>2. CASE EndTick
    BY <2>2 DEF EndTick, Heartbeat, SleepTime
  <2>3. CASE StartTick
    BY <2>3 DEF StartTick
  <2>4. CASE EnterHold
    BY <2>4 DEF EnterHold
  <2>5. CASE HoldRound
    BY <2>5 DEF HoldRound, Heartbeat
  <2>6. CASE Stall
    BY <2>6 DEF Stall
  <2>7. CASE WatchdogPolls
    BY <2>7 DEF WatchdogPolls
  <2>8. CASE Advance
    BY <2>8 DEF Advance
  <2>9. CASE UNCHANGED vars
    BY <2>9 DEF vars
  <2> QED
    BY <2>1, <2>2, <2>3, <2>4, <2>5, <2>6, <2>7, <2>8, <2>9 DEF Next
<1> QED
  BY <1>1, <1>2, PTL DEF Spec

-----------------------------------------------------------------------------
(* A stall is caught.                                                        *)

\* At the last poll the beat was younger than the deadline; it has aged by what the
\* thread has slept since.
PollInv == watchdog = "armed" => beat + wait < Deadline + Poll

LEMMA PollNext == TypeOK /\ PollInv /\ [Next]_vars => PollInv'
<1> SUFFICES ASSUME TypeOK, PollInv, [Next]_vars
             PROVE  PollInv'
  OBVIOUS
<1> USE WatchdogAssumption DEF TypeOK, PollInv
<1>1. CASE Arm
  BY <1>1 DEF Arm
<1>2. CASE EndTick
  BY <1>2 DEF EndTick, Heartbeat
<1>3. CASE StartTick
  BY <1>3 DEF StartTick
<1>4. CASE EnterHold
  BY <1>4 DEF EnterHold
<1>5. CASE HoldRound
  BY <1>5 DEF HoldRound, Heartbeat
<1>6. CASE Stall
  BY <1>6 DEF Stall
<1>7. CASE WatchdogPolls
  BY <1>7 DEF WatchdogPolls, Expired
<1>8. CASE Advance
  BY <1>8 DEF Advance
<1>9. CASE UNCHANGED vars
  BY <1>9 DEF vars
<1> QED
  BY <1>1, <1>2, <1>3, <1>4, <1>5, <1>6, <1>7, <1>8, <1>9 DEF Next

\* Whatever the loop does, an armed watchdog has never waited longer than the
\* deadline, one poll and the delay of that poll.
THEOREM StallIsCaught == Spec => []StallCaughtInTime
<1>1. Init => PollInv
  BY DEF Init, PollInv
<1>2. TypeOK /\ PollInv => StallCaughtInTime
  BY WatchdogAssumption DEF TypeOK, PollInv, StallCaughtInTime
<1> QED
  BY TypeCorrect, PollNext, <1>1, <1>2, PTL DEF Spec

-----------------------------------------------------------------------------
(* A healthy loop is left alone.                                             *)

\* A sleep, its delay and the work that follows fit the deadline, in each loop.
RoundFits ==
    /\ Interval + Late + Work < Deadline
    /\ MinSleep + Late + Work < Deadline
    /\ HoldPeriod + Late + Work < Deadline

\* The longest sleep between two ticks.
LongestSleep == IF Interval > MinSleep THEN Interval ELSE MinSleep

\* How old the last beat may be, by where main is in its round.
HealthyInv ==
    /\ watchdog = "fired" => main = "stalled"
    /\ watchdog = "armed" =>
          /\ main = "work" => \/ beat <= worked
                              \/ loop = "run" /\ beat <= LongestSleep + Late + worked
          /\ main = "sleep" /\ loop = "run" => beat + left <= LongestSleep
          /\ main = "sleep" /\ loop = "hold" => beat + left <= HoldPeriod + Work

LEMMA HealthyNext == RoundFits /\ TypeOK /\ HealthyInv /\ [Next]_vars => HealthyInv'
<1> SUFFICES ASSUME RoundFits, TypeOK, HealthyInv, [Next]_vars
             PROVE  HealthyInv'
  OBVIOUS
<1> USE WatchdogAssumption DEF TypeOK, HealthyInv, LongestSleep
<1>1. CASE Arm
  BY <1>1 DEF Arm
<1>2. CASE EndTick
  BY <1>2 DEF EndTick, Heartbeat, SleepTime
<1>3. CASE StartTick
  BY <1>3 DEF StartTick
<1>4. CASE EnterHold
  BY <1>4 DEF EnterHold
<1>5. CASE HoldRound
  BY <1>5 DEF HoldRound, Heartbeat
<1>6. CASE Stall
  BY <1>6 DEF Stall
<1>7. CASE WatchdogPolls
  BY <1>7 DEF WatchdogPolls, Expired, RoundFits
<1>8. CASE Advance
  BY <1>8 DEF Advance
<1>9. CASE UNCHANGED vars
  BY <1>9 DEF vars
<1> QED
  BY <1>1, <1>2, <1>3, <1>4, <1>5, <1>6, <1>7, <1>8, <1>9 DEF Next

\* If a round fits the deadline, SIGTERM is sent to a stalled process only.
THEOREM HealthyIsLeftAlone == ASSUME RoundFits PROVE Spec => []FiresOnlyOnStall
<1>1. Init => HealthyInv
  BY DEF Init, HealthyInv
<1>2. TypeOK /\ HealthyInv /\ [Next]_vars => HealthyInv'
  BY HealthyNext
<1>3. HealthyInv => FiresOnlyOnStall
  BY DEF HealthyInv, FiresOnlyOnStall
<1> QED
  BY TypeCorrect, <1>1, <1>2, <1>3, PTL DEF Spec

=============================================================================
