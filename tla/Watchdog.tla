------------------------------ MODULE Watchdog ------------------------------
(***************************************************************************)
(* Time in a session that holds a fan: the main thread's loop, which beats *)
(* once a round, and the watchdog thread, which sends SIGTERM to its own   *)
(* process when the last beat is too old.  WriteSession says what the      *)
(* SIGTERM does; here it is the end of the story.                          *)
(*                                                                         *)
(* Clocks are relative, in a common unit.  A sleep lasts as long as it     *)
(* should, or up to Late longer; the wall clock that beats are stamped     *)
(* with is taken to be steady.                                             *)
(***************************************************************************)
EXTENDS Integers

CONSTANTS
    Interval,   \* poll_interval_ms of the configuration
    MinSleep,   \* the shortest sleep between two ticks: 10 ms
    HoldPeriod, \* the sleep of set's hold_loop: 500 ms
    Work,       \* the longest a healthy round works
    Late,       \* the longest a sleep may overrun
    Deadline,   \* WATCHDOG_DEADLINE: 4 s
    Poll        \* WATCHDOG_POLL_INTERVAL: 250 ms

ASSUME WatchdogAssumption ==
    /\ Interval \in Nat /\ MinSleep \in Nat /\ HoldPeriod \in Nat
    /\ Work \in Nat /\ Late \in Nat /\ Poll \in Nat
    /\ Deadline \in Nat \ {0}

VARIABLES
    loop,       \* "run" or "hold": the loop the command is in
    main,       \* "work", "sleep" or "stalled"
    worked,     \* how long the round has worked
    left,       \* how long main still sleeps; below 0 when it is late
    watchdog,   \* "none", "armed" or "fired"
    beat,       \* the age of the last heartbeat, once there is a watchdog
    wait        \* how long the watchdog still sleeps

vars == <<loop, main, worked, left, watchdog, beat, wait>>

Init ==
    /\ loop \in {"run", "hold"} /\ main = "work" /\ worked = 0 /\ left = 0
    /\ watchdog = "none" /\ beat = 0 /\ wait = 0

\* begin_diagnostic_unlock, in the first commit: the session is created, beats and
\* spawns the thread, which sleeps first.
Arm ==
    /\ main = "work" /\ watchdog = "none"
    /\ watchdog' = "armed" /\ beat' = 0 /\ wait' = Poll
    /\ UNCHANGED <<loop, main, worked, left>>

HeartbeatForgotten == beat' = beat                               \* mutant

\* Whatever came of the writes of the round.
Heartbeat == beat' = 0

SleepUnbounded == Interval - worked                              \* mutant

SleepTime == IF Interval - worked > MinSleep THEN Interval - worked ELSE MinSleep

\* run: the end of a tick.
EndTick ==
    /\ loop = "run" /\ main = "work"
    /\ Heartbeat
    /\ main' = "sleep" /\ left' = SleepTime
    /\ UNCHANGED <<loop, worked, watchdog, wait>>

StartTick ==
    /\ loop = "run" /\ main = "sleep" /\ left <= 0
    /\ main' = "work" /\ worked' = 0 /\ left' = 0
    /\ UNCHANGED <<loop, watchdog, beat, wait>>

\* set: the commit is done, the loop sleeps before it beats.
EnterHold ==
    /\ loop = "hold" /\ main = "work" /\ watchdog # "none"
    /\ main' = "sleep" /\ left' = HoldPeriod
    /\ UNCHANGED <<loop, worked, watchdog, beat, wait>>

HoldRound ==
    /\ loop = "hold" /\ main = "sleep" /\ left <= 0
    /\ Heartbeat
    /\ left' = HoldPeriod
    /\ UNCHANGED <<loop, main, worked, watchdog, wait>>

\* A call to the SMC does not return, or the thread does not run any more.
Stall ==
    /\ main # "stalled" /\ main' = "stalled"
    /\ UNCHANGED <<loop, worked, left, watchdog, beat, wait>>

ExpiredLate == beat > Deadline                                   \* mutant

Expired == beat >= Deadline

\* watchdog_loop: SIGTERM and park, or sleep again.
WatchdogPolls ==
    /\ watchdog = "armed" /\ wait <= 0
    /\ IF Expired THEN watchdog' = "fired" /\ wait' = wait
                  ELSE watchdog' = watchdog /\ wait' = Poll
    /\ UNCHANGED <<loop, main, worked, left, beat>>

\* A unit of time, which no thread may sleep or work through.
Advance ==
    /\ watchdog # "fired"
    /\ main = "work" => worked < Work
    /\ main = "sleep" => left > -Late
    /\ watchdog = "armed" => wait > -Late
    /\ worked' = IF main = "work" THEN worked + 1 ELSE worked
    /\ left' = IF main = "sleep" THEN left - 1 ELSE left
    /\ wait' = IF watchdog = "armed" THEN wait - 1 ELSE wait
    /\ beat' = IF watchdog = "armed" THEN beat + 1 ELSE beat
    /\ UNCHANGED <<loop, main, watchdog>>

Next ==
    \/ Arm \/ EndTick \/ StartTick \/ EnterHold \/ HoldRound
    \/ Stall \/ WatchdogPolls \/ Advance

Spec == Init /\ [][Next]_vars

-----------------------------------------------------------------------------
(* Properties.                                                               *)

\* The timers keep their ranges; a sleep between two ticks is never negative,
\* however long the tick (run.rs).
TypeOK ==
    /\ loop \in {"run", "hold"} /\ main \in {"work", "sleep", "stalled"}
    /\ watchdog \in {"none", "armed", "fired"}
    /\ worked \in 0 .. Work
    /\ left \in Int /\ left >= -Late
    /\ wait \in Int /\ wait >= -Late /\ wait <= Poll
    /\ beat \in Nat

\* unlock.rs: the watchdog "forces teardown if the main tick stalls for more than 4
\* seconds".  It never sends SIGTERM to a process whose main thread is healthy.
FiresOnlyOnStall == watchdog = "fired" => main = "stalled"

\* unlock.rs: "worst-case teardown latency of 4.25 s".  While the watchdog waits the
\* last heartbeat is younger than the deadline, one poll and the poll's delay: a
\* stall is answered within that time, wherever it falls between beats and polls.
StallCaughtInTime == watchdog = "armed" => beat < Deadline + Poll + Late

=============================================================================
