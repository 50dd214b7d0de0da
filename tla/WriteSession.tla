---------------------------- MODULE WriteSession ----------------------------
(***************************************************************************)
(* One fand process that holds a WriteSession: the main thread running a   *)
(* command (set, set --dry-run, selftest, run, run --once), the signal     *)
(* thread, the watchdog thread and the panic hook, all of them writing the *)
(* mode keys of the fans and the unlock key Ftst of the SMC.               *)
(*                                                                         *)
(* A step is one call into the SMC, one atomic operation on a shared flag, *)
(* or the straight-line code between two of them.  Time is abstracted: the *)
(* watchdog may find its deadline passed at any poll (module Watchdog      *)
(* bounds when).  A process starts with the fans in any mode, because an   *)
(* earlier process may have been killed while it held one.                 *)
(***************************************************************************)
EXTENDS Naturals

CONSTANTS
    NumFans,    \* how many fans enumerate_fans finds (FNum)
    Commands,   \* the commands the process may be started with
    Signals     \* the signals it may be sent

ASSUME NumFansAssumption == NumFans \in Nat

ASSUME CommandsAssumption ==
    Commands \subseteq {"set", "dry-run", "selftest", "run", "run-once"}

\* SIGINT is handled as SIGTERM and stands under the same name; SIGINFO only
\* logs.
ASSUME SignalsAssumption == Signals \subseteq {"TERM", "HUP"}

Fans == 0 .. NumFans - 1

VARIABLES
    \* the SMC
    md,               \* md[f]: key F<f>md, "auto" (0) or "forced" (1)
    ftst,             \* key Ftst: "locked" (0), "unlocked" (1) or "absent"
    \* the process
    cmd,              \* the command it runs
    ending,           \* "none" while it lives, then how it ended
    flock,            \* whether it holds the lock file
    pending,          \* signals sent to it and not yet delivered
    \* the session
    conn,             \* whether the main connection is open
    hook,             \* whether the panic hook is sealed and installed
    masked,           \* whether the main thread blocks the signals
    unlock,           \* whether `unlock` is Some
    tear_down_once,   \* the flag every teardown path should win first
    watchdog_stop,    \* set when the unlock is released
    reload_requested, \* set by SIGHUP
    \* the threads
    pc, fan, val,     \* main: point of control, fan at hand, mode being written
    sig, sigFan,      \* signal thread: point of control, fan at hand
    wd,               \* watchdog thread: point of control
    \* history, read by properties only
    winner,           \* who won tear_down_once
    quiet,            \* the signal thread won it while main was in hold_loop
    failed,           \* fans whose latest release write returned an error
    ftstFailed        \* the same for Ftst

smc     == <<md, ftst>>
process == <<cmd, ending, flock, pending>>
session == <<conn, hook, masked, unlock, tear_down_once, watchdog_stop, reload_requested>>
main    == <<pc, fan, val>>
sigThread == <<sig, sigFan>>
history == <<winner, quiet, failed, ftstFailed>>
vars    == <<smc, process, session, main, sigThread, wd, history>>

AcquirePoints  == {"lock", "open", "spawn"}
CommandPoints  == {"ready", "tick", "ftst", "ftst-read", "target", "write", "read", "hold"}
ChecklistPoints == {"release", "stop", "relock", "force-ftst"}
LeavePoints    == {"teardown", "close", "drop", "exit"}
PanicPoints    == {"hook", "abort"}

FlagTypes ==
    /\ flock \in BOOLEAN /\ conn \in BOOLEAN /\ hook \in BOOLEAN /\ masked \in BOOLEAN
    /\ unlock \in BOOLEAN /\ tear_down_once \in BOOLEAN
    /\ watchdog_stop \in BOOLEAN /\ reload_requested \in BOOLEAN
    /\ quiet \in BOOLEAN /\ ftstFailed \in BOOLEAN

StateTypes ==
    /\ md \in [Fans -> {"auto", "forced"}]
    /\ ftst \in {"locked", "unlocked", "absent"}
    /\ cmd \in Commands
    /\ ending \in {"none", "error", "clean", "signal", "forced", "abort", "killed"}
    /\ pending \subseteq Signals \cup {"TERM"}
    /\ pc \in AcquirePoints \cup CommandPoints \cup ChecklistPoints
                \cup LeavePoints \cup PanicPoints
    /\ fan \in 0 .. NumFans
    /\ pc \in {"ftst", "ftst-read", "target", "write", "read"} => fan \in Fans
    /\ val \in {"auto", "forced"}
    /\ sig \in {"absent", "starting", "unmasked", "listening", "release", "exit", "gone"}
    /\ sigFan \in 0 .. NumFans
    /\ wd \in {"absent", "polling", "armed", "fired", "gone"}
    /\ winner \in {"none", "main", "signal"}
    /\ failed \subseteq Fans

\* Every variable has its type, and the main thread is inside a commit only with
\* a fan of the machine at hand.
TypeOK == FlagTypes /\ StateTypes

Init ==
    /\ md \in [Fans -> {"auto", "forced"}]
    /\ ftst \in {"locked", "unlocked", "absent"}
    /\ cmd \in Commands
    /\ ending = "none"
    /\ pending = {}
    /\ flock = FALSE /\ conn = FALSE /\ hook = FALSE /\ masked = FALSE
    /\ unlock = FALSE /\ tear_down_once = FALSE
    /\ watchdog_stop = FALSE /\ reload_requested = FALSE
    /\ pc = "lock" /\ fan = 0 /\ val = "forced"
    /\ sig = "absent" /\ sigFan = 0
    /\ wd = "absent"
    /\ winner = "none" /\ quiet = FALSE /\ failed = {} /\ ftstFailed = FALSE

Alive == ending = "none"

-----------------------------------------------------------------------------
(* Calls into the SMC.  A write succeeds, is refused, or its answer is lost  *)
(* (a timeout) after it took effect: the caller sees an error in both of the *)
(* last two.                                                                 *)

WriteOutcomes == {"ok", "refused", "lost"}

WriteMode(f, mode, outcome) ==
    /\ md' = [md EXCEPT ![f] = IF outcome = "refused" THEN @ ELSE mode]
    /\ failed' = IF mode = "auto" /\ outcome # "ok" THEN failed \cup {f}
                 ELSE IF outcome = "refused" THEN failed
                 ELSE failed \ {f}

\* A write to an absent key is refused (KeyNotFound).
WriteFtst(state, outcome) ==
    /\ ftst = "absent" => outcome = "refused"
    /\ ftst' = IF outcome = "refused" THEN ftst ELSE state
    /\ ftstFailed' = IF state = "locked" THEN outcome # "ok"
                     ELSE ftstFailed /\ outcome = "refused"

\* force_write_auto_mode, on whichever connection the caller owns.
ForceWriteLastMode(f, outcome) == WriteMode(f, val, outcome)      \* mutant

ForceWriteAutoMode(f, outcome) == WriteMode(f, "auto", outcome)

\* The loop of every release checklist visits fan f.
MoreFansButLast(f) == f + 1 < NumFans                             \* mutant
MoreFansPastEnd(f) == f <= NumFans                                \* mutant

MoreFans(f) == f < NumFans

-----------------------------------------------------------------------------
(* The shared flags.                                                         *)

\* compare_exchange(false, true) on tear_down_once succeeds.
TeardownWonAnyway == TRUE                                         \* mutant

TeardownWon == ~tear_down_once

\* start_watchdog
WatchdogNotStarted == UNCHANGED wd                                \* mutant

StartWatchdog == wd' = "polling"

-----------------------------------------------------------------------------
(* The end of the process: the kernel releases the lock and the connections, *)
(* and no thread takes a step any more.                                      *)

EndProcess(how) ==
    /\ ending' = how
    /\ flock' = FALSE
    /\ conn' = FALSE
    /\ UNCHANGED <<smc, cmd, pending, hook, masked, unlock, tear_down_once,
                   watchdog_stop, reload_requested, main, sigThread, wd, history>>

-----------------------------------------------------------------------------
(* The main thread: WriteSession::acquire.                                   *)

At(point) == Alive /\ pc = point

TakeLock ==
    /\ At("lock")
    /\ \/ /\ flock' = TRUE
          /\ pc' = "open"
          /\ UNCHANGED <<smc, cmd, ending, pending, session, fan, val, sigThread, wd, history>>
       \/ EndProcess("error")      \* ConflictDetected, or no permission

\* Opens the three connections, enumerates the fans, hands connection 3 to the
\* panic hook and blocks the signals.
OpenConnections ==
    /\ At("open")
    /\ \/ /\ conn' = TRUE /\ hook' = TRUE /\ masked' = TRUE
          /\ pc' = "spawn"
          /\ UNCHANGED <<smc, process, unlock, tear_down_once, watchdog_stop,
                         reload_requested, fan, val, sigThread, wd, history>>
       \/ EndProcess("error")      \* `?`: the guard and the connections are dropped

SpawnSignalThread ==
    /\ At("spawn")
    /\ sig' = "starting"
    /\ pc' = "ready"
    /\ UNCHANGED <<smc, process, session, fan, val, sigFan, wd, history>>

-----------------------------------------------------------------------------
(* The main thread: the commands.                                            *)

Goto(point, f, mode) ==
    /\ pc' = point
    /\ fan' = f
    /\ val' = mode

\* Where commit_set_fan(f, _) starts.
CommitPoint == IF unlock THEN "target" ELSE "ftst"

StartCommand ==
    /\ At("ready")
    /\ \/ /\ cmd = "set"
          /\ \E f \in Fans : Goto(CommitPoint, f, "forced")
       \/ /\ cmd = "selftest"
          /\ NumFans > 0
          /\ Goto("write", 0, "forced")
       \/ /\ cmd \in {"set", "dry-run", "selftest"}   \* no fan, --fan out of range, dry run
          /\ Goto("teardown", fan, val)
       \/ /\ cmd \in {"run", "run-once"}
          /\ Goto("tick", 0, "forced")
    /\ UNCHANGED <<smc, process, session, sigThread, wd, history>>

\* The configuration names a fan the machine has not: process::exit(1), no Drop.
ExitOnMissingFan ==
    /\ At("ready")
    /\ cmd \in {"run", "run-once"}
    /\ EndProcess("error")

\* One fan of a tick of `fand run`: on Auto nothing is written.
TickFan ==
    /\ At("tick")
    /\ fan < NumFans
    /\ \/ Goto("tick", fan + 1, "forced")
       \/ Goto(CommitPoint, fan, "forced")
    /\ UNCHANGED <<smc, process, session, sigThread, wd, history>>

TickEnd ==
    /\ At("tick")
    /\ fan = NumFans
    /\ Goto(IF cmd = "run-once" THEN "teardown" ELSE "tick", 0, "forced")
    /\ UNCHANGED <<smc, process, session, sigThread, wd, history>>

-----------------------------------------------------------------------------
(* The main thread: commit_set_fan, begin_diagnostic_unlock and run_selftest *)

\* An error of a verified write or of the unlock, as the command handles it:
\* set and selftest drop the session, run logs and goes on.
GiveUp ==
    IF cmd \in {"run", "run-once"} THEN Goto("tick", fan + 1, "forced")
                                   ELSE Goto("teardown", fan, val)

\* begin_diagnostic_unlock succeeded: session and watchdog thread exist.
HoldUnlock ==
    /\ unlock' = TRUE
    /\ StartWatchdog
    /\ Goto("target", fan, val)
    /\ UNCHANGED <<conn, hook, masked, tear_down_once, watchdog_stop, reload_requested>>

UnlockWrite ==
    /\ At("ftst")
    /\ \E outcome \in WriteOutcomes :
          /\ WriteFtst("unlocked", outcome)
          /\ \/ /\ outcome = "ok"
                /\ Goto("ftst-read", fan, val)
                /\ UNCHANGED <<session, wd>>
             \/ /\ outcome # "ok"
                /\ GiveUp
                /\ UNCHANGED <<session, wd>>
             \/ /\ ftst = "absent"
                /\ HoldUnlock
    /\ UNCHANGED <<md, process, sigThread, winner, quiet, failed>>

\* The readback returns what the key holds, or fails.  On an error Ftst stays
\* as written and no DiagnosticUnlockSession is recorded.
UnlockRead ==
    /\ At("ftst-read")
    /\ \/ /\ ftst = "unlocked"
          /\ HoldUnlock
       \/ /\ GiveUp
          /\ UNCHANGED <<session, wd>>
    /\ UNCHANGED <<smc, process, sigThread, history>>

\* commit_set_fan accepts only a target within 5% of the minimum.
CheckTarget ==
    /\ At("target")
    /\ \/ Goto("write", fan, "forced")
       \/ GiveUp
    /\ UNCHANGED <<smc, process, session, sigThread, wd, history>>

VerifiedWrite ==
    /\ At("write")
    /\ \E outcome \in WriteOutcomes :
          /\ WriteMode(fan, val, outcome)
          /\ IF outcome = "ok" THEN Goto("read", fan, val) ELSE GiveUp
    /\ UNCHANGED <<ftst, process, session, sigThread, wd, winner, quiet, ftstFailed>>

\* What follows a verified write.  A selftest writes forced, then auto, for
\* each iteration of each fan; the number of iterations is an argument.
Proceed ==
    \/ /\ cmd = "set"
       /\ Goto("hold", fan, val)
    \/ /\ cmd \in {"run", "run-once"}
       /\ Goto("tick", fan + 1, "forced")
    \/ /\ cmd = "selftest"
       /\ val = "forced"
       /\ Goto("write", fan, "auto")
    \/ /\ cmd = "selftest"
       /\ val = "auto"
       /\ Goto("write", fan, "forced")
    \/ /\ cmd = "selftest"
       /\ val = "auto"
       /\ IF fan + 1 < NumFans THEN Goto("write", fan + 1, "forced")
                               ELSE Goto("teardown", fan, val)

VerifyRead ==
    /\ At("read")
    /\ \/ /\ md[fan] = val
          /\ Proceed
       \/ GiveUp
    /\ UNCHANGED <<smc, process, session, sigThread, wd, history>>

-----------------------------------------------------------------------------
(* The main thread: WriteSession::teardown, run by Drop, and the exit.       *)

BeginTeardown ==
    /\ At("teardown")
    /\ \/ /\ TeardownWon
          /\ tear_down_once' = TRUE
          /\ winner' = "main"
          /\ Goto("release", 0, val)
       \/ /\ ~TeardownWon
          /\ Goto("close", fan, val)
          /\ UNCHANGED <<tear_down_once, winner>>
    /\ UNCHANGED <<smc, process, conn, hook, masked, unlock, watchdog_stop,
                   reload_requested, sigThread, wd, quiet, failed, ftstFailed>>

ReleaseFanUntilDone ==                                            \* mutant
    /\ At("release")
    /\ MoreFans(fan)
    /\ \E outcome \in WriteOutcomes :
          /\ ForceWriteAutoMode(fan, outcome)
          /\ Goto("release", IF outcome = "ok" THEN fan + 1 ELSE fan, val)
    /\ UNCHANGED <<ftst, process, session, sigThread, wd, winner, quiet, ftstFailed>>

ReleaseFan ==
    /\ At("release")
    /\ MoreFans(fan)
    /\ \E outcome \in WriteOutcomes : ForceWriteAutoMode(fan, outcome)
    /\ Goto("release", fan + 1, val)
    /\ UNCHANGED <<ftst, process, session, sigThread, wd, winner, quiet, ftstFailed>>

FansReleased ==
    /\ At("release")
    /\ ~MoreFans(fan)
    /\ Goto(IF unlock THEN "stop" ELSE "force-ftst", fan, val)
    /\ UNCHANGED <<smc, process, session, sigThread, wd, history>>

StopWatchdog ==
    /\ At("stop")
    /\ watchdog_stop' = TRUE
    /\ Goto("relock", fan, val)
    /\ UNCHANGED <<smc, process, conn, hook, masked, unlock, tear_down_once,
                   reload_requested, sigThread, wd, history>>

\* The verified Ftst=0 write, whose result is ignored.
ReleaseUnlock ==
    /\ At("relock")
    /\ \E outcome \in WriteOutcomes : WriteFtst("locked", outcome)
    /\ unlock' = FALSE
    /\ Goto("force-ftst", fan, val)
    /\ UNCHANGED <<md, process, conn, hook, masked, tear_down_once, watchdog_stop,
                   reload_requested, sigThread, wd, winner, quiet, failed>>

ForceFtstZero ==
    /\ At("force-ftst")
    /\ \E outcome \in WriteOutcomes : WriteFtst("locked", outcome)
    /\ Goto("close", fan, val)
    /\ UNCHANGED <<md, process, session, sigThread, wd, winner, quiet, failed>>

\* conn.close(), explicit in the checklist and again when the field is dropped.
CloseConnection ==
    /\ At("close")
    /\ conn' = FALSE
    /\ Goto("drop", fan, val)
    /\ UNCHANGED <<smc, process, hook, masked, unlock, tear_down_once, watchdog_stop,
                   reload_requested, sigThread, wd, history>>

DropLock ==
    /\ At("drop")
    /\ flock' = FALSE
    /\ Goto("exit", fan, val)
    /\ UNCHANGED <<smc, cmd, ending, pending, session, sigThread, wd, history>>

\* The signal thread never returns by itself: the main thread does not join it.
JoinThenExit == At("exit") /\ sig = "gone" /\ EndProcess("clean") \* mutant

ExitMain == At("exit") /\ EndProcess("clean")

-----------------------------------------------------------------------------
(* The panic hook, on the main thread.  The hook is on connection 3 and does *)
(* not touch tear_down_once; the process aborts after it.                    *)

MainPanics ==
    /\ Alive
    /\ pc \notin PanicPoints
    /\ IF hook
       THEN /\ Goto("hook", 0, val)
            /\ UNCHANGED <<smc, process, session, sigThread, wd, history>>
       ELSE EndProcess("abort")

HookReleaseFan ==
    /\ At("hook")
    /\ MoreFans(fan)
    /\ \E outcome \in WriteOutcomes : ForceWriteAutoMode(fan, outcome)
    /\ Goto("hook", fan + 1, val)
    /\ UNCHANGED <<ftst, process, session, sigThread, wd, winner, quiet, ftstFailed>>

HookReleaseFtst ==
    /\ At("hook")
    /\ ~MoreFans(fan)
    /\ \E outcome \in WriteOutcomes : WriteFtst("locked", outcome)
    /\ Goto("abort", fan, val)
    /\ UNCHANGED <<md, process, session, sigThread, wd, winner, quiet, failed>>

Abort == At("abort") /\ EndProcess("abort")

-----------------------------------------------------------------------------
(* The signal thread.                                                        *)

UnblockSignals ==
    /\ Alive
    /\ sig = "starting"
    /\ sig' = "unmasked"
    /\ UNCHANGED <<smc, process, session, main, sigFan, wd, history>>

\* Signals::new; when it fails the thread returns.
RegisterHandlers ==
    /\ Alive
    /\ sig = "unmasked"
    /\ sig' \in {"listening", "gone"}
    /\ UNCHANGED <<smc, process, session, main, sigFan, wd, history>>

HandleHup ==
    /\ Alive
    /\ sig = "listening"
    /\ "HUP" \in pending
    /\ pending' = pending \ {"HUP"}
    /\ reload_requested' = TRUE
    /\ UNCHANGED <<smc, cmd, ending, flock, conn, hook, masked, unlock, tear_down_once,
                   watchdog_stop, main, sigThread, wd, history>>

\* teardown_and_exit: the loser of tear_down_once leaves by _exit(1).
HandleTerm ==
    /\ Alive
    /\ sig = "listening"
    /\ "TERM" \in pending
    /\ IF ~TeardownWon
       THEN EndProcess("forced")
       ELSE /\ tear_down_once' = TRUE
            /\ pending' = pending \ {"TERM"}
            /\ sig' = "release"
            /\ sigFan' = 0
            /\ winner' = "signal"
            /\ quiet' = (pc = "hold")
            /\ UNCHANGED <<smc, cmd, ending, flock, conn, hook, masked, unlock,
                           watchdog_stop, reload_requested, main, wd, failed, ftstFailed>>

SignalReleaseFan ==
    /\ Alive
    /\ sig = "release"
    /\ MoreFans(sigFan)
    /\ \E outcome \in WriteOutcomes : ForceWriteAutoMode(sigFan, outcome)
    /\ sigFan' = sigFan + 1
    /\ UNCHANGED <<ftst, process, session, main, sig, wd, winner, quiet, ftstFailed>>

SignalReleaseFtst ==
    /\ Alive
    /\ sig = "release"
    /\ ~MoreFans(sigFan)
    /\ \E outcome \in WriteOutcomes : WriteFtst("locked", outcome)
    /\ sig' = "exit"
    /\ UNCHANGED <<md, process, session, main, sigFan, wd, winner, quiet, failed>>

SignalThreadReturns ==                                            \* mutant
    /\ Alive
    /\ sig = "exit"
    /\ sig' = "gone"
    /\ UNCHANGED <<smc, process, session, main, sigFan, wd, history>>

SignalExit == Alive /\ sig = "exit" /\ EndProcess("signal")

-----------------------------------------------------------------------------
(* The watchdog thread: one poll is the two flag tests, then the comparison  *)
(* of the heartbeat with the clock.                                          *)

WatchdogCheckFlags ==
    /\ Alive
    /\ wd = "polling"
    /\ wd' = IF watchdog_stop \/ tear_down_once THEN "gone" ELSE "armed"
    /\ UNCHANGED <<smc, process, session, main, sigThread, history>>

WatchdogCheckClock ==
    /\ Alive
    /\ wd = "armed"
    /\ \/ /\ wd' = "polling"
          /\ UNCHANGED pending
       \/ /\ wd' = "fired"
          /\ pending' = pending \cup {"TERM"}
    /\ UNCHANGED <<smc, cmd, ending, flock, session, main, sigThread, history>>

-----------------------------------------------------------------------------
(* The environment.                                                          *)

SendSignal(s) ==
    /\ Alive
    /\ s \notin pending
    /\ pending' = pending \cup {s}
    /\ UNCHANGED <<smc, cmd, ending, flock, session, main, sigThread, wd, history>>

\* A signal reaches a thread that does not block it before the handlers are
\* registered: its default action ends the process.
DefaultAction ==
    /\ Alive
    /\ pending # {}
    /\ ~masked \/ sig = "unmasked"
    /\ EndProcess("killed")

Kill == Alive /\ EndProcess("killed")     \* SIGKILL, power loss

\* The thermal manager has final authority and may take a fan back.
ThermalReclaims(f) ==
    /\ Alive
    /\ md[f] = "forced"
    /\ md' = [md EXCEPT ![f] = "auto"]
    /\ UNCHANGED <<ftst, process, session, main, sigThread, wd, history>>

-----------------------------------------------------------------------------

MainStep ==
    \/ TakeLock \/ OpenConnections \/ SpawnSignalThread
    \/ StartCommand \/ ExitOnMissingFan \/ TickFan \/ TickEnd
    \/ UnlockWrite \/ UnlockRead \/ CheckTarget \/ VerifiedWrite \/ VerifyRead
    \/ BeginTeardown \/ ReleaseFan \/ FansReleased \/ StopWatchdog \/ ReleaseUnlock
    \/ ForceFtstZero \/ CloseConnection \/ DropLock \/ ExitMain

PanicStep == MainPanics \/ HookReleaseFan \/ HookReleaseFtst \/ Abort

SignalStep ==
    \/ UnblockSignals \/ RegisterHandlers \/ HandleHup \/ HandleTerm
    \/ SignalReleaseFan \/ SignalReleaseFtst \/ SignalExit

WatchdogStep == WatchdogCheckFlags \/ WatchdogCheckClock

Environment ==
    \/ \E s \in Signals : SendSignal(s)
    \/ DefaultAction
    \/ Kill
    \/ \E f \in Fans : ThermalReclaims(f)

Next == MainStep \/ PanicStep \/ SignalStep \/ WatchdogStep \/ Environment

Spec == Init /\ [][Next]_vars

\* Threads that can run are run; a panicking main thread finishes its hook, and
\* a signal that is pending is handled whatever other signals arrive.
Fairness ==
    /\ WF_vars(MainStep)
    /\ WF_vars(HookReleaseFan \/ HookReleaseFtst \/ Abort)
    /\ WF_vars(UnblockSignals \/ RegisterHandlers)
    /\ WF_vars(HandleTerm)
    /\ WF_vars(SignalReleaseFan \/ SignalReleaseFtst \/ SignalExit)

FairSpec == Spec /\ Fairness

-----------------------------------------------------------------------------
(* What every orderly end of the process promises: each fan is in automatic  *)
(* mode and Ftst is locked, except where the SMC answered the last release   *)
(* write of that very key with an error.                                     *)

ReleasedFan(f) == md[f] = "auto" \/ f \in failed

ReleasedFtst == ftst # "unlocked" \/ ftstFailed

Released == (\A f \in Fans : ReleasedFan(f)) /\ ReleasedFtst

\* tear_down_once lets at most one of the main thread and the signal thread run
\* the release checklist (FR-023).
ChecklistExclusive == ~(pc \in ChecklistPoints /\ sig \in {"release", "exit"})

\* A command that ends by itself and runs the checklist in Drop leaves nothing
\* forced, whatever the signal and watchdog threads did meanwhile and whatever
\* an earlier, killed process had left behind.
CleanExitReleases == ending = "clean" /\ winner = "main" => Released

\* A panic of the main thread at any point after the hook is installed, its own
\* teardown included, leaves nothing forced.
PanicReleases == ending = "abort" /\ hook => Released

\* SIGTERM (or the watchdog's own) that finds `fand set` in its hold loop leaves
\* nothing forced.
HoldInterruptReleases == ending = "signal" /\ quiet => Released

\* SIGTERM does not stop the main thread: what `set` or `selftest` writes behind
\* the signal thread's back may stay forced (SignalExitReleases below).  It is one
\* fan at most, the one at hand, and none in a dry run.
InterruptLeavesOneFan ==
    ending = "signal" /\ cmd \in {"set", "dry-run", "selftest"} /\ pc \notin PanicPoints =>
        \A f \in Fans : ReleasedFan(f) \/ (f = fan /\ cmd # "dry-run")

\* While an override is held in the hold loop, a watchdog thread still polls (or
\* has raised SIGTERM), unless a release has begun.
HeldFanIsWatched ==
    Alive /\ pc = "hold" => \/ unlock /\ wd \in {"polling", "armed", "fired"}
                            \/ tear_down_once

\* Once the main thread has won tear_down_once no fan goes back to forced.
NoForcingAfterTeardown ==
    [][winner = "main" => \A f \in Fans : md[f] = "auto" => md'[f] = "auto"]_vars

\* Where the main thread leaves the command, by its teardown or by a panic, and how
\* many steps at most it is from the end of the process.
EndPoints == ChecklistPoints \cup LeavePoints \cup PanicPoints

StepsToEnd ==
    CASE pc = "abort"      -> 1
      [] pc = "hook"       -> 2 + (NumFans - fan)
      [] pc = "exit"       -> 3 + NumFans
      [] pc = "drop"       -> 4 + NumFans
      [] pc = "close"      -> 5 + NumFans
      [] pc = "force-ftst" -> 6 + NumFans
      [] pc = "relock"     -> 7 + NumFans
      [] pc = "stop"       -> 8 + NumFans
      [] pc = "release"    -> 9 + NumFans + (NumFans - fan)
      [] OTHER             -> 10 + NumFans + NumFans

\* The main thread itself takes the step.
MainMoves == MainStep \/ PanicStep

\* Leaving is bounded: every step of the main thread on its way out brings the end
\* nearer, whichever writes the SMC refuses, whoever has won tear_down_once, and
\* also when the teardown itself panics.  Nothing is retried, and no step leads back
\* to the command.
LeavingAdvances ==
    [][MainMoves /\ pc \in EndPoints =>
          ~Alive' \/ (pc' \in EndPoints /\ StepsToEnd' < StepsToEnd)]_vars

\* Once its handlers are registered, a pending SIGTERM ends the process, however
\* busy the main thread is and whatever other signals arrive.
TermEndsProcess ==
    (Alive /\ sig = "listening" /\ "TERM" \in pending) ~> ~Alive

\* A main thread that drops its session ends the process.
TeardownEnds == (pc = "teardown") ~> ~Alive

\* The session as FanOverride sees it: closing from the moment main wins
\* tear_down_once or panics, and closed rather than lost when the process ends in
\* one of the three ways that promise a release.
OverridePhase ==
    IF ending = "none"
    THEN IF winner = "main" \/ pc \in PanicPoints THEN "closing"
         ELSE IF pc \in AcquirePoints THEN "idle" ELSE "open"
    ELSE IF \/ ending = "clean" /\ winner = "main"
            \/ ending = "abort" /\ hook
            \/ ending = "signal" /\ quiet
         THEN "closed" ELSE "lost"

Override == INSTANCE FanOverride WITH mode <- md, refused <- failed, phase <- OverridePhase

OverrideSpec == Override!Spec

-----------------------------------------------------------------------------
(* What a document says and the code does not do.                            *)

\* docs/ARCHITECTURE.md:89, "SIGTERM / SIGINT -> write FxMd=0 (auto) to all
\* fans, exit cleanly".  A SIGTERM that meets a registered handler may end the process
\* in three ways: by the teardown of the signal thread, behind which a commit may
\* write; by the exit of a main thread that has lost tear_down_once to it, and takes
\* the checklist for run (write_session.rs:587); by _exit(1), if main's own teardown
\* has set the flag, where even a first signal is called a second one (signal.rs:207).
EndedBySignal == ending \in {"signal", "forced"} \/ (ending = "clean" /\ winner = "signal")

SignalExitReleases == EndedBySignal => \A f \in Fans : ReleasedFan(f)

=============================================================================
