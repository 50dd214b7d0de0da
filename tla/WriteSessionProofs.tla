------------------------- MODULE WriteSessionProofs -------------------------
(***************************************************************************)
(* Proofs about WriteSession, for every number of fans, every set of       *)
(* commands and every set of signals.  Five invariants are built one on    *)
(* another: the types; who owns the teardown (Ownership); how far each     *)
(* release checklist has come (Progress); what the signal thread's         *)
(* checklist has released when the main thread goes on (Interrupt); and    *)
(* how the watchdog follows the unlock (Watched).                          *)
(***************************************************************************)
EXTENDS WriteSession, TLAPS

USE DEF Alive, At

-----------------------------------------------------------------------------
(* The invariants.                                                           *)

\* Each thread is where the winner of tear_down_once lets it be.
Ownership ==
    /\ pc \in AcquirePoints => sig = "absent"
    /\ tear_down_once <=> winner # "none"
    /\ pc \in ChecklistPoints => winner = "main"
    /\ winner = "main" => pc \in ChecklistPoints \cup {"close", "drop", "exit"} \cup PanicPoints
    /\ sig \in {"release", "exit"} <=> winner = "signal"
    /\ quiet => winner = "signal" /\ pc \in {"hold"} \cup PanicPoints
    /\ ending = "clean" => pc = "exit"
    /\ ending = "signal" => sig = "exit"
    /\ ending = "abort" /\ hook => pc = "abort"

ReleasedBelow(n) == \A f \in 0 .. n - 1 : ReleasedFan(f)

AllFansReleased == \A f \in Fans : ReleasedFan(f)

\* What each checklist has released when it stands where it stands.
Progress ==
    /\ winner = "main" /\ pc = "release" => ReleasedBelow(fan)
    /\ winner = "main" /\ pc \in {"stop", "relock", "force-ftst", "close", "drop", "exit"}
          => AllFansReleased
    /\ winner = "main" /\ pc \in {"close", "drop", "exit"} => ReleasedFtst
    /\ pc = "hook" => ReleasedBelow(fan)
    /\ pc = "abort" => Released
    /\ quiet /\ sig = "release" => ReleasedBelow(sigFan)
    /\ quiet /\ sig = "exit" => Released

\* An unlock has a watchdog until a release begins, and `fand set` writes only
\* with an unlock.
Watched ==
    /\ unlock => wd # "absent"
    /\ wd = "gone" => watchdog_stop \/ tear_down_once
    /\ watchdog_stop => winner = "main"
    /\ pc \in {"target", "hold"} => unlock
    /\ pc \in {"write", "read"} => unlock \/ cmd = "selftest"

-----------------------------------------------------------------------------
(* Types.                                                                    *)

LEMMA EndProcessStateTypes ==
    ASSUME StateTypes,
           NEW how \in {"error", "clean", "signal", "forced", "abort", "killed"},
           EndProcess(how)
    PROVE  StateTypes'
BY DEF StateTypes, EndProcess, smc, main, sigThread, history

\* Every step of the main thread keeps the types of the state.
LEMMA MainStepStateTypes == StateTypes /\ MainStep => StateTypes'
<1> SUFFICES ASSUME StateTypes, MainStep
             PROVE  StateTypes'
    OBVIOUS
<1> USE NumFansAssumption DEF Fans, smc, process, session, main, sigThread, history,
        AcquirePoints, CommandPoints, ChecklistPoints, LeavePoints, PanicPoints
<1>1. CASE TakeLock
    <2>1. CASE EndProcess("error")
        BY <2>1, EndProcessStateTypes, Zenon
    <2>2. CASE ~EndProcess("error")
        <3>1. pc' = "open" /\ UNCHANGED <<md, ftst, cmd, ending, pending, fan, val, sig, sigFan,
                                         wd, winner, failed>>
            BY <1>1, <2>2, Zenon DEF TakeLock
        <3> QED
            BY <3>1 DEF StateTypes
    <2> QED
        BY <2>1, <2>2
<1>2. CASE OpenConnections
    <2>1. CASE EndProcess("error")
        BY <2>1, EndProcessStateTypes, Zenon
    <2>2. CASE ~EndProcess("error")
        <3>1. pc' = "spawn" /\ UNCHANGED <<md, ftst, cmd, ending, pending, fan, val, sig, sigFan,
                                          wd, winner, failed>>
            BY <1>2, <2>2, Zenon DEF OpenConnections
        <3> QED
            BY <3>1 DEF StateTypes
    <2> QED
        BY <2>1, <2>2
<1>3. CASE SpawnSignalThread
    BY <1>3 DEF SpawnSignalThread, StateTypes
<1>4. CASE StartCommand
    BY <1>4 DEF StartCommand, Goto, CommitPoint, StateTypes
<1>5. CASE ExitOnMissingFan
    BY <1>5, EndProcessStateTypes DEF ExitOnMissingFan
<1>6. CASE TickFan
    BY <1>6 DEF TickFan, Goto, CommitPoint, StateTypes
<1>7. CASE TickEnd
    BY <1>7 DEF TickEnd, Goto, StateTypes
<1>8. CASE UnlockWrite
    BY <1>8 DEF UnlockWrite, WriteFtst, HoldUnlock, StartWatchdog, GiveUp, Goto,
                WriteOutcomes, StateTypes
<1>9. CASE UnlockRead
    BY <1>9 DEF UnlockRead, HoldUnlock, StartWatchdog, GiveUp, Goto, StateTypes
<1>10. CASE CheckTarget
    BY <1>10 DEF CheckTarget, GiveUp, Goto, StateTypes
<1>11. CASE VerifiedWrite
    BY <1>11 DEF VerifiedWrite, WriteMode, GiveUp, Goto, WriteOutcomes, StateTypes
<1>12. CASE VerifyRead
    BY <1>12 DEF VerifyRead, Proceed, GiveUp, Goto, StateTypes
<1>13. CASE BeginTeardown
    BY <1>13 DEF BeginTeardown, Goto, StateTypes
<1>14. CASE ReleaseFan
    BY <1>14 DEF ReleaseFan, MoreFans, ForceWriteAutoMode, WriteMode, Goto,
                 WriteOutcomes, StateTypes
<1>15. CASE FansReleased
    BY <1>15 DEF FansReleased, Goto, StateTypes
<1>16. CASE StopWatchdog
    BY <1>16 DEF StopWatchdog, Goto, StateTypes
<1>17. CASE ReleaseUnlock
    BY <1>17 DEF ReleaseUnlock, WriteFtst, Goto, WriteOutcomes, StateTypes
<1>18. CASE ForceFtstZero
    BY <1>18 DEF ForceFtstZero, WriteFtst, Goto, WriteOutcomes, StateTypes
<1>19. CASE CloseConnection
    BY <1>19 DEF CloseConnection, Goto, StateTypes
<1>20. CASE DropLock
    BY <1>20 DEF DropLock, Goto, StateTypes
<1>21. CASE ExitMain
    BY <1>21, EndProcessStateTypes DEF ExitMain
<1> QED
    BY <1>1, <1>2, <1>3, <1>4, <1>5, <1>6, <1>7, <1>8, <1>9, <1>10, <1>11, <1>12,
       <1>13, <1>14, <1>15, <1>16, <1>17, <1>18, <1>19, <1>20, <1>21 DEF MainStep

LEMMA OtherStepStateTypes ==
    StateTypes /\ (PanicStep \/ SignalStep \/ WatchdogStep \/ Environment) => StateTypes'
<1> SUFFICES ASSUME StateTypes, PanicStep \/ SignalStep \/ WatchdogStep \/ Environment
             PROVE  StateTypes'
    OBVIOUS
<1> USE NumFansAssumption DEF Fans, smc, process, session, main, sigThread, history,
        AcquirePoints, CommandPoints, ChecklistPoints, LeavePoints, PanicPoints
<1>1. CASE MainPanics
    <2>1. CASE hook
        <3>1. /\ pc' = "hook" /\ fan' = 0
              /\ UNCHANGED <<md, ftst, cmd, ending, pending, val, sig, sigFan, wd,
                             winner, failed>>
            BY <1>1, <2>1, Zenon DEF MainPanics, Goto
        <3> QED
            BY <3>1 DEF StateTypes
    <2>2. CASE ~hook
        BY <1>1, <2>2, EndProcessStateTypes DEF MainPanics
    <2> QED
        BY <2>1, <2>2
<1>2. CASE HookReleaseFan
    BY <1>2 DEF HookReleaseFan, MoreFans, ForceWriteAutoMode, WriteMode, Goto,
                WriteOutcomes, StateTypes
<1>3. CASE HookReleaseFtst
    BY <1>3 DEF HookReleaseFtst, WriteFtst, Goto, WriteOutcomes, StateTypes
<1>4. CASE Abort
    BY <1>4, EndProcessStateTypes DEF Abort
<1>5. CASE UnblockSignals \/ RegisterHandlers \/ HandleHup
    <2>1. /\ sig' \in {sig, "unmasked", "listening", "gone"}
          /\ pending' \subseteq pending
        BY <1>5, Zenon DEF UnblockSignals, RegisterHandlers, HandleHup
    <2>2. UNCHANGED <<md, ftst, cmd, ending, pc, fan, val, sigFan, wd, winner, failed>>
        BY <1>5, Zenon DEF UnblockSignals, RegisterHandlers, HandleHup
    <2> QED
        BY <2>1, <2>2 DEF StateTypes
<1>6. CASE HandleTerm
    <2>1. CASE TeardownWon
        <3>1. /\ sig' = "release"
              /\ sigFan' = 0
              /\ winner' = "signal"
              /\ pending' = pending \ {"TERM"}
            BY <1>6, <2>1, Zenon DEF HandleTerm
        <3>2. UNCHANGED <<md, ftst, cmd, ending, pc, fan, val, wd, failed>>
            BY <1>6, <2>1, Zenon DEF HandleTerm
        <3> QED
            BY <3>1, <3>2 DEF StateTypes
    <2>2. CASE ~TeardownWon
        BY <1>6, <2>2, EndProcessStateTypes DEF HandleTerm
    <2> QED
        BY <2>1, <2>2
<1>7. CASE SignalReleaseFan
    BY <1>7 DEF SignalReleaseFan, MoreFans, ForceWriteAutoMode, WriteMode,
                WriteOutcomes, StateTypes
<1>8. CASE SignalReleaseFtst
    BY <1>8 DEF SignalReleaseFtst, WriteFtst, WriteOutcomes, StateTypes
<1>9. CASE SignalExit
    BY <1>9, EndProcessStateTypes DEF SignalExit
<1>10. CASE WatchdogStep
    <2>1. /\ wd' \in {"gone", "armed", "polling", "fired"}
          /\ pending' \in {pending, pending \cup {"TERM"}}
        BY <1>10, Zenon DEF WatchdogStep, WatchdogCheckFlags, WatchdogCheckClock
    <2>2. UNCHANGED <<md, ftst, cmd, ending, pc, fan, val, sig, sigFan, winner, failed>>
        BY <1>10, Zenon DEF WatchdogStep, WatchdogCheckFlags, WatchdogCheckClock
    <2> QED
        BY <2>1, <2>2 DEF StateTypes
<1>11. ASSUME NEW s \in Signals, SendSignal(s)
       PROVE  StateTypes'
    BY <1>11 DEF SendSignal, StateTypes
<1>12. CASE DefaultAction \/ Kill
    BY <1>12, EndProcessStateTypes DEF DefaultAction, Kill
<1>13. ASSUME NEW f \in Fans, ThermalReclaims(f)
       PROVE  StateTypes'
    BY <1>13 DEF ThermalReclaims, StateTypes
<1> QED
    BY <1>1, <1>2, <1>3, <1>4, <1>5, <1>6, <1>7, <1>8, <1>9, <1>10, <1>11, <1>12, <1>13
    DEF PanicStep, SignalStep, Environment

\* The flags have no arithmetic about them: each action on its own is left to
\* Zenon.
LEMMA FlagTypesKept == FlagTypes /\ Next => FlagTypes'
<1> SUFFICES ASSUME FlagTypes, Next
             PROVE  FlagTypes'
    OBVIOUS
<1>e. ASSUME NEW how, EndProcess(how)
      PROVE  FlagTypes'
    BY <1>e, ZenonT(60) DEF FlagTypes, EndProcess, main, sigThread, history
<1> USE DEF FlagTypes, smc, process, session, main, sigThread, history
<1>1. CASE MainStep
    <2>1. CASE TakeLock
        BY <2>1, <1>e, ZenonT(60) DEF TakeLock
    <2>2. CASE OpenConnections
        BY <2>2, <1>e, ZenonT(60) DEF OpenConnections
    <2>3. CASE SpawnSignalThread
        BY <2>3, ZenonT(60) DEF SpawnSignalThread
    <2>4. CASE StartCommand
        BY <2>4, ZenonT(60) DEF StartCommand
    <2>5. CASE ExitOnMissingFan
        BY <2>5, <1>e, ZenonT(60) DEF ExitOnMissingFan
    <2>6. CASE TickFan
        BY <2>6, ZenonT(60) DEF TickFan
    <2>7. CASE TickEnd
        BY <2>7, ZenonT(60) DEF TickEnd
    <2>8. CASE UnlockWrite
        BY <2>8, ZenonT(60) DEF UnlockWrite, WriteFtst, HoldUnlock
    <2>9. CASE UnlockRead
        BY <2>9, ZenonT(60) DEF UnlockRead, HoldUnlock
    <2>10. CASE CheckTarget
        BY <2>10, ZenonT(60) DEF CheckTarget
    <2>11. CASE VerifiedWrite
        BY <2>11, ZenonT(60) DEF VerifiedWrite
    <2>12. CASE VerifyRead
        BY <2>12, ZenonT(60) DEF VerifyRead
    <2>13. CASE BeginTeardown
        BY <2>13, ZenonT(60) DEF BeginTeardown
    <2>14. CASE ReleaseFan
        BY <2>14, ZenonT(60) DEF ReleaseFan
    <2>15. CASE FansReleased
        BY <2>15, ZenonT(60) DEF FansReleased
    <2>16. CASE StopWatchdog
        BY <2>16, ZenonT(60) DEF StopWatchdog
    <2>17. CASE ReleaseUnlock
        BY <2>17, ZenonT(60) DEF ReleaseUnlock, WriteFtst
    <2>18. CASE ForceFtstZero
        BY <2>18, ZenonT(60) DEF ForceFtstZero, WriteFtst
    <2>19. CASE CloseConnection
        BY <2>19, ZenonT(60) DEF CloseConnection
    <2>20. CASE DropLock
        BY <2>20, ZenonT(60) DEF DropLock
    <2>21. CASE ExitMain
        BY <2>21, <1>e, ZenonT(60) DEF ExitMain
    <2> QED
        BY <1>1, <2>1, <2>2, <2>3, <2>4, <2>5, <2>6, <2>7, <2>8, <2>9, <2>10, <2>11, <2>12, <2>13, <2>14, <2>15, <2>16, <2>17, <2>18, <2>19, <2>20, <2>21 DEF MainStep
<1>2. CASE PanicStep
    <2>1. CASE MainPanics
        BY <2>1, <1>e, ZenonT(60) DEF MainPanics, Goto
    <2>2. CASE HookReleaseFan
        BY <2>2, ZenonT(60) DEF HookReleaseFan, Goto
    <2>3. CASE HookReleaseFtst
        BY <2>3, ZenonT(60) DEF HookReleaseFtst, WriteFtst, Goto
    <2>4. CASE Abort
        BY <2>4, <1>e, ZenonT(60) DEF Abort
    <2> QED
        BY <1>2, <2>1, <2>2, <2>3, <2>4 DEF PanicStep
<1>3. CASE SignalStep
    <2>1. CASE UnblockSignals
        BY <2>1, ZenonT(60) DEF UnblockSignals
    <2>2. CASE RegisterHandlers
        BY <2>2, ZenonT(60) DEF RegisterHandlers
    <2>3. CASE HandleHup
        BY <2>3, ZenonT(60) DEF HandleHup
    <2>4. CASE HandleTerm
        BY <2>4, <1>e, ZenonT(60) DEF HandleTerm
    <2>5. CASE SignalReleaseFan
        BY <2>5, ZenonT(60) DEF SignalReleaseFan
    <2>6. CASE SignalReleaseFtst
        BY <2>6, ZenonT(60) DEF SignalReleaseFtst, WriteFtst
    <2>7. CASE SignalExit
        BY <2>7, <1>e, ZenonT(60) DEF SignalExit
    <2> QED
        BY <1>3, <2>1, <2>2, <2>3, <2>4, <2>5, <2>6, <2>7 DEF SignalStep
<1>4. CASE WatchdogStep
    <2>1. CASE WatchdogCheckFlags
        BY <2>1, ZenonT(60) DEF WatchdogCheckFlags
    <2>2. CASE WatchdogCheckClock
        BY <2>2, ZenonT(60) DEF WatchdogCheckClock
    <2> QED
        BY <1>4, <2>1, <2>2 DEF WatchdogStep
<1>5. CASE Environment
    <2>1. ASSUME NEW s \in Signals, SendSignal(s)
          PROVE  FlagTypes'
        BY <2>1, ZenonT(60) DEF SendSignal
    <2>2. CASE DefaultAction
        BY <2>2, <1>e, ZenonT(60) DEF DefaultAction
    <2>3. CASE Kill
        BY <2>3, <1>e, ZenonT(60) DEF Kill
    <2>4. ASSUME NEW f \in Fans, ThermalReclaims(f)
          PROVE  FlagTypes'
        BY <2>4, ZenonT(60) DEF ThermalReclaims
    <2> QED
        BY <1>5, <2>1, <2>2, <2>3, <2>4 DEF Environment
<1> QED
    BY <1>1, <1>2, <1>3, <1>4, <1>5 DEF Next

\* Every variable keeps its type, and the main thread is inside a commit only
\* with a fan of the machine at hand.
THEOREM TypeCorrect == Spec => []TypeOK
<1>1. Init => TypeOK
    <2>1. Init => FlagTypes
        BY Zenon DEF Init, FlagTypes
    <2>2. Init => StateTypes
        BY NumFansAssumption
        DEF Init, StateTypes, Fans, AcquirePoints, CommandPoints, ChecklistPoints,
            LeavePoints, PanicPoints
    <2> QED
        BY <2>1, <2>2 DEF TypeOK
<1>2. TypeOK /\ [Next]_vars => TypeOK'
    <2>1. TypeOK /\ Next => TypeOK'
        BY FlagTypesKept, MainStepStateTypes, OtherStepStateTypes DEF Next, TypeOK
    <2>2. TypeOK /\ UNCHANGED vars => TypeOK'
        BY DEF TypeOK, FlagTypes, StateTypes, vars, smc, process, session, main,
               sigThread, history
    <2> QED
        BY <2>1, <2>2
<1> QED
    BY <1>1, <1>2, PTL DEF Spec

-----------------------------------------------------------------------------
(* Ownership of the teardown.                                                *)

LEMMA EndProcessOwnership ==
    ASSUME Ownership, NEW how, EndProcess(how),
           how = "clean" => pc = "exit",
           how = "signal" => sig = "exit",
           how = "abort" /\ hook => pc = "abort"
    PROVE  Ownership'
BY Zenon DEF Ownership, EndProcess, main, sigThread, history

\* A step of a thread that leaves the process alive and changes neither the
\* winner nor the place of the signal thread keeps Ownership when the main thread
\* moves where the winner lets it.
LEMMA MoveOwnership ==
    ASSUME Ownership, Alive,
           UNCHANGED <<ending, hook, tear_down_once, sig, winner, quiet>>,
           pc' \in AcquirePoints => sig = "absent",
           pc' \in ChecklistPoints => winner = "main",
           winner = "main" =>
               pc' \in ChecklistPoints \cup {"close", "drop", "exit"} \cup PanicPoints,
           quiet => pc' \in {"hold"} \cup PanicPoints
    PROVE  Ownership'
BY Zenon DEF Ownership

\* Every step of the main thread keeps the ownership of the teardown.
LEMMA MainStepOwnership == TypeOK /\ Ownership /\ MainStep => Ownership'
<1> SUFFICES ASSUME TypeOK, Ownership, MainStep
             PROVE  Ownership'
    OBVIOUS
<1> USE DEF smc, process, session, main, sigThread, history
<1>1. CASE TakeLock \/ OpenConnections
    BY <1>1, EndProcessOwnership DEF TakeLock, OpenConnections, Ownership,
       AcquirePoints, ChecklistPoints, PanicPoints
<1>2. CASE SpawnSignalThread
    BY <1>2
    DEF SpawnSignalThread, Ownership, AcquirePoints, ChecklistPoints, PanicPoints
<1>3. CASE StartCommand
    BY <1>3, MoveOwnership DEF StartCommand, Goto, CommitPoint, Ownership,
       AcquirePoints, ChecklistPoints, PanicPoints
<1>4. CASE ExitOnMissingFan
    BY <1>4, EndProcessOwnership DEF ExitOnMissingFan
<1>5. CASE TickFan \/ TickEnd
    BY <1>5, MoveOwnership DEF TickFan, TickEnd, Goto, CommitPoint, Ownership,
       AcquirePoints, ChecklistPoints, PanicPoints
<1>6. CASE UnlockWrite
    BY <1>6, MoveOwnership DEF UnlockWrite, HoldUnlock, GiveUp, Goto, Ownership,
       AcquirePoints, ChecklistPoints, PanicPoints
<1>7. CASE UnlockRead
    BY <1>7, MoveOwnership DEF UnlockRead, HoldUnlock, GiveUp, Goto, Ownership,
       AcquirePoints, ChecklistPoints, PanicPoints
<1>8. CASE CheckTarget
    BY <1>8, MoveOwnership DEF CheckTarget, GiveUp, Goto, Ownership,
       AcquirePoints, ChecklistPoints, PanicPoints
<1>9. CASE VerifiedWrite
    BY <1>9, MoveOwnership DEF VerifiedWrite, GiveUp, Goto, Ownership,
       AcquirePoints, ChecklistPoints, PanicPoints
<1>10. CASE VerifyRead
    BY <1>10, MoveOwnership DEF VerifyRead, Proceed, GiveUp, Goto, Ownership,
       AcquirePoints, ChecklistPoints, PanicPoints
<1>11. CASE BeginTeardown
    BY <1>11, Zenon DEF BeginTeardown, TeardownWon, Goto, Ownership,
       AcquirePoints, ChecklistPoints, PanicPoints
<1>12. CASE ReleaseFan
    BY <1>12, MoveOwnership
    DEF ReleaseFan, Goto, Ownership, AcquirePoints, ChecklistPoints, PanicPoints
<1>13. CASE FansReleased
    BY <1>13, MoveOwnership
    DEF FansReleased, Goto, Ownership, AcquirePoints, ChecklistPoints, PanicPoints
<1>14. CASE StopWatchdog
    BY <1>14, MoveOwnership
    DEF StopWatchdog, Goto, Ownership, AcquirePoints, ChecklistPoints, PanicPoints
<1>15. CASE ReleaseUnlock
    BY <1>15, MoveOwnership
    DEF ReleaseUnlock, Goto, Ownership, AcquirePoints, ChecklistPoints, PanicPoints
<1>16. CASE ForceFtstZero
    BY <1>16, MoveOwnership
    DEF ForceFtstZero, Goto, Ownership, AcquirePoints, ChecklistPoints, PanicPoints
<1>17. CASE CloseConnection
    BY <1>17, MoveOwnership
    DEF CloseConnection, Goto, Ownership, AcquirePoints, ChecklistPoints, PanicPoints
<1>18. CASE DropLock
    BY <1>18, MoveOwnership
    DEF DropLock, Goto, Ownership, AcquirePoints, ChecklistPoints, PanicPoints
<1>19. CASE ExitMain
    BY <1>19, EndProcessOwnership DEF ExitMain
<1> QED
    BY <1>1, <1>2, <1>3, <1>4, <1>5, <1>6, <1>7, <1>8, <1>9, <1>10, <1>11, <1>12,
       <1>13, <1>14, <1>15, <1>16, <1>17, <1>18, <1>19 DEF MainStep

\* So does every step of the panic hook, the other threads and the environment.
LEMMA OtherStepOwnership ==
    TypeOK /\ Ownership /\ (PanicStep \/ SignalStep \/ WatchdogStep \/ Environment)
    => Ownership'
<1> SUFFICES ASSUME TypeOK, Ownership,
                    PanicStep \/ SignalStep \/ WatchdogStep \/ Environment
             PROVE  Ownership'
    OBVIOUS
<1> USE DEF smc, process, session, main, sigThread, history
<1>1. CASE MainPanics
    <2>1. CASE hook
        BY <1>1, <2>1, MoveOwnership
        DEF MainPanics, Goto, AcquirePoints, ChecklistPoints, PanicPoints
    <2>2. CASE ~hook
        BY <1>1, <2>2, EndProcessOwnership DEF MainPanics
    <2> QED
        BY <2>1, <2>2
<1>2. CASE HookReleaseFan
    BY <1>2, MoveOwnership
    DEF HookReleaseFan, Goto, Ownership, AcquirePoints, ChecklistPoints, PanicPoints
<1>3. CASE HookReleaseFtst
    BY <1>3, MoveOwnership
    DEF HookReleaseFtst, Goto, Ownership, AcquirePoints, ChecklistPoints, PanicPoints
<1>4. CASE Abort
    BY <1>4, EndProcessOwnership DEF Abort
<1>5. CASE UnblockSignals \/ RegisterHandlers
    BY <1>5 DEF UnblockSignals, RegisterHandlers, Ownership
<1>6. CASE HandleHup
    BY <1>6, MoveOwnership DEF HandleHup, Ownership
<1>7. CASE HandleTerm
    <2>1. CASE TeardownWon
        BY <1>7, <2>1, Zenon DEF HandleTerm, TeardownWon, Ownership
    <2>2. CASE ~TeardownWon
        BY <1>7, <2>2, EndProcessOwnership DEF HandleTerm
    <2> QED
        BY <2>1, <2>2
<1>8. CASE SignalReleaseFan
    BY <1>8, MoveOwnership DEF SignalReleaseFan, Ownership
<1>9. CASE SignalReleaseFtst
    BY <1>9, Zenon DEF SignalReleaseFtst, Ownership
<1>10. CASE SignalExit
    BY <1>10, EndProcessOwnership DEF SignalExit
<1>11. CASE WatchdogStep
    BY <1>11, MoveOwnership
    DEF WatchdogStep, WatchdogCheckFlags, WatchdogCheckClock, Ownership
<1>12. CASE DefaultAction \/ Kill
    BY <1>12, EndProcessOwnership DEF DefaultAction, Kill
<1>13. CASE (\E s \in Signals : SendSignal(s)) \/ (\E f \in Fans : ThermalReclaims(f))
    BY <1>13, MoveOwnership DEF SendSignal, ThermalReclaims, Ownership
<1> QED
    BY <1>1, <1>2, <1>3, <1>4, <1>5, <1>6, <1>7, <1>8, <1>9, <1>10, <1>11, <1>12, <1>13
    DEF PanicStep, SignalStep, Environment

\* In every reachable state the recorded winner of tear_down_once is the only
\* thread beyond the point where it had to win it (write_session.rs:582-586 and
\* signal.rs:195-208).
THEOREM OwnershipCorrect == Spec => []Ownership
<1>1. Init => Ownership
    BY Zenon DEF Init, Ownership, ChecklistPoints
<1>2. TypeOK /\ Ownership /\ [Next]_vars => Ownership'
    <2>1. TypeOK /\ Ownership /\ Next => Ownership'
        BY MainStepOwnership, OtherStepOwnership DEF Next
    <2>2. Ownership /\ UNCHANGED vars => Ownership'
        BY DEF Ownership, vars, process, session, main, sigThread, history
    <2> QED
        BY <2>1, <2>2
<1> QED
    BY <1>1, <1>2, TypeCorrect, PTL DEF Spec

\* tear_down_once never lets the main thread and the signal thread run the
\* release checklist together, or one after the other.
THEOREM ChecklistIsExclusive == Spec => []ChecklistExclusive
<1>1. Ownership => ChecklistExclusive
    BY DEF Ownership, ChecklistExclusive
<1> QED
    BY <1>1, OwnershipCorrect, PTL

-----------------------------------------------------------------------------
(* Releases.  Only a verified write of a mode takes a fan out of the released *)
(* state, and only a write of Ftst=1 the unlock.                             *)

LEMMA AutoWriteReleases ==
    ASSUME TypeOK, NEW f \in Fans, NEW outcome \in WriteOutcomes,
           ForceWriteAutoMode(f, outcome)
    PROVE  /\ md'[f] = "auto" \/ f \in failed'
           /\ \A g \in Fans : md[g] = "auto" => md'[g] = "auto"
           /\ \A g \in Fans : g \in failed /\ g # f => g \in failed'
           /\ \A g \in Fans : ReleasedFan(g) => ReleasedFan(g)'
BY DEF TypeOK, StateTypes, ForceWriteAutoMode, WriteMode, WriteOutcomes, ReleasedFan

\* Whatever its outcome, a write of Ftst=0 leaves Ftst released or its failure
\* recorded.
LEMMA LockWriteReleases ==
    ASSUME TypeOK, NEW outcome \in WriteOutcomes, WriteFtst("locked", outcome)
    PROVE  ReleasedFtst'
<1>1. CASE outcome = "ok"
    BY <1>1, Zenon DEF WriteFtst, ReleasedFtst
<1>2. CASE outcome # "ok"
    BY <1>2, Zenon DEF WriteFtst, ReleasedFtst
<1> QED
    BY <1>1, <1>2

\* What a step does to released keys when the main thread is outside a commit.
LEMMA ReleasedStaysReleased ==
    ASSUME TypeOK, Next
    PROVE  /\ ~VerifiedWrite => \A f \in Fans : ReleasedFan(f) => ReleasedFan(f)'
           /\ pc # "write" => \A f \in Fans : ReleasedFan(f) => ReleasedFan(f)'
           /\ pc # "ftst" => (ReleasedFtst => ReleasedFtst')
<1> USE DEF smc, process, session, main, sigThread, history
<1>1. CASE ReleaseFan
    <2>1. fan \in Fans
        BY <1>1, NumFansAssumption DEF ReleaseFan, MoreFans, Fans, TypeOK, StateTypes
    <2>2. \A f \in Fans : ReleasedFan(f) => ReleasedFan(f)'
        BY <1>1, <2>1, AutoWriteReleases, Zenon DEF ReleaseFan
    <2>3. ReleasedFtst => ReleasedFtst'
        BY <1>1, Zenon DEF ReleaseFan, ReleasedFtst
    <2> QED
        BY <2>2, <2>3
<1>2. CASE HookReleaseFan
    <2>1. fan \in Fans
        BY <1>2, NumFansAssumption DEF HookReleaseFan, MoreFans, Fans, TypeOK, StateTypes
    <2>2. \A f \in Fans : ReleasedFan(f) => ReleasedFan(f)'
        BY <1>2, <2>1, AutoWriteReleases, Zenon DEF HookReleaseFan
    <2>3. ReleasedFtst => ReleasedFtst'
        BY <1>2, Zenon DEF HookReleaseFan, ReleasedFtst
    <2> QED
        BY <2>2, <2>3
<1>3. CASE SignalReleaseFan
    <2>1. sigFan \in Fans
        BY <1>3, NumFansAssumption DEF SignalReleaseFan, MoreFans, Fans, TypeOK, StateTypes
    <2>2. \A f \in Fans : ReleasedFan(f) => ReleasedFan(f)'
        BY <1>3, <2>1, AutoWriteReleases, Zenon DEF SignalReleaseFan
    <2>3. ReleasedFtst => ReleasedFtst'
        BY <1>3, Zenon DEF SignalReleaseFan, ReleasedFtst
    <2> QED
        BY <2>2, <2>3
<1>4. CASE ReleaseUnlock \/ ForceFtstZero \/ HookReleaseFtst \/ SignalReleaseFtst
    <2>1. \A f \in Fans : ReleasedFan(f) => ReleasedFan(f)'
        BY <1>4, Zenon DEF ReleaseUnlock, ForceFtstZero, HookReleaseFtst,
           SignalReleaseFtst, ReleasedFan
    <2>2. ReleasedFtst'
        BY <1>4, LockWriteReleases, Zenon
        DEF ReleaseUnlock, ForceFtstZero, HookReleaseFtst, SignalReleaseFtst
    <2> QED
        BY <2>1, <2>2
<1>5. CASE \E f \in Fans : ThermalReclaims(f)
    <2>1. \A g \in Fans : ReleasedFan(g) => ReleasedFan(g)'
        BY <1>5 DEF ThermalReclaims, ReleasedFan, TypeOK, StateTypes
    <2>2. ReleasedFtst => ReleasedFtst'
        BY <1>5 DEF ThermalReclaims, ReleasedFtst
    <2> QED
        BY <2>1, <2>2
<1>6. CASE VerifiedWrite
    BY <1>6, Zenon DEF VerifiedWrite, ReleasedFtst
<1>7. CASE UnlockWrite
    BY <1>7, Zenon DEF UnlockWrite, ReleasedFan
<1>8. CASE UNCHANGED <<md, failed, ftst, ftstFailed>>
    BY <1>8, Zenon DEF ReleasedFan, ReleasedFtst
<1>9. \/ ReleaseFan \/ HookReleaseFan \/ SignalReleaseFan
      \/ ReleaseUnlock \/ ForceFtstZero \/ HookReleaseFtst \/ SignalReleaseFtst
      \/ \E f \in Fans : ThermalReclaims(f)
      \/ VerifiedWrite \/ UnlockWrite
      \/ UNCHANGED <<md, failed, ftst, ftstFailed>>
    <2> USE DEF EndProcess
    <2>1. CASE MainStep
        <3>1. TakeLock => UNCHANGED <<md, failed, ftst, ftstFailed>>
            BY Zenon DEF TakeLock
        <3>2. OpenConnections => UNCHANGED <<md, failed, ftst, ftstFailed>>
            BY Zenon DEF OpenConnections
        <3>3. SpawnSignalThread => UNCHANGED <<md, failed, ftst, ftstFailed>>
            BY Zenon DEF SpawnSignalThread
        <3>4. StartCommand => UNCHANGED <<md, failed, ftst, ftstFailed>>
            BY Zenon DEF StartCommand
        <3>5. ExitOnMissingFan => UNCHANGED <<md, failed, ftst, ftstFailed>>
            BY Zenon DEF ExitOnMissingFan
        <3>6. TickFan => UNCHANGED <<md, failed, ftst, ftstFailed>>
            BY Zenon DEF TickFan
        <3>7. TickEnd => UNCHANGED <<md, failed, ftst, ftstFailed>>
            BY Zenon DEF TickEnd
        <3>8. UnlockRead => UNCHANGED <<md, failed, ftst, ftstFailed>>
            BY Zenon DEF UnlockRead
        <3>9. CheckTarget => UNCHANGED <<md, failed, ftst, ftstFailed>>
            BY Zenon DEF CheckTarget
        <3>10. VerifyRead => UNCHANGED <<md, failed, ftst, ftstFailed>>
            BY Zenon DEF VerifyRead
        <3>11. BeginTeardown => UNCHANGED <<md, failed, ftst, ftstFailed>>
            BY Zenon DEF BeginTeardown
        <3>12. FansReleased => UNCHANGED <<md, failed, ftst, ftstFailed>>
            BY Zenon DEF FansReleased
        <3>13. StopWatchdog => UNCHANGED <<md, failed, ftst, ftstFailed>>
            BY Zenon DEF StopWatchdog
        <3>14. CloseConnection => UNCHANGED <<md, failed, ftst, ftstFailed>>
            BY Zenon DEF CloseConnection
        <3>15. DropLock => UNCHANGED <<md, failed, ftst, ftstFailed>>
            BY Zenon DEF DropLock
        <3>16. ExitMain => UNCHANGED <<md, failed, ftst, ftstFailed>>
            BY Zenon DEF ExitMain
        <3> QED
            BY <2>1, <3>1, <3>2, <3>3, <3>4, <3>5, <3>6, <3>7, <3>8, <3>9, <3>10, <3>11, <3>12, <3>13, <3>14, <3>15, <3>16, Zenon DEF MainStep
    <2>2. CASE PanicStep
        <3>1. MainPanics => UNCHANGED <<md, failed, ftst, ftstFailed>>
            BY Zenon DEF MainPanics
        <3>2. Abort => UNCHANGED <<md, failed, ftst, ftstFailed>>
            BY Zenon DEF Abort
        <3> QED
            BY <2>2, <3>1, <3>2, Zenon DEF PanicStep
    <2>3. CASE SignalStep
        <3>1. UnblockSignals => UNCHANGED <<md, failed, ftst, ftstFailed>>
            BY Zenon DEF UnblockSignals
        <3>2. RegisterHandlers => UNCHANGED <<md, failed, ftst, ftstFailed>>
            BY Zenon DEF RegisterHandlers
        <3>3. HandleHup => UNCHANGED <<md, failed, ftst, ftstFailed>>
            BY Zenon DEF HandleHup
        <3>4. HandleTerm => UNCHANGED <<md, failed, ftst, ftstFailed>>
            BY Zenon DEF HandleTerm
        <3>5. SignalExit => UNCHANGED <<md, failed, ftst, ftstFailed>>
            BY Zenon DEF SignalExit
        <3> QED
            BY <2>3, <3>1, <3>2, <3>3, <3>4, <3>5, Zenon DEF SignalStep
    <2>4. CASE WatchdogStep
        <3>1. WatchdogCheckFlags => UNCHANGED <<md, failed, ftst, ftstFailed>>
            BY Zenon DEF WatchdogCheckFlags
        <3>2. WatchdogCheckClock => UNCHANGED <<md, failed, ftst, ftstFailed>>
            BY Zenon DEF WatchdogCheckClock
        <3> QED
            BY <2>4, <3>1, <3>2, Zenon DEF WatchdogStep
    <2>5. CASE Environment
        <3>1. (\E s \in Signals : SendSignal(s)) => UNCHANGED <<md, failed, ftst, ftstFailed>>
            BY Zenon DEF SendSignal
        <3>2. DefaultAction => UNCHANGED <<md, failed, ftst, ftstFailed>>
            BY Zenon DEF DefaultAction
        <3>3. Kill => UNCHANGED <<md, failed, ftst, ftstFailed>>
            BY Zenon DEF Kill
        <3> QED
            BY <2>5, <3>1, <3>2, <3>3, Zenon DEF Environment
    <2> QED
        BY <2>1, <2>2, <2>3, <2>4, <2>5, Zenon DEF Next
<1> QED
    BY <1>1, <1>2, <1>3, <1>4, <1>5, <1>6, <1>7, <1>8, <1>9

-----------------------------------------------------------------------------
(* Progress of the release checklists.                                       *)

LEMMA BelowIsFan ==
    ASSUME NEW n \in 0 .. NumFans
    PROVE  0 .. n - 1 \subseteq Fans
BY NumFansAssumption DEF Fans

\* While main is outside a commit, what is released stays released.
LEMMA BelowStaysReleased ==
    ASSUME TypeOK, Next, pc # "write", NEW n \in 0 .. NumFans, ReleasedBelow(n)
    PROVE  \A f \in 0 .. n - 1 : ReleasedFan(f)'
BY BelowIsFan, ReleasedStaysReleased DEF ReleasedBelow

\* The same for all fans together.
LEMMA AllStayReleased ==
    ASSUME TypeOK, Next, pc # "write", AllFansReleased
    PROVE  AllFansReleased'
BY ReleasedStaysReleased DEF AllFansReleased

\* One more fan: what was released below n and fan n itself.
LEMMA OneMoreReleased ==
    ASSUME TypeOK, Next, pc # "write", NEW n \in Fans, ReleasedBelow(n),
           NEW outcome \in WriteOutcomes, ForceWriteAutoMode(n, outcome)
    PROVE  \A f \in 0 .. (n + 1) - 1 : ReleasedFan(f)'
<1>1. n \in 0 .. NumFans
    BY NumFansAssumption DEF Fans
<1>2. \A f \in 0 .. n - 1 : ReleasedFan(f)'
    BY <1>1, BelowStaysReleased
<1>3. ReleasedFan(n)'
    BY AutoWriteReleases DEF ReleasedFan
<1>4. ASSUME NEW f \in 0 .. (n + 1) - 1 PROVE f \in 0 .. n - 1 \/ f = n
    BY <1>1
<1> QED
    BY <1>2, <1>3, <1>4

\* A step that moves nobody.
LEMMA StayProgress ==
    ASSUME TypeOK, Ownership, Progress, Next,
           UNCHANGED <<pc, fan, sig, sigFan, winner, quiet>>
    PROVE  Progress'
<1> USE DEF TypeOK, StateTypes
<1>1. quiet => winner = "signal" /\ pc # "write" /\ pc # "ftst"
    BY DEF Ownership, PanicPoints
<1>2. Released /\ pc # "write" /\ pc # "ftst" => Released'
    BY ReleasedStaysReleased, Zenon DEF Released
<1>3. ReleasedBelow(fan) /\ pc # "write" => ReleasedBelow(fan)'
    BY BelowStaysReleased DEF ReleasedBelow
<1>4. ReleasedBelow(sigFan) /\ pc # "write" => ReleasedBelow(sigFan)'
    BY BelowStaysReleased DEF ReleasedBelow
<1>5. AllFansReleased /\ pc # "write" => AllFansReleased'
    BY AllStayReleased
<1>6. ReleasedFtst /\ pc # "ftst" => ReleasedFtst'
    BY ReleasedStaysReleased
<1> QED
    BY <1>1, <1>2, <1>3, <1>4, <1>5, <1>6 DEF Progress

\* A step of the main thread before its release.
LEMMA CommandProgress ==
    ASSUME Ownership, pc \in AcquirePoints \cup (CommandPoints \ {"hold"}) \cup {"teardown"},
           UNCHANGED <<winner, quiet>>, pc' \notin PanicPoints
    PROVE  Progress'
<1>1. winner # "main" /\ ~quiet
    BY DEF Ownership, AcquirePoints, CommandPoints, ChecklistPoints, PanicPoints
<1> QED
    BY <1>1 DEF Progress, PanicPoints

\* The end of the process keeps what the release checklists have done.
LEMMA EndProcessProgress ==
    ASSUME Progress, NEW how, EndProcess(how)
    PROVE  Progress'
BY DEF EndProcess, Progress, ReleasedBelow, AllFansReleased, Released, ReleasedFan,
       ReleasedFtst, smc, main, sigThread, history

\* The main thread advances its checklist one released key at a time, and undoes
\* nothing of another one that has to be complete.
LEMMA MainStepProgress == TypeOK /\ Ownership /\ Progress /\ MainStep => Progress'
<1> SUFFICES ASSUME TypeOK, Ownership, Progress, MainStep
             PROVE  Progress'
    OBVIOUS
<1> USE DEF smc, process, session, main, sigThread, history
<1>0. Next
    BY DEF Next
<1>1. CASE TakeLock \/ OpenConnections
    BY <1>1, EndProcessProgress, CommandProgress
    DEF TakeLock, OpenConnections, AcquirePoints, PanicPoints
<1>2. CASE SpawnSignalThread
    BY <1>2, CommandProgress DEF SpawnSignalThread, AcquirePoints, PanicPoints
<1>3. CASE StartCommand
    BY <1>3, CommandProgress DEF StartCommand, Goto, CommitPoint, CommandPoints, PanicPoints
<1>4. CASE ExitOnMissingFan
    BY <1>4, EndProcessProgress DEF ExitOnMissingFan
<1>5. CASE TickFan \/ TickEnd
    BY <1>5, CommandProgress
    DEF TickFan, TickEnd, Goto, CommitPoint, CommandPoints, PanicPoints
<1>6. CASE UnlockWrite
    BY <1>6, CommandProgress
    DEF UnlockWrite, HoldUnlock, GiveUp, Goto, CommandPoints, PanicPoints
<1>7. CASE UnlockRead
    BY <1>7, CommandProgress
    DEF UnlockRead, HoldUnlock, GiveUp, Goto, CommandPoints, PanicPoints
<1>8. CASE CheckTarget
    BY <1>8, CommandProgress DEF CheckTarget, GiveUp, Goto, CommandPoints, PanicPoints
<1>9. CASE VerifiedWrite
    BY <1>9, CommandProgress DEF VerifiedWrite, GiveUp, Goto, CommandPoints, PanicPoints
<1>10. CASE VerifyRead
    BY <1>10, CommandProgress
    DEF VerifyRead, Proceed, GiveUp, Goto, CommandPoints, PanicPoints
<1>11. CASE BeginTeardown
    <2>1. winner # "main" /\ ~quiet
        BY <1>11 DEF BeginTeardown, Ownership, ChecklistPoints, PanicPoints
    <2>2. CASE TeardownWon
        <3>1. pc' = "release" /\ fan' = 0 /\ quiet' = quiet
            BY <1>11, <2>2 DEF BeginTeardown, Goto
        <3> QED
            BY <2>1, <3>1 DEF Progress, ReleasedBelow
    <2>3. CASE ~TeardownWon
        BY <1>11, <2>3, CommandProgress DEF BeginTeardown, Goto, PanicPoints
    <2> QED
        BY <2>2, <2>3
<1>12. CASE ReleaseFan
    <2>1. winner = "main" /\ ~quiet /\ pc = "release" /\ fan \in Fans
        BY <1>12, NumFansAssumption
        DEF ReleaseFan, MoreFans, Fans, Ownership, ChecklistPoints, TypeOK, StateTypes
    <2>2. ReleasedBelow(fan)
        BY <2>1 DEF Progress
    <2>3. PICK outcome \in WriteOutcomes : ForceWriteAutoMode(fan, outcome)
        BY <1>12 DEF ReleaseFan
    <2>4. \A f \in 0 .. (fan + 1) - 1 : ReleasedFan(f)'
        BY <1>0, <2>1, <2>2, <2>3, OneMoreReleased
    <2>5. pc' = "release" /\ fan' = fan + 1 /\ UNCHANGED <<winner, quiet>>
        BY <1>12 DEF ReleaseFan, Goto
    <2> QED
        BY <2>1, <2>4, <2>5 DEF Progress, ReleasedBelow
<1>13. CASE FansReleased
    <2>1. winner = "main" /\ ~quiet /\ fan = NumFans
        BY <1>13, NumFansAssumption
        DEF FansReleased, MoreFans, Ownership, ChecklistPoints, TypeOK, StateTypes
    <2>2. AllFansReleased
        BY <1>13, <2>1, NumFansAssumption
        DEF FansReleased, Progress, ReleasedBelow, AllFansReleased, Fans
    <2>3. pc' \in {"stop", "force-ftst"} /\ UNCHANGED <<md, failed, winner, quiet>>
        BY <1>13 DEF FansReleased, Goto
    <2> QED
        BY <2>1, <2>2, <2>3 DEF Progress, AllFansReleased, ReleasedFan
<1>14. CASE StopWatchdog \/ ReleaseUnlock
    <2>1. winner = "main" /\ ~quiet /\ AllFansReleased /\ pc # "write"
        BY <1>14 DEF StopWatchdog, ReleaseUnlock, Ownership, ChecklistPoints, Progress
    <2>2. pc' \in {"relock", "force-ftst"} /\ UNCHANGED <<winner, quiet>>
        BY <1>14 DEF StopWatchdog, ReleaseUnlock, Goto
    <2>3. AllFansReleased'
        BY <1>0, <2>1, AllStayReleased
    <2> QED
        BY <2>1, <2>2, <2>3 DEF Progress
<1>15. CASE ForceFtstZero
    <2>1. winner = "main" /\ ~quiet /\ AllFansReleased /\ pc # "write"
        BY <1>15 DEF ForceFtstZero, Ownership, ChecklistPoints, Progress
    <2>2. pc' = "close" /\ UNCHANGED <<winner, quiet>>
        BY <1>15 DEF ForceFtstZero, Goto
    <2>3. AllFansReleased' /\ ReleasedFtst'
        BY <1>0, <1>15, <2>1, AllStayReleased, LockWriteReleases DEF ForceFtstZero
    <2> QED
        BY <2>1, <2>2, <2>3 DEF Progress
<1>16. CASE CloseConnection \/ DropLock
    <2>1. pc \in {"close", "drop"} /\ pc' \in {"drop", "exit"} /\ ~quiet
        BY <1>16 DEF CloseConnection, DropLock, Goto, Ownership, PanicPoints
    <2>2. UNCHANGED <<md, ftst, failed, ftstFailed, winner, quiet>>
        BY <1>16 DEF CloseConnection, DropLock
    <2> QED
        BY <2>1, <2>2 DEF Progress, AllFansReleased, ReleasedFan, ReleasedFtst
<1>17. CASE ExitMain
    BY <1>17, EndProcessProgress DEF ExitMain
<1> QED
    BY <1>1, <1>2, <1>3, <1>4, <1>5, <1>6, <1>7, <1>8, <1>9, <1>10, <1>11, <1>12,
       <1>13, <1>14, <1>15, <1>16, <1>17 DEF MainStep

\* So does the panic hook.
LEMMA PanicStepProgress == TypeOK /\ Ownership /\ Progress /\ PanicStep => Progress'
<1> SUFFICES ASSUME TypeOK, Ownership, Progress, PanicStep
             PROVE  Progress'
    OBVIOUS
<1> USE DEF smc, process, session, main, sigThread, history
<1>0. Next
    BY DEF Next
<1>1. CASE MainPanics
    <2>1. CASE hook
        <3>1. /\ pc' = "hook" /\ fan' = 0
              /\ UNCHANGED <<md, ftst, failed, ftstFailed, winner, quiet, sig, sigFan>>
            BY <1>1, <2>1, Zenon DEF MainPanics, Goto
        <3> QED
            BY <3>1 DEF Progress, ReleasedBelow, Released, ReleasedFan, ReleasedFtst
    <2>2. CASE ~hook
        BY <1>1, <2>2, EndProcessProgress DEF MainPanics
    <2> QED
        BY <2>1, <2>2
<1>2. CASE HookReleaseFan
    <2>1. pc = "hook" /\ fan \in Fans /\ sigFan \in 0 .. NumFans
        BY <1>2, NumFansAssumption
        DEF HookReleaseFan, MoreFans, Fans, TypeOK, StateTypes
    <2>2. ReleasedBelow(fan)
        BY <2>1 DEF Progress
    <2>3. PICK outcome \in WriteOutcomes : ForceWriteAutoMode(fan, outcome)
        BY <1>2 DEF HookReleaseFan
    <2>4. \A f \in 0 .. (fan + 1) - 1 : ReleasedFan(f)'
        BY <1>0, <2>1, <2>2, <2>3, OneMoreReleased
    <2>5. /\ pc' = "hook" /\ fan' = fan + 1
          /\ UNCHANGED <<winner, quiet, sig, sigFan>>
        BY <1>2 DEF HookReleaseFan, Goto
    <2>6. quiet /\ sig = "release" => \A f \in 0 .. sigFan - 1 : ReleasedFan(f)'
        BY <1>0, <2>1, BelowStaysReleased DEF Progress
    <2>7. quiet /\ sig = "exit" => Released'
        BY <1>0, <2>1, ReleasedStaysReleased, Zenon DEF Progress, Released
    <2> QED
        BY <2>4, <2>5, <2>6, <2>7 DEF Progress, ReleasedBelow
<1>3. CASE HookReleaseFtst
    <2>1. pc = "hook" /\ fan = NumFans /\ sigFan \in 0 .. NumFans
        BY <1>3, NumFansAssumption DEF HookReleaseFtst, MoreFans, TypeOK, StateTypes
    <2>2. AllFansReleased
        BY <2>1 DEF Progress, ReleasedBelow, AllFansReleased, Fans
    <2>3. Released'
        BY <1>0, <1>3, <2>1, <2>2, AllStayReleased, LockWriteReleases
        DEF HookReleaseFtst, Released, AllFansReleased
    <2>4. pc' = "abort" /\ UNCHANGED <<winner, quiet, sig, sigFan>>
        BY <1>3 DEF HookReleaseFtst, Goto
    <2>5. quiet /\ sig = "release" => \A f \in 0 .. sigFan - 1 : ReleasedFan(f)'
        BY <1>0, <2>1, BelowStaysReleased DEF Progress
    <2> QED
        BY <2>3, <2>4, <2>5 DEF Progress, ReleasedBelow
<1>4. CASE Abort
    BY <1>4, EndProcessProgress DEF Abort
<1> QED
    BY <1>1, <1>2, <1>3, <1>4 DEF PanicStep

\* So does the signal thread.
LEMMA SignalStepProgress == TypeOK /\ Ownership /\ Progress /\ SignalStep => Progress'
<1> SUFFICES ASSUME TypeOK, Ownership, Progress, SignalStep
             PROVE  Progress'
    OBVIOUS
<1> USE DEF smc, process, session, main, sigThread, history
<1>0. Next
    BY DEF Next
<1>1. CASE UnblockSignals \/ RegisterHandlers
    <2>1. ~quiet
        BY <1>1 DEF UnblockSignals, RegisterHandlers, Ownership
    <2>2. UNCHANGED <<md, ftst, failed, ftstFailed, pc, fan, winner, quiet>>
        BY <1>1 DEF UnblockSignals, RegisterHandlers
    <2> QED
        BY <2>1, <2>2 DEF Progress, ReleasedBelow, AllFansReleased, Released,
           ReleasedFan, ReleasedFtst
<1>2. CASE HandleHup
    BY <1>0, <1>2, StayProgress DEF HandleHup
<1>3. CASE HandleTerm
    <2>1. CASE TeardownWon
        <3>1. /\ winner' = "signal" /\ sig' = "release" /\ sigFan' = 0
              /\ UNCHANGED <<md, ftst, failed, ftstFailed, pc, fan>>
            BY <1>3, <2>1, Zenon DEF HandleTerm
        <3> QED
            BY <3>1 DEF Progress, ReleasedBelow, Released, ReleasedFan, ReleasedFtst
    <2>2. CASE ~TeardownWon
        BY <1>3, <2>2, EndProcessProgress DEF HandleTerm
    <2> QED
        BY <2>1, <2>2
<1>4. CASE SignalReleaseFan
    <2>1. winner = "signal" /\ sig = "release" /\ sigFan \in Fans /\ fan \in 0 .. NumFans
        BY <1>4, NumFansAssumption
        DEF SignalReleaseFan, MoreFans, Fans, Ownership, TypeOK, StateTypes
    <2>2. PICK outcome \in WriteOutcomes : ForceWriteAutoMode(sigFan, outcome)
        BY <1>4 DEF SignalReleaseFan
    <2>3. /\ sigFan' = sigFan + 1
          /\ UNCHANGED <<winner, quiet, sig, pc, fan>>
        BY <1>4 DEF SignalReleaseFan
    <2>4. quiet => \A f \in 0 .. (sigFan + 1) - 1 : ReleasedFan(f)'
        <3> SUFFICES ASSUME quiet
                     PROVE  \A f \in 0 .. (sigFan + 1) - 1 : ReleasedFan(f)'
            OBVIOUS
        <3>1. pc # "write" /\ ReleasedBelow(sigFan)
            BY <2>1 DEF Ownership, PanicPoints, Progress
        <3> QED
            BY <1>0, <2>1, <2>2, <3>1, OneMoreReleased
    <2>5. pc = "hook" => \A f \in 0 .. fan - 1 : ReleasedFan(f)'
        BY <1>0, <2>1, BelowStaysReleased DEF Progress
    <2>6. pc = "abort" => Released'
        BY <1>0, <2>1, ReleasedStaysReleased, Zenon DEF Progress, Released
    <2> QED
        BY <2>1, <2>3, <2>4, <2>5, <2>6 DEF Progress, ReleasedBelow
<1>5. CASE SignalReleaseFtst
    <2>1. winner = "signal" /\ sig = "release" /\ sigFan = NumFans /\ fan \in 0 .. NumFans
        BY <1>5, NumFansAssumption
        DEF SignalReleaseFtst, MoreFans, Ownership, TypeOK, StateTypes
    <2>2. sig' = "exit" /\ UNCHANGED <<winner, quiet, sigFan, pc, fan>>
        BY <1>5 DEF SignalReleaseFtst
    <2>3. quiet => Released'
        <3> SUFFICES ASSUME quiet
                     PROVE  Released'
            OBVIOUS
        <3>1. pc # "write" /\ AllFansReleased
            BY <2>1 DEF Ownership, PanicPoints, Progress, ReleasedBelow, AllFansReleased, Fans
        <3> QED
            BY <1>0, <1>5, <3>1, AllStayReleased, LockWriteReleases
            DEF SignalReleaseFtst, Released, AllFansReleased
    <2>4. pc = "hook" => \A f \in 0 .. fan - 1 : ReleasedFan(f)'
        BY <1>0, <2>1, BelowStaysReleased DEF Progress
    <2>5. pc = "abort" => Released'
        BY <1>0, ReleasedStaysReleased, Zenon DEF Progress, Released
    <2> QED
        BY <2>1, <2>2, <2>3, <2>4, <2>5 DEF Progress, ReleasedBelow
<1>6. CASE SignalExit
    BY <1>6, EndProcessProgress DEF SignalExit
<1> QED
    BY <1>1, <1>2, <1>3, <1>4, <1>5, <1>6 DEF SignalStep

\* The environment only takes fans back to automatic mode or ends the process.
LEMMA EnvironmentProgress ==
    TypeOK /\ Ownership /\ Progress /\ (WatchdogStep \/ Environment) => Progress'
<1> SUFFICES ASSUME TypeOK, Ownership, Progress, WatchdogStep \/ Environment
             PROVE  Progress'
    OBVIOUS
<1> USE DEF smc, process, session, main, sigThread, history
<1>0. Next
    BY DEF Next
<1>1. CASE WatchdogStep
    BY <1>0, <1>1, StayProgress DEF WatchdogStep, WatchdogCheckFlags, WatchdogCheckClock
<1>2. CASE DefaultAction \/ Kill
    BY <1>2, EndProcessProgress DEF DefaultAction, Kill
<1>3. CASE (\E s \in Signals : SendSignal(s)) \/ (\E f \in Fans : ThermalReclaims(f))
    BY <1>0, <1>3, StayProgress DEF SendSignal, ThermalReclaims
<1> QED
    BY <1>1, <1>2, <1>3 DEF Environment

\* In every reachable state each of the three release checklists (teardown, panic
\* hook, signal thread against a main thread in its hold loop) has released every
\* key before the point it has reached.
THEOREM ProgressCorrect == Spec => []Progress
<1>1. Init => Progress
    BY Zenon DEF Init, Progress
<1>2. TypeOK /\ Ownership /\ Progress /\ [Next]_vars => Progress'
    <2>1. TypeOK /\ Ownership /\ Progress /\ Next => Progress'
        BY MainStepProgress, PanicStepProgress, SignalStepProgress, EnvironmentProgress
        DEF Next
    <2>2. Progress /\ UNCHANGED vars => Progress'
        BY DEF Progress, ReleasedBelow, AllFansReleased, Released, ReleasedFan,
               ReleasedFtst, vars, smc, main, sigThread, history
    <2> QED
        BY <2>1, <2>2
<1> QED
    BY <1>1, <1>2, TypeCorrect, OwnershipCorrect, PTL DEF Spec

\* A command that ends by itself after its own teardown leaves each fan in
\* automatic mode and Ftst locked, unless the SMC refused that very release.
THEOREM CleanExitIsReleased == Spec => []CleanExitReleases
<1>1. Ownership /\ Progress => CleanExitReleases
    BY DEF Ownership, Progress, CleanExitReleases, Released, AllFansReleased
<1> QED
    BY <1>1, OwnershipCorrect, ProgressCorrect, PTL

\* So does a panic of the main thread once the hook is installed, even in the
\* middle of its own teardown or of the signal thread's.
THEOREM PanicIsReleased == Spec => []PanicReleases
<1>1. Ownership /\ Progress => PanicReleases
    BY DEF Ownership, Progress, PanicReleases
<1> QED
    BY <1>1, OwnershipCorrect, ProgressCorrect, PTL

\* So does a SIGTERM that finds the main thread in the hold loop.
THEOREM HoldInterruptIsReleased == Spec => []HoldInterruptReleases
<1>1. Ownership /\ Progress => HoldInterruptReleases
    BY DEF Ownership, Progress, HoldInterruptReleases
<1> QED
    BY <1>1, OwnershipCorrect, ProgressCorrect, PTL

-----------------------------------------------------------------------------
(* An interrupted command, whose main thread goes on.                        *)

\* The fan that the main thread of such a command may write behind the signal
\* thread's back.
Held(f) == f = fan /\ cmd # "dry-run" /\ pc \notin AcquirePoints \cup {"ready"}

\* What the signal thread's checklist has released stays so, but for that fan.
Interrupt ==
    /\ cmd = "dry-run" => pc \notin CommandPoints \ {"ready"}
    /\ pc = "tick" => cmd \in {"run", "run-once"}
    /\ sig = "exit" => sigFan = NumFans
    /\ winner = "signal" /\ pc \notin PanicPoints /\ cmd \notin {"run", "run-once"} =>
           \A f \in Fans : f < sigFan => ReleasedFan(f) \/ Held(f)

LEMMA CommandStays ==
    ASSUME Next
    PROVE  UNCHANGED cmd /\ (~MainMoves => UNCHANGED <<pc, fan>>)
<1> USE DEF smc, process, session, main, sigThread, history, EndProcess
<1>1. CASE MainStep
    <2>1. CASE TakeLock \/ OpenConnections \/ SpawnSignalThread
        BY <2>1, Zenon DEF TakeLock, OpenConnections, SpawnSignalThread, MainMoves, MainStep
    <2>2. CASE StartCommand \/ ExitOnMissingFan \/ TickFan \/ TickEnd
        BY <2>2, Zenon DEF StartCommand, ExitOnMissingFan, TickFan, TickEnd, MainMoves, MainStep
    <2>3. CASE UnlockWrite \/ UnlockRead \/ CheckTarget \/ VerifiedWrite \/ VerifyRead
        BY <2>3, Zenon DEF UnlockWrite, UnlockRead, CheckTarget, VerifiedWrite, VerifyRead, MainMoves, MainStep
    <2>4. CASE BeginTeardown \/ ReleaseFan \/ FansReleased \/ StopWatchdog \/ ReleaseUnlock
        BY <2>4, Zenon DEF BeginTeardown, ReleaseFan, FansReleased, StopWatchdog, ReleaseUnlock, MainMoves, MainStep
    <2>5. CASE ForceFtstZero \/ CloseConnection \/ DropLock \/ ExitMain
        BY <2>5, Zenon DEF ForceFtstZero, CloseConnection, DropLock, ExitMain, MainMoves, MainStep
    <2> QED
        BY <1>1, <2>1, <2>2, <2>3, <2>4, <2>5, Zenon DEF MainStep
<1>2. CASE PanicStep
    <2>1. UNCHANGED cmd
        BY <1>2, Zenon DEF PanicStep, MainPanics, HookReleaseFan, HookReleaseFtst, Abort
    <2> QED
        BY <1>2, <2>1, Zenon DEF MainMoves
<1>3. CASE SignalStep
    <2>1. UNCHANGED <<cmd, pc, fan>>
        BY <1>3, Zenon DEF SignalStep, UnblockSignals, RegisterHandlers, HandleHup, HandleTerm, SignalReleaseFan,
           SignalReleaseFtst, SignalExit
    <2> QED
        BY <2>1, Zenon
<1>4. CASE WatchdogStep \/ Environment
    <2>1. UNCHANGED <<cmd, pc, fan>>
        BY <1>4, Zenon DEF WatchdogStep, WatchdogCheckFlags, WatchdogCheckClock, Environment, SendSignal,
           DefaultAction, Kill, ThermalReclaims
    <2> QED
        BY <2>1, Zenon
<1> QED
    BY <1>1, <1>2, <1>3, <1>4, Zenon DEF Next

\* Each action of the main thread is taken at its own point of control.
LEMMA PointsAre ==
    /\ TakeLock => pc = "lock"
    /\ OpenConnections => pc = "open"
    /\ SpawnSignalThread => pc = "spawn"
    /\ StartCommand => pc = "ready"
    /\ ExitOnMissingFan => pc = "ready"
    /\ TickFan => pc = "tick"
    /\ TickEnd => pc = "tick"
    /\ UnlockWrite => pc = "ftst"
    /\ UnlockRead => pc = "ftst-read"
    /\ CheckTarget => pc = "target"
    /\ VerifiedWrite => pc = "write"
    /\ VerifyRead => pc = "read"
    /\ BeginTeardown => pc = "teardown"
    /\ ReleaseFan => pc = "release"
    /\ FansReleased => pc = "release"
    /\ StopWatchdog => pc = "stop"
    /\ ReleaseUnlock => pc = "relock"
    /\ ForceFtstZero => pc = "force-ftst"
    /\ CloseConnection => pc = "close"
    /\ DropLock => pc = "drop"
    /\ ExitMain => pc = "exit"
<1>1. TakeLock => pc = "lock"
    BY Zenon DEF TakeLock
<1>2. OpenConnections => pc = "open"
    BY Zenon DEF OpenConnections
<1>3. SpawnSignalThread => pc = "spawn"
    BY Zenon DEF SpawnSignalThread
<1>4. StartCommand => pc = "ready"
    BY Zenon DEF StartCommand
<1>5. ExitOnMissingFan => pc = "ready"
    BY Zenon DEF ExitOnMissingFan
<1>6. TickFan => pc = "tick"
    BY Zenon DEF TickFan
<1>7. TickEnd => pc = "tick"
    BY Zenon DEF TickEnd
<1>8. UnlockWrite => pc = "ftst"
    BY Zenon DEF UnlockWrite
<1>9. UnlockRead => pc = "ftst-read"
    BY Zenon DEF UnlockRead
<1>10. CheckTarget => pc = "target"
    BY Zenon DEF CheckTarget
<1>11. VerifiedWrite => pc = "write"
    BY Zenon DEF VerifiedWrite
<1>12. VerifyRead => pc = "read"
    BY Zenon DEF VerifyRead
<1>13. BeginTeardown => pc = "teardown"
    BY Zenon DEF BeginTeardown
<1>14. ReleaseFan => pc = "release"
    BY Zenon DEF ReleaseFan
<1>15. FansReleased => pc = "release"
    BY Zenon DEF FansReleased
<1>16. StopWatchdog => pc = "stop"
    BY Zenon DEF StopWatchdog
<1>17. ReleaseUnlock => pc = "relock"
    BY Zenon DEF ReleaseUnlock
<1>18. ForceFtstZero => pc = "force-ftst"
    BY Zenon DEF ForceFtstZero
<1>19. CloseConnection => pc = "close"
    BY Zenon DEF CloseConnection
<1>20. DropLock => pc = "drop"
    BY Zenon DEF DropLock
<1>21. ExitMain => pc = "exit"
    BY Zenon DEF ExitMain
<1> QED
    BY <1>1, <1>2, <1>3, <1>4, <1>5, <1>6, <1>7, <1>8, <1>9, <1>10, <1>11, <1>12, <1>13, <1>14, <1>15, <1>16, <1>17, <1>18, <1>19, <1>20, <1>21

\* A main thread that panics does not come back from the hook.
LEMMA PanicStays ==
    ASSUME Next, pc \in PanicPoints
    PROVE  pc' \in PanicPoints
<1> USE DEF PanicPoints
<1>1. CASE MainStep
    <2>1. pc \notin PanicPoints
        BY <1>1, PointsAre, Zenon DEF MainStep
    <2> QED
        BY <2>1
<1>2. CASE PanicStep
    <2>1. CASE MainPanics
        BY <2>1 DEF MainPanics
    <2>2. CASE HookReleaseFan \/ HookReleaseFtst
        BY <2>2, Zenon DEF HookReleaseFan, HookReleaseFtst, Goto
    <2>3. CASE Abort
        <3>1. pc' = pc
            BY <2>3, Zenon DEF Abort, EndProcess, main
        <3> QED
            BY <3>1
    <2> QED
        BY <1>2, <2>1, <2>2, <2>3, Zenon DEF PanicStep
<1>3. CASE ~MainMoves
    BY <1>3, CommandStays
<1> QED
    BY <1>1, <1>2, <1>3, Zenon DEF MainMoves

\* Where a step of the main thread can lead.
LEMMA InterruptPoints ==
    ASSUME TypeOK, Ownership, Interrupt, Next
    PROVE  /\ cmd' = "dry-run" => pc' \notin CommandPoints \ {"ready"}
           /\ pc' = "tick" => cmd' \in {"run", "run-once"}
<1>0. cmd' = cmd
    BY CommandStays
<1>1. /\ cmd = "dry-run" => pc \notin CommandPoints \ {"ready"}
      /\ pc = "tick" => cmd \in {"run", "run-once"}
    BY DEF Interrupt
<1>2. CASE pc' = pc \/ pc' \notin CommandPoints \ {"ready"}
    BY <1>0, <1>1, <1>2 DEF CommandPoints
<1>3. CASE StartCommand
    <2>1. CommitPoint \in {"target", "ftst"}
        BY DEF CommitPoint
    <2>2. \/ cmd \in {"set", "selftest"} /\ pc' \in {CommitPoint, "write"}
          \/ pc' = "teardown"
          \/ cmd \in {"run", "run-once"} /\ pc' = "tick"
        BY <1>3, Zenon DEF StartCommand, Goto
    <2> QED
        BY <1>0, <2>1, <2>2 DEF CommandPoints
<1>4. CASE TickFan \/ TickEnd
    <2>1. pc = "tick"
        BY <1>4, PointsAre, Zenon
    <2> QED
        BY <1>0, <1>1, <2>1
<1>5. CASE UnlockWrite \/ UnlockRead \/ CheckTarget \/ VerifiedWrite \/ VerifyRead
    <2>1. pc \in CommandPoints \ {"ready"}
        BY <1>5, PointsAre DEF CommandPoints
    <2>2. GiveUp => (pc' = "tick" => cmd \in {"run", "run-once"})
        BY DEF GiveUp, Goto
    <2>3. HoldUnlock => pc' # "tick"
        BY DEF HoldUnlock, Goto
    <2>4. Proceed => (pc' = "tick" => cmd \in {"run", "run-once"})
        BY DEF Proceed, Goto
    <2>5. \A f, v : Goto("ftst-read", f, v) \/ Goto("write", f, v) \/ Goto("read", f, v) => pc' # "tick"
        BY DEF Goto
    <2>6. pc' = "tick" => GiveUp \/ HoldUnlock \/ Proceed
        BY <1>5, <2>5, Zenon DEF UnlockWrite, UnlockRead, CheckTarget, VerifiedWrite, VerifyRead
    <2> QED
        BY <1>0, <1>1, <2>1, <2>2, <2>3, <2>4, <2>6
<1>6. \/ pc' = pc \/ pc' \notin CommandPoints \ {"ready"}
      \/ StartCommand \/ TickFan \/ TickEnd
      \/ UnlockWrite \/ UnlockRead \/ CheckTarget \/ VerifiedWrite \/ VerifyRead
    <2>1. CASE MainMoves
        <3> USE DEF main, EndProcess, Goto, CommandPoints
        <3>1. CASE TakeLock \/ OpenConnections \/ SpawnSignalThread \/ ExitOnMissingFan
            BY <3>1 DEF TakeLock, OpenConnections, SpawnSignalThread, ExitOnMissingFan
        <3>2. CASE \/ BeginTeardown \/ ReleaseFan \/ FansReleased \/ StopWatchdog \/ ReleaseUnlock
                   \/ ForceFtstZero \/ CloseConnection \/ DropLock \/ ExitMain
            BY <3>2 DEF BeginTeardown, ReleaseFan, FansReleased, StopWatchdog, ReleaseUnlock, ForceFtstZero,
               CloseConnection, DropLock, ExitMain
        <3>3. CASE PanicStep
            BY <3>3 DEF PanicStep, MainPanics, HookReleaseFan, HookReleaseFtst, Abort
        <3> QED
            BY <2>1, <3>1, <3>2, <3>3, Zenon DEF MainMoves, MainStep
    <2>2. CASE ~MainMoves
        BY <2>2, CommandStays
    <2> QED
        BY <2>1, <2>2
<1> QED
    BY <1>2, <1>3, <1>4, <1>5, <1>6

\* What the main thread has at hand stays at hand, or was read back as automatic
\* before it went on to the next fan.
LEMMA HeldMoves ==
    ASSUME TypeOK, Ownership, Interrupt, Next, winner = "signal", cmd \notin {"run", "run-once"},
           pc \notin PanicPoints, pc' \notin PanicPoints, NEW f \in Fans, Held(f)
    PROVE  Held(f)' \/ ReleasedFan(f)'
<1> USE DEF smc, process, session, main, sigThread, history
<1>0. /\ sig \in {"release", "exit"} /\ pc \notin ChecklistPoints /\ tear_down_once
      /\ f = fan /\ cmd # "dry-run" /\ pc \notin AcquirePoints \cup {"ready", "tick"}
    BY DEF Ownership, Held, Interrupt, ChecklistPoints
<1>1. cmd' = cmd
    BY CommandStays
<1>2. CASE \/ TakeLock \/ OpenConnections \/ SpawnSignalThread \/ StartCommand \/ ExitOnMissingFan
           \/ TickFan \/ TickEnd
           \/ ReleaseFan \/ FansReleased \/ StopWatchdog \/ ReleaseUnlock \/ ForceFtstZero
    <2>1. pc \in AcquirePoints \cup {"ready", "tick"} \cup ChecklistPoints
        BY <1>2, PointsAre DEF AcquirePoints, ChecklistPoints
    <2> QED
        BY <1>0, <2>1
<1>3. CASE UnlockWrite \/ UnlockRead \/ CheckTarget \/ VerifiedWrite
    <2>1. fan' = fan /\ pc' \in {"ftst-read", "target", "write", "read", "teardown"}
        BY <1>3 DEF UnlockWrite, UnlockRead, CheckTarget, VerifiedWrite, HoldUnlock, GiveUp, Goto
    <2> QED
        BY <1>0, <1>1, <2>1 DEF Held, AcquirePoints
<1>4. CASE VerifyRead
    <2>1. /\ pc' \in {"hold", "write", "teardown"} /\ UNCHANGED <<md, failed>>
          /\ fan' = fan \/ md[fan] = "auto"
        BY <1>4 DEF VerifyRead, Proceed, GiveUp, Goto
    <2> QED
        BY <1>0, <1>1, <2>1 DEF Held, AcquirePoints, ReleasedFan
<1>5. CASE BeginTeardown \/ CloseConnection \/ DropLock \/ ExitMain
    <2>1. fan' = fan /\ pc' \in {"close", "drop", "exit"}
        <3>1. CASE BeginTeardown
            BY <1>0, <3>1, Zenon DEF BeginTeardown, TeardownWon, Goto
        <3>2. CASE CloseConnection \/ DropLock
            BY <3>2, Zenon DEF CloseConnection, DropLock, Goto
        <3>3. CASE ExitMain
            BY <3>3, Zenon DEF ExitMain, EndProcess
        <3> QED
            BY <1>5, <3>1, <3>2, <3>3
    <2> QED
        BY <1>0, <1>1, <2>1 DEF Held, AcquirePoints
<1>6. CASE PanicStep
    <2>1. UNCHANGED <<pc, fan>>
        BY <1>6 DEF PanicStep, MainPanics, HookReleaseFan, HookReleaseFtst, Abort, EndProcess, Goto, PanicPoints
    <2> QED
        BY <1>0, <1>1, <2>1 DEF Held
<1>7. CASE ~MainMoves
    BY <1>0, <1>1, <1>7, CommandStays DEF Held
<1> QED
    BY <1>2, <1>3, <1>4, <1>5, <1>6, <1>7, Zenon DEF MainMoves, MainStep

\* A step of anyone keeps what the signal thread released.
LEMMA InterruptedStep ==
    ASSUME TypeOK, Ownership, Interrupt, Next, winner = "signal", cmd \notin {"run", "run-once"},
           pc \notin PanicPoints, pc' \notin PanicPoints, NEW f \in Fans, ReleasedFan(f) \/ Held(f)
    PROVE  ReleasedFan(f)' \/ Held(f)'
<1>1. CASE Held(f)
    BY <1>1, HeldMoves
<1>2. CASE ~Held(f)
    <2>1. CASE VerifiedWrite
        <3>1. f # fan
            <4>1. pc = "write"
                BY <2>1, PointsAre
            <4>2. cmd # "dry-run"
                BY <4>1 DEF Interrupt, CommandPoints
            <4> QED
                BY <1>2, <4>1, <4>2 DEF Held, AcquirePoints
        <3>2. PICK outcome \in WriteOutcomes : WriteMode(fan, val, outcome)
            BY <2>1 DEF VerifiedWrite
        <3> QED
            BY <1>2, <3>1, <3>2 DEF WriteMode, ReleasedFan, TypeOK, StateTypes
    <2>2. CASE ~VerifiedWrite
        BY <1>2, <2>2, ReleasedStaysReleased
    <2> QED
        BY <2>1, <2>2
<1> QED
    BY <1>1, <1>2

\* Where the signal thread is once it has won tear_down_once.
LEMMA SignalMoves ==
    ASSUME Ownership, Next, winner' = "signal"
    PROVE  \/ UNCHANGED <<winner, sig, sigFan>>
           \/ sigFan' = 0 /\ sig' = "release"
           \/ winner = "signal" /\ (SignalReleaseFan \/ SignalReleaseFtst)
<1> USE DEF smc, process, session, main, sigThread, history, EndProcess
<1>1. CASE MainStep
    <2>1. CASE TakeLock \/ OpenConnections \/ StartCommand \/ ExitOnMissingFan \/ TickFan \/ TickEnd
        BY <2>1, Zenon DEF TakeLock, OpenConnections, StartCommand, ExitOnMissingFan, TickFan, TickEnd
    <2>2. CASE SpawnSignalThread
        <3>1. pc = "spawn" /\ winner' = winner
            BY <2>2, PointsAre, Zenon DEF SpawnSignalThread
        <3> QED
            BY <3>1 DEF Ownership, AcquirePoints
    <2>3. CASE UnlockWrite \/ UnlockRead \/ CheckTarget \/ VerifiedWrite \/ VerifyRead
        BY <2>3, Zenon DEF UnlockWrite, UnlockRead, CheckTarget, VerifiedWrite, VerifyRead
    <2>4. CASE BeginTeardown
        <3>1. winner' \in {"main", winner} /\ UNCHANGED <<sig, sigFan>>
            BY <2>4, Zenon DEF BeginTeardown
        <3> QED
            BY <3>1
    <2>5. CASE ReleaseFan \/ FansReleased \/ StopWatchdog \/ ReleaseUnlock \/ ForceFtstZero
        BY <2>5, Zenon DEF ReleaseFan, FansReleased, StopWatchdog, ReleaseUnlock, ForceFtstZero
    <2>6. CASE CloseConnection \/ DropLock \/ ExitMain
        BY <2>6, Zenon DEF CloseConnection, DropLock, ExitMain
    <2> QED
        BY <1>1, <2>1, <2>2, <2>3, <2>4, <2>5, <2>6, Zenon DEF MainStep
<1>2. CASE PanicStep
    BY <1>2, Zenon DEF PanicStep, MainPanics, HookReleaseFan, HookReleaseFtst, Abort
<1>3. CASE SignalStep
    <2>1. CASE UnblockSignals \/ RegisterHandlers
        <3>1. sig \in {"starting", "unmasked"} /\ winner' = winner
            BY <2>1, Zenon DEF UnblockSignals, RegisterHandlers
        <3> QED
            BY <3>1 DEF Ownership
    <2>2. CASE HandleTerm
        BY <2>2, Zenon DEF HandleTerm
    <2>3. CASE SignalReleaseFan \/ SignalReleaseFtst
        <3>1. winner' = winner
            BY <2>3, Zenon DEF SignalReleaseFan, SignalReleaseFtst
        <3> QED
            BY <2>3, <3>1
    <2>4. CASE HandleHup \/ SignalExit
        BY <2>4, Zenon DEF HandleHup, SignalExit
    <2> QED
        BY <1>3, <2>1, <2>2, <2>3, <2>4, Zenon DEF SignalStep
<1>4. CASE WatchdogStep \/ Environment
    BY <1>4, Zenon DEF WatchdogStep, WatchdogCheckFlags, WatchdogCheckClock, Environment, SendSignal,
       DefaultAction, Kill, ThermalReclaims
<1> QED
    BY <1>1, <1>2, <1>3, <1>4, Zenon DEF Next

LEMMA InterruptKept == TypeOK /\ Ownership /\ Ownership' /\ Interrupt /\ Next => Interrupt'
<1> SUFFICES ASSUME TypeOK, Ownership, Ownership', Interrupt, Next
             PROVE  Interrupt'
    OBVIOUS
<1>1. /\ cmd' = "dry-run" => pc' \notin CommandPoints \ {"ready"}
      /\ pc' = "tick" => cmd' \in {"run", "run-once"}
    BY InterruptPoints
<1>2. CASE winner' # "signal"
    <2>1. sig' # "exit"
        BY <1>2 DEF Ownership
    <2> QED
        BY <1>1, <1>2, <2>1 DEF Interrupt
<1>3. CASE winner' = "signal"
    <2>1. CASE sigFan' = 0 /\ sig' = "release"
        <3>1. \A f \in Fans : ~(f < sigFan')
            BY <2>1 DEF Fans
        <3> QED
            BY <1>1, <2>1, <3>1 DEF Interrupt
    <2>2. ASSUME winner = "signal",
                 \/ UNCHANGED <<sig, sigFan>>
                 \/ SignalReleaseFan
                 \/ SignalReleaseFtst
          PROVE  Interrupt'
        <3>1. /\ sigFan' \in {sigFan, sigFan + 1} /\ (sigFan' = sigFan + 1 => SignalReleaseFan)
              /\ sig' = "exit" => sigFan' = NumFans
            <4>1. sigFan \in 0 .. NumFans /\ NumFans \in Nat
                BY NumFansAssumption DEF TypeOK, StateTypes
            <4>2. sig = "exit" => sigFan = NumFans
                BY DEF Interrupt
            <4>3. CASE UNCHANGED <<sig, sigFan>>
                BY <4>1, <4>2, <4>3
            <4>4. CASE SignalReleaseFan
                <5>1. sig' = "release" /\ sigFan' = sigFan + 1
                    BY <4>4, Zenon DEF SignalReleaseFan
                <5> QED
                    BY <4>4, <5>1
            <4>5. CASE SignalReleaseFtst
                <5>1. ~MoreFans(sigFan) /\ sigFan' = sigFan
                    BY <4>5, Zenon DEF SignalReleaseFtst, sigThread
                <5> QED
                    BY <4>1, <5>1 DEF MoreFans
            <4> QED
                BY <2>2, <4>3, <4>4, <4>5
        <3>2. ASSUME pc' \notin PanicPoints, cmd' \notin {"run", "run-once"}, NEW f \in Fans, f < sigFan'
              PROVE  ReleasedFan(f)' \/ Held(f)'
            <4>1. cmd = cmd' /\ pc \notin PanicPoints
                <5>1. cmd' = cmd
                    BY CommandStays
                <5> QED
                    BY <3>2, <5>1, PanicStays
            <4>2. CASE f < sigFan
                <5>1. ReleasedFan(f) \/ Held(f)
                    BY <2>2, <3>2, <4>1, <4>2 DEF Interrupt
                <5> QED
                    BY <2>2, <3>2, <4>1, <5>1, InterruptedStep
            <4>3. CASE ~(f < sigFan)
                <5>1. SignalReleaseFan /\ f = sigFan
                    <6>1. sigFan \in 0 .. NumFans /\ NumFans \in Nat /\ f \in Nat
                        BY NumFansAssumption DEF TypeOK, StateTypes, Fans
                    <6> QED
                        BY <3>1, <3>2, <4>3, <6>1
                <5>2. PICK outcome \in WriteOutcomes : ForceWriteAutoMode(sigFan, outcome)
                    BY <5>1, Zenon DEF SignalReleaseFan
                <5> QED
                    BY <5>1, <5>2, AutoWriteReleases DEF ReleasedFan
            <4> QED
                BY <4>2, <4>3
        <3> QED
            BY <1>1, <3>1, <3>2 DEF Interrupt
    <2> QED
        BY <1>3, <2>1, <2>2, SignalMoves
<1> QED
    BY <1>2, <1>3

\* Whatever the main thread of `set` or `selftest` does while the signal thread tears
\* down, one fan at most is left forced, and none in a dry run.
THEOREM InterruptLeavesOne == Spec => []InterruptLeavesOneFan
<1>1. Init => Interrupt
    BY DEF Init, Interrupt, CommandPoints
<1>2. Interrupt /\ UNCHANGED vars => Interrupt'
    BY DEF Interrupt, ReleasedFan, Held, vars, smc, process, main, sigThread, history
<1>3. TypeOK /\ Ownership /\ Interrupt => InterruptLeavesOneFan
    <2> SUFFICES ASSUME Ownership, Interrupt, ending = "signal", cmd \in {"set", "dry-run", "selftest"},
                        pc \notin PanicPoints, NEW f \in Fans
                 PROVE  ReleasedFan(f) \/ (f = fan /\ cmd # "dry-run")
        BY DEF InterruptLeavesOneFan
    <2>1. sig = "exit" /\ winner = "signal" /\ sigFan = NumFans
        BY DEF Ownership, Interrupt
    <2>2. f < sigFan
        BY <2>1, NumFansAssumption DEF Fans
    <2> QED
        BY <2>1, <2>2 DEF Interrupt, Held
<1> QED
    BY <1>1, <1>2, <1>3, InterruptKept, TypeCorrect, OwnershipCorrect, PTL DEF Spec

-----------------------------------------------------------------------------
(* Leaving.                                                                  *)

\* How far each point of the way out is from the end.
LEMMA StepsAre ==
    /\ pc = "abort" => StepsToEnd = 1
    /\ pc = "hook" => StepsToEnd = 2 + (NumFans - fan)
    /\ pc = "exit" => StepsToEnd = 3 + NumFans
    /\ pc = "drop" => StepsToEnd = 4 + NumFans
    /\ pc = "close" => StepsToEnd = 5 + NumFans
    /\ pc = "force-ftst" => StepsToEnd = 6 + NumFans
    /\ pc = "relock" => StepsToEnd = 7 + NumFans
    /\ pc = "stop" => StepsToEnd = 8 + NumFans
    /\ pc = "release" => StepsToEnd = 9 + NumFans + (NumFans - fan)
    /\ pc = "teardown" => StepsToEnd = 10 + NumFans + NumFans
BY DEF StepsToEnd

LEMMA StepsAreNext ==
    /\ pc' = "abort" => StepsToEnd' = 1
    /\ pc' = "hook" => StepsToEnd' = 2 + (NumFans - fan')
    /\ pc' = "exit" => StepsToEnd' = 3 + NumFans
    /\ pc' = "drop" => StepsToEnd' = 4 + NumFans
    /\ pc' = "close" => StepsToEnd' = 5 + NumFans
    /\ pc' = "force-ftst" => StepsToEnd' = 6 + NumFans
    /\ pc' = "relock" => StepsToEnd' = 7 + NumFans
    /\ pc' = "stop" => StepsToEnd' = 8 + NumFans
    /\ pc' = "release" => StepsToEnd' = 9 + NumFans + (NumFans - fan')
    /\ pc' = "teardown" => StepsToEnd' = 10 + NumFans + NumFans
BY DEF StepsToEnd

LEMMA LeavingStep ==
    ASSUME TypeOK, Next, pc \in EndPoints, MainMoves
    PROVE  ~Alive' \/ (pc' \in EndPoints /\ StepsToEnd' < StepsToEnd)
<1> USE DEF EndPoints, ChecklistPoints, LeavePoints, PanicPoints
<1>0. fan \in 0 .. NumFans /\ NumFans \in Nat
    BY NumFansAssumption DEF TypeOK, StateTypes
<1>1. CASE BeginTeardown
    <2>1. pc = "teardown" /\ ((pc' = "release" /\ fan' = 0) \/ pc' = "close")
        BY <1>1, Zenon DEF BeginTeardown, Goto
    <2> QED
        BY <1>0, <2>1, StepsAre, StepsAreNext
<1>2. CASE ReleaseFan
    <2>1. pc = "release" /\ pc' = "release" /\ fan' = fan + 1
        BY <1>2, Zenon DEF ReleaseFan, Goto
    <2> QED
        BY <1>0, <2>1, StepsAre, StepsAreNext
<1>3. CASE FansReleased
    <2>1. pc = "release" /\ pc' \in {"stop", "force-ftst"}
        BY <1>3 DEF FansReleased, Goto
    <2> QED
        BY <1>0, <2>1, StepsAre, StepsAreNext
<1>4. CASE StopWatchdog
    <2>1. pc = "stop" /\ pc' = "relock"
        BY <1>4, Zenon DEF StopWatchdog, Goto
    <2> QED
        BY <1>0, <2>1, StepsAre, StepsAreNext
<1>5. CASE ReleaseUnlock
    <2>1. pc = "relock" /\ pc' = "force-ftst"
        BY <1>5, Zenon DEF ReleaseUnlock, Goto
    <2> QED
        BY <1>0, <2>1, StepsAre, StepsAreNext
<1>6. CASE ForceFtstZero
    <2>1. pc = "force-ftst" /\ pc' = "close"
        BY <1>6, Zenon DEF ForceFtstZero, Goto
    <2> QED
        BY <1>0, <2>1, StepsAre, StepsAreNext
<1>7. CASE CloseConnection
    <2>1. pc = "close" /\ pc' = "drop"
        BY <1>7, Zenon DEF CloseConnection, Goto
    <2> QED
        BY <1>0, <2>1, StepsAre, StepsAreNext
<1>8. CASE DropLock
    <2>1. pc = "drop" /\ pc' = "exit"
        BY <1>8, Zenon DEF DropLock, Goto
    <2> QED
        BY <1>0, <2>1, StepsAre, StepsAreNext
<1>9. CASE ExitMain
    BY <1>9 DEF ExitMain, EndProcess
<1>10. CASE MainPanics
    <2>1. CASE hook
        <3>1. pc \notin PanicPoints /\ pc' = "hook" /\ fan' = 0
            BY <1>10, <2>1, Zenon DEF MainPanics, Goto
        <3> QED
            BY <1>0, <3>1, StepsAre, StepsAreNext
    <2>2. CASE ~hook
        BY <1>10, <2>2 DEF MainPanics, EndProcess
    <2> QED
        BY <2>1, <2>2
<1>11. CASE HookReleaseFan
    <2>1. pc = "hook" /\ pc' = "hook" /\ fan' = fan + 1
        BY <1>11, Zenon DEF HookReleaseFan, Goto
    <2> QED
        BY <1>0, <2>1, StepsAre, StepsAreNext
<1>12. CASE HookReleaseFtst
    <2>1. pc = "hook" /\ pc' = "abort"
        BY <1>12, Zenon DEF HookReleaseFtst, Goto
    <2> QED
        BY <1>0, <2>1, StepsAre, StepsAreNext
<1>13. CASE Abort
    BY <1>13 DEF Abort, EndProcess
<1>14. CASE \/ TakeLock \/ OpenConnections \/ SpawnSignalThread \/ StartCommand \/ ExitOnMissingFan
            \/ TickFan \/ TickEnd
            \/ UnlockWrite \/ UnlockRead \/ CheckTarget \/ VerifiedWrite \/ VerifyRead
    BY <1>14, PointsAre
<1> QED
    BY <1>1, <1>2, <1>3, <1>4, <1>5, <1>6, <1>7, <1>8, <1>9, <1>10, <1>11, <1>12, <1>13, <1>14, Zenon
    DEF MainMoves, MainStep, PanicStep

\* A main thread that leaves, by its teardown or by a panic, has at most StepsToEnd
\* steps to take.
THEOREM LeavingIsBounded == Spec => LeavingAdvances
<1>1. TypeOK /\ [Next]_vars =>
        [MainMoves /\ pc \in EndPoints =>
            ~Alive' \/ (pc' \in EndPoints /\ StepsToEnd' < StepsToEnd)]_vars
    BY LeavingStep
<1> QED
    BY <1>1, TypeCorrect, PTL DEF Spec, LeavingAdvances

-----------------------------------------------------------------------------
(* The watchdog follows the unlock.                                          *)

\* A step of the main thread that leaves unlock and the watchdog alone.
LEMMA MoveWatched ==
    ASSUME Watched, UNCHANGED <<unlock, wd, watchdog_stop, tear_down_once, winner, cmd>>,
           pc' \in {"target", "hold"} => unlock,
           pc' \in {"write", "read"} => unlock \/ cmd = "selftest"
    PROVE  Watched'
BY Zenon DEF Watched

\* Recording the unlock starts the watchdog thread with it.
LEMMA HoldUnlockWatched ==
    ASSUME Watched, HoldUnlock, UNCHANGED winner
    PROVE  Watched'
<1>1. wd' = "polling" /\ unlock'
    BY Zenon DEF HoldUnlock, StartWatchdog
<1>2. pc' = "target" /\ UNCHANGED <<watchdog_stop, winner>>
    BY DEF HoldUnlock, Goto
<1> QED
    BY <1>1, <1>2, Zenon DEF Watched

\* A process that ends has nothing to watch.
LEMMA EndProcessWatched ==
    ASSUME Watched, NEW how, EndProcess(how)
    PROVE  Watched'
BY MoveWatched DEF EndProcess, Watched, main, history

\* Every step of the main thread leaves a recorded unlock watched.
LEMMA MainStepWatched == Ownership /\ Watched /\ MainStep => Watched'
<1> SUFFICES ASSUME Ownership, Watched, MainStep
             PROVE  Watched'
    OBVIOUS
<1> USE DEF smc, process, session, main, sigThread, history
<1>1. CASE TakeLock \/ OpenConnections \/ SpawnSignalThread
    BY <1>1, EndProcessWatched, MoveWatched DEF TakeLock, OpenConnections, SpawnSignalThread
<1>2. CASE StartCommand
    BY <1>2, MoveWatched DEF StartCommand, Goto, CommitPoint
<1>3. CASE ExitOnMissingFan
    BY <1>3, EndProcessWatched DEF ExitOnMissingFan
<1>4. CASE TickFan \/ TickEnd
    BY <1>4, MoveWatched DEF TickFan, TickEnd, Goto, CommitPoint
<1>5. CASE UnlockWrite
    BY <1>5, HoldUnlockWatched, MoveWatched DEF UnlockWrite, GiveUp, Goto
<1>6. CASE UnlockRead
    BY <1>6, HoldUnlockWatched, MoveWatched DEF UnlockRead, GiveUp, Goto
<1>7. CASE CheckTarget
    BY <1>7, MoveWatched DEF CheckTarget, GiveUp, Goto, Watched
<1>8. CASE VerifiedWrite
    BY <1>8, MoveWatched DEF VerifiedWrite, GiveUp, Goto, Watched
<1>9. CASE VerifyRead
    BY <1>9, MoveWatched DEF VerifyRead, Proceed, GiveUp, Goto, Watched
<1>10. CASE BeginTeardown
    <2>1. CASE TeardownWon
        BY <1>10, <2>1, Zenon DEF BeginTeardown, TeardownWon, Goto, Watched, Ownership
    <2>2. CASE ~TeardownWon
        BY <1>10, <2>2, MoveWatched DEF BeginTeardown, Goto
    <2> QED
        BY <2>1, <2>2
<1>11. CASE ReleaseFan \/ FansReleased \/ ForceFtstZero
    BY <1>11, MoveWatched DEF ReleaseFan, FansReleased, ForceFtstZero, Goto
<1>12. CASE StopWatchdog
    BY <1>12, Zenon DEF StopWatchdog, Goto, Watched, Ownership, ChecklistPoints
<1>13. CASE ReleaseUnlock
    BY <1>13, Zenon DEF ReleaseUnlock, Goto, Watched
<1>14. CASE CloseConnection \/ DropLock
    BY <1>14, MoveWatched DEF CloseConnection, DropLock, Goto
<1>15. CASE ExitMain
    BY <1>15, EndProcessWatched DEF ExitMain
<1> QED
    BY <1>1, <1>2, <1>3, <1>4, <1>5, <1>6, <1>7, <1>8, <1>9, <1>10, <1>11, <1>12,
       <1>13, <1>14, <1>15 DEF MainStep

\* The watchdog thread stops polling only after a release has begun.
LEMMA OtherStepWatched ==
    Ownership /\ Watched /\ (PanicStep \/ SignalStep \/ WatchdogStep \/ Environment)
    => Watched'
<1> SUFFICES ASSUME Ownership, Watched,
                    PanicStep \/ SignalStep \/ WatchdogStep \/ Environment
             PROVE  Watched'
    OBVIOUS
<1> USE DEF smc, process, session, main, sigThread, history
<1>1. CASE MainPanics
    <2>1. CASE hook
        BY <1>1, <2>1, MoveWatched DEF MainPanics, Goto
    <2>2. CASE ~hook
        BY <1>1, <2>2, EndProcessWatched DEF MainPanics
    <2> QED
        BY <2>1, <2>2
<1>2. CASE HookReleaseFan \/ HookReleaseFtst
    BY <1>2, MoveWatched DEF HookReleaseFan, HookReleaseFtst, Goto
<1>3. CASE Abort
    BY <1>3, EndProcessWatched DEF Abort
<1>4. CASE UnblockSignals \/ RegisterHandlers \/ HandleHup
    BY <1>4, MoveWatched DEF UnblockSignals, RegisterHandlers, HandleHup, Watched
<1>5. CASE HandleTerm
    <2>1. CASE TeardownWon
        BY <1>5, <2>1, Zenon DEF HandleTerm, TeardownWon, Ownership, Watched
    <2>2. CASE ~TeardownWon
        BY <1>5, <2>2, EndProcessWatched DEF HandleTerm
    <2> QED
        BY <2>1, <2>2
<1>6. CASE SignalReleaseFan \/ SignalReleaseFtst
    BY <1>6, MoveWatched DEF SignalReleaseFan, SignalReleaseFtst, Watched
<1>7. CASE SignalExit
    BY <1>7, EndProcessWatched DEF SignalExit
<1>8. CASE WatchdogStep
    <2>1. CASE WatchdogCheckFlags
        BY <2>1, Zenon DEF WatchdogCheckFlags, Watched
    <2>2. CASE WatchdogCheckClock
        BY <2>2 DEF WatchdogCheckClock, Watched
    <2> QED
        BY <1>8, <2>1, <2>2 DEF WatchdogStep
<1>9. CASE DefaultAction \/ Kill
    BY <1>9, EndProcessWatched DEF DefaultAction, Kill
<1>10. CASE (\E s \in Signals : SendSignal(s)) \/ (\E f \in Fans : ThermalReclaims(f))
    BY <1>10, MoveWatched DEF SendSignal, ThermalReclaims, Watched
<1> QED
    BY <1>1, <1>2, <1>3, <1>4, <1>5, <1>6, <1>7, <1>8, <1>9, <1>10
    DEF PanicStep, SignalStep, Environment

\* In every reachable state a recorded unlock has its watchdog thread, unless a
\* release has begun (unlock.rs:98-127), and set holds a fan only with one.
THEOREM WatchedCorrect == Spec => []Watched
<1>1. Init => Watched
    BY Zenon DEF Init, Watched
<1>2. Ownership /\ Watched /\ [Next]_vars => Watched'
    <2>1. Ownership /\ Watched /\ Next => Watched'
        BY MainStepWatched, OtherStepWatched DEF Next
    <2>2. Watched /\ UNCHANGED vars => Watched'
        BY DEF Watched, vars, process, session, main, history
    <2> QED
        BY <2>1, <2>2
<1> QED
    BY <1>1, <1>2, OwnershipCorrect, PTL DEF Spec

\* While an override is held, a watchdog thread polls or has fired, unless a
\* release has begun.
THEOREM HeldFansAreWatched == Spec => []HeldFanIsWatched
<1>1. TypeOK /\ Ownership /\ Watched => HeldFanIsWatched
    BY Zenon DEF TypeOK, StateTypes, Ownership, Watched, HeldFanIsWatched,
       ChecklistPoints, PanicPoints
<1> QED
    BY <1>1, TypeCorrect, OwnershipCorrect, WatchedCorrect, PTL

-----------------------------------------------------------------------------
(* WriteSession implements FanOverride.                                      *)

LEMMA ReleaseStep ==
    ASSUME TypeOK, Alive, NEW f \in Fans, NEW outcome \in WriteOutcomes,
           ForceWriteAutoMode(f, outcome), OverridePhase' = OverridePhase
    PROVE  Override!Next
<1>1. Override!Live
    BY DEF OverridePhase, Override!Live
<1>2. f \in Override!Fans
    BY DEF Fans, Override!Fans
<1>3. CASE outcome = "refused"
    <2>1. md' = md /\ failed' = failed \cup {f}
        BY <1>3 DEF ForceWriteAutoMode, WriteMode, TypeOK, StateTypes
    <2>2. Override!ReleaseRefused(f)
        BY <1>1, <2>1 DEF Override!ReleaseRefused
    <2> QED
        BY <1>2, <2>2 DEF Override!Next
<1>4. CASE outcome # "refused"
    <2>1. /\ md' = [md EXCEPT ![f] = "auto"]
          /\ failed' \in {failed \ {f}, failed \cup {f}}
        BY <1>4 DEF ForceWriteAutoMode, WriteMode
    <2>2. Override!Release(f)
        BY <1>1, <2>1 DEF Override!Release
    <2> QED
        BY <1>2, <2>2 DEF Override!Next
<1> QED
    BY <1>3, <1>4

\* The process ends in a way that promises nothing.
LEMMA LoseStep ==
    ASSUME Alive, NEW how, EndProcess(how), how # "none", OverridePhase' = "lost"
    PROVE  Override!Next
<1>1. Override!Live
    BY DEF OverridePhase, Override!Live
<1> QED
    BY <1>1 DEF EndProcess, smc, history, Override!Lose, Override!Next

\* The process ends in one of the ways that promise a release.
LEMMA CloseStep ==
    ASSUME TypeOK, Alive, OverridePhase # "idle", AllFansReleased,
           NEW how, EndProcess(how), OverridePhase' = "closed"
    PROVE  Override!Next
<1>1. OverridePhase \in {"open", "closing"}
    BY DEF OverridePhase
<1>2. \A f \in Override!Fans : md[f] = "auto" \/ f \in failed
    BY DEF AllFansReleased, ReleasedFan, Fans, Override!Fans
<1> QED
    BY <1>1, <1>2 DEF EndProcess, smc, history, Override!Close, Override!Next

\* A step that leaves the fans alone and the session open, or idle.
LEMMA QuietStep ==
    ASSUME UNCHANGED <<md, failed>>, OverridePhase' = OverridePhase
    PROVE  UNCHANGED Override!vars
BY DEF Override!vars

\* The verified write of a mode, inside an open session.
LEMMA VerifiedWriteStep ==
    ASSUME TypeOK, Ownership, VerifiedWrite
    PROVE  [Override!Next]_(Override!vars)
<1> USE DEF process, session, sigThread
<1>1. OverridePhase = "open" /\ OverridePhase' = "open" /\ fan \in Fans
    BY DEF VerifiedWrite, GiveUp, Goto, OverridePhase, Ownership, AcquirePoints,
           ChecklistPoints, PanicPoints, TypeOK, StateTypes
<1>2. PICK outcome \in WriteOutcomes : WriteMode(fan, val, outcome)
    BY DEF VerifiedWrite
<1>3. CASE val = "auto"
    <2>1. ForceWriteAutoMode(fan, outcome)
        BY <1>2, <1>3 DEF ForceWriteAutoMode
    <2> QED
        BY <1>1, <2>1, ReleaseStep DEF VerifiedWrite
<1>4. CASE val # "auto" /\ outcome = "refused"
    BY <1>1, <1>2, <1>4, QuietStep DEF WriteMode, TypeOK, StateTypes
<1>5. CASE val # "auto" /\ outcome # "refused"
    <2>1. /\ md' = [md EXCEPT ![fan] = "forced"]
          /\ failed' = failed \ {fan}
        BY <1>2, <1>5 DEF WriteMode, TypeOK, StateTypes
    <2>2. Override!Force(fan)
        BY <1>1, <2>1 DEF Override!Force
    <2> QED
        BY <1>1, <2>2 DEF Override!Next, Override!Fans, Fans
<1> QED
    BY <1>3, <1>4, <1>5

\* Every step of the main thread is a step of FanOverride or leaves it alone.
LEMMA MainStepRefines ==
    TypeOK /\ Ownership /\ Progress /\ MainStep => [Override!Next]_(Override!vars)
<1> SUFFICES ASSUME TypeOK, Ownership, Progress, MainStep
             PROVE  [Override!Next]_(Override!vars)
    OBVIOUS
<1> USE DEF smc, process, session, main, sigThread, history
<1>1. CASE TakeLock \/ OpenConnections
    <2>1. winner # "main"
        BY <1>1 DEF TakeLock, OpenConnections, Ownership, ChecklistPoints, PanicPoints
    <2>2. CASE EndProcess("error")
        BY <1>1, <2>2, LoseStep DEF TakeLock, OpenConnections, EndProcess, OverridePhase
    <2>3. CASE ~EndProcess("error")
        <3>1. OverridePhase' = OverridePhase /\ UNCHANGED <<md, failed>>
            BY <1>1, <2>1, <2>3
            DEF TakeLock, OpenConnections, OverridePhase, AcquirePoints, PanicPoints
        <3> QED
            BY <3>1, QuietStep
    <2> QED
        BY <2>2, <2>3
<1>2. CASE SpawnSignalThread
    <2>1. OverridePhase = "idle" /\ OverridePhase' = "open"
        BY <1>2 DEF SpawnSignalThread, OverridePhase, Ownership, AcquirePoints,
           ChecklistPoints, PanicPoints
    <2> QED
        BY <1>2, <2>1 DEF SpawnSignalThread, Override!Open, Override!Next
<1>3. CASE StartCommand
    BY <1>3, QuietStep DEF StartCommand, Goto, CommitPoint, OverridePhase,
       AcquirePoints, PanicPoints
<1>4. CASE ExitOnMissingFan
    <2>1. Alive /\ EndProcess("error")
        BY <1>4 DEF ExitOnMissingFan
    <2>2. OverridePhase' = "lost"
        BY <2>1 DEF EndProcess, OverridePhase
    <2> QED
        BY <2>1, <2>2, LoseStep
<1>5. CASE TickFan \/ TickEnd
    BY <1>5, QuietStep DEF TickFan, TickEnd, Goto, CommitPoint, OverridePhase,
       AcquirePoints, PanicPoints
<1>6. CASE UnlockWrite
    <2>1. CASE HoldUnlock
        BY <1>6, <2>1, QuietStep
        DEF UnlockWrite, HoldUnlock, Goto, OverridePhase, AcquirePoints, PanicPoints
    <2>2. CASE ~HoldUnlock
        BY <1>6, <2>2, QuietStep
        DEF UnlockWrite, GiveUp, Goto, OverridePhase, AcquirePoints, PanicPoints
    <2> QED
        BY <2>1, <2>2
<1>7. CASE UnlockRead
    <2>1. CASE HoldUnlock
        BY <1>7, <2>1, QuietStep
        DEF UnlockRead, HoldUnlock, Goto, OverridePhase, AcquirePoints, PanicPoints
    <2>2. CASE ~HoldUnlock
        BY <1>7, <2>2, QuietStep
        DEF UnlockRead, GiveUp, Goto, OverridePhase, AcquirePoints, PanicPoints
    <2> QED
        BY <2>1, <2>2
<1>8. CASE CheckTarget
    BY <1>8, QuietStep
    DEF CheckTarget, GiveUp, Goto, OverridePhase, AcquirePoints, PanicPoints
<1>9. CASE VerifiedWrite
    BY <1>9, VerifiedWriteStep
<1>10. CASE VerifyRead
    BY <1>10, QuietStep
    DEF VerifyRead, Proceed, GiveUp, Goto, OverridePhase, AcquirePoints, PanicPoints
<1>11. CASE BeginTeardown
    <2>1. OverridePhase = "open"
        BY <1>11 DEF BeginTeardown, OverridePhase, Ownership, AcquirePoints,
           ChecklistPoints, PanicPoints
    <2>2. CASE TeardownWon
        <3>1. OverridePhase' = "closing" /\ UNCHANGED <<md, failed>>
            BY <1>11, <2>2 DEF BeginTeardown, OverridePhase
        <3> QED
            BY <2>1, <3>1 DEF Override!StartClosing, Override!Next
    <2>3. CASE ~TeardownWon
        BY <1>11, <2>1, <2>3, QuietStep
        DEF BeginTeardown, Goto, OverridePhase, AcquirePoints, PanicPoints
    <2> QED
        BY <2>2, <2>3
<1>12. CASE ReleaseFan
    <2>1. fan \in Fans
        BY <1>12, NumFansAssumption DEF ReleaseFan, MoreFans, Fans, TypeOK, StateTypes
    <2>2. OverridePhase' = OverridePhase
        BY <1>12 DEF ReleaseFan, OverridePhase, Ownership, ChecklistPoints
    <2> QED
        BY <1>12, <2>1, <2>2, ReleaseStep DEF ReleaseFan
<1>13. CASE FansReleased \/ StopWatchdog \/ ReleaseUnlock \/ ForceFtstZero
    BY <1>13, QuietStep DEF FansReleased, StopWatchdog, ReleaseUnlock, ForceFtstZero,
       OverridePhase, Ownership, ChecklistPoints
<1>14. CASE CloseConnection \/ DropLock
    BY <1>14, QuietStep
    DEF CloseConnection, DropLock, Goto, OverridePhase, AcquirePoints, PanicPoints
<1>15. CASE ExitMain
    <2>1. CASE winner = "main"
        <3>1. AllFansReleased /\ OverridePhase = "closing"
            BY <1>15, <2>1 DEF ExitMain, Progress, OverridePhase
        <3>2. OverridePhase' = "closed"
            BY <1>15, <2>1 DEF ExitMain, EndProcess, OverridePhase
        <3> QED
            BY <1>15, <3>1, <3>2, CloseStep DEF ExitMain
    <2>2. CASE winner # "main"
        <3>1. Alive /\ EndProcess("clean")
            BY <1>15 DEF ExitMain
        <3>2. OverridePhase' = "lost"
            BY <2>2, <3>1 DEF EndProcess, OverridePhase
        <3> QED
            BY <3>1, <3>2, LoseStep
    <2> QED
        BY <2>1, <2>2
<1> QED
    BY <1>1, <1>2, <1>3, <1>4, <1>5, <1>6, <1>7, <1>8, <1>9, <1>10, <1>11, <1>12,
       <1>13, <1>14, <1>15 DEF MainStep

\* So is every step of the panic hook, the other threads and the environment.
LEMMA OtherStepRefines ==
    TypeOK /\ Ownership /\ Progress
        /\ (PanicStep \/ SignalStep \/ WatchdogStep \/ Environment)
    => [Override!Next]_(Override!vars)
<1> SUFFICES ASSUME TypeOK, Ownership, Progress,
                    PanicStep \/ SignalStep \/ WatchdogStep \/ Environment
             PROVE  [Override!Next]_(Override!vars)
    OBVIOUS
<1> USE DEF smc, process, session, main, sigThread, history
<1>1. CASE MainPanics
    <2>1. CASE hook
        <3>1. OverridePhase' = "closing" /\ UNCHANGED <<md, failed>>
            BY <1>1, <2>1 DEF MainPanics, Goto, OverridePhase, PanicPoints
        <3>2. OverridePhase \in {"idle", "open", "closing"}
            BY <1>1 DEF MainPanics, OverridePhase
        <3>3. CASE OverridePhase = "closing"
            BY <3>1, <3>3, QuietStep
        <3>4. CASE OverridePhase # "closing"
            BY <3>1, <3>2, <3>4 DEF Override!StartClosing, Override!Next
        <3> QED
            BY <3>3, <3>4
    <2>2. CASE ~hook
        <3>1. Alive /\ EndProcess("abort")
            BY <1>1, <2>2 DEF MainPanics
        <3>2. OverridePhase' = "lost"
            BY <2>2, <3>1 DEF EndProcess, OverridePhase
        <3> QED
            BY <3>1, <3>2, LoseStep
    <2> QED
        BY <2>1, <2>2
<1>2. CASE HookReleaseFan
    <2>1. fan \in Fans
        BY <1>2, NumFansAssumption DEF HookReleaseFan, MoreFans, Fans, TypeOK, StateTypes
    <2>2. OverridePhase' = OverridePhase
        BY <1>2 DEF HookReleaseFan, Goto, OverridePhase, PanicPoints
    <2> QED
        BY <1>2, <2>1, <2>2, ReleaseStep DEF HookReleaseFan
<1>3. CASE HookReleaseFtst
    BY <1>3, QuietStep DEF HookReleaseFtst, Goto, OverridePhase, PanicPoints
<1>4. CASE Abort
    <2>1. Alive /\ EndProcess("abort") /\ pc = "abort"
        BY <1>4 DEF Abort
    <2>2. CASE hook
        <3>1. AllFansReleased /\ OverridePhase # "idle"
            BY <2>1 DEF Progress, Released, AllFansReleased, OverridePhase, PanicPoints
        <3>2. OverridePhase' = "closed"
            BY <2>1, <2>2 DEF EndProcess, OverridePhase
        <3> QED
            BY <2>1, <3>1, <3>2, CloseStep
    <2>3. CASE ~hook
        <3>1. OverridePhase' = "lost"
            BY <2>1, <2>3 DEF EndProcess, OverridePhase
        <3> QED
            BY <2>1, <3>1, LoseStep
    <2> QED
        BY <2>2, <2>3
<1>5. CASE UnblockSignals \/ RegisterHandlers \/ HandleHup
    BY <1>5, QuietStep DEF UnblockSignals, RegisterHandlers, HandleHup, OverridePhase
<1>6. CASE HandleTerm
    <2>1. CASE TeardownWon
        <3>1. /\ winner # "main" /\ winner' # "main"
              /\ UNCHANGED <<md, failed, ending, pc>>
            BY <1>6, <2>1, Zenon DEF HandleTerm, TeardownWon, Ownership
        <3>2. OverridePhase' = OverridePhase
            BY <1>6, <3>1 DEF HandleTerm, OverridePhase
        <3> QED
            BY <3>1, <3>2, QuietStep
    <2>2. CASE ~TeardownWon
        <3>1. Alive /\ EndProcess("forced")
            BY <1>6, <2>2 DEF HandleTerm
        <3>2. OverridePhase' = "lost"
            BY <3>1 DEF EndProcess, OverridePhase
        <3> QED
            BY <3>1, <3>2, LoseStep
    <2> QED
        BY <2>1, <2>2
<1>7. CASE SignalReleaseFan
    <2>1. sigFan \in Fans
        BY <1>7, NumFansAssumption
        DEF SignalReleaseFan, MoreFans, Fans, TypeOK, StateTypes
    <2>2. OverridePhase' = OverridePhase
        BY <1>7 DEF SignalReleaseFan, OverridePhase
    <2> QED
        BY <1>7, <2>1, <2>2, ReleaseStep DEF SignalReleaseFan
<1>8. CASE SignalReleaseFtst
    BY <1>8, QuietStep DEF SignalReleaseFtst, OverridePhase
<1>9. CASE SignalExit
    <2>1. Alive /\ EndProcess("signal") /\ sig = "exit"
        BY <1>9 DEF SignalExit
    <2>2. CASE quiet
        <3>1. AllFansReleased /\ OverridePhase # "idle"
            BY <2>1, <2>2 DEF Progress, Released, AllFansReleased, Ownership,
               OverridePhase, AcquirePoints, PanicPoints
        <3>2. OverridePhase' = "closed"
            BY <2>1, <2>2 DEF EndProcess, OverridePhase
        <3> QED
            BY <2>1, <3>1, <3>2, CloseStep
    <2>3. CASE ~quiet
        <3>1. OverridePhase' = "lost"
            BY <2>1, <2>3 DEF EndProcess, OverridePhase
        <3> QED
            BY <2>1, <3>1, LoseStep
    <2> QED
        BY <2>2, <2>3
<1>10. CASE WatchdogStep
    BY <1>10, QuietStep
    DEF WatchdogStep, WatchdogCheckFlags, WatchdogCheckClock, OverridePhase
<1>11. CASE DefaultAction \/ Kill
    <2>1. Alive /\ EndProcess("killed")
        BY <1>11 DEF DefaultAction, Kill
    <2>2. OverridePhase' = "lost"
        BY <2>1 DEF EndProcess, OverridePhase
    <2> QED
        BY <2>1, <2>2, LoseStep
<1>12. CASE \E s \in Signals : SendSignal(s)
    BY <1>12, QuietStep DEF SendSignal, OverridePhase
<1>13. ASSUME NEW f \in Fans, ThermalReclaims(f)
       PROVE  Override!Next
    <2>1. /\ md' = [md EXCEPT ![f] = "auto"]
          /\ failed' \in {failed \ {f}, failed \cup {f}}
          /\ OverridePhase' = OverridePhase
        BY <1>13 DEF ThermalReclaims, OverridePhase
    <2>2. Override!Live
        BY <1>13 DEF ThermalReclaims, OverridePhase, Override!Live
    <2>3. Override!Release(f)
        BY <2>1, <2>2 DEF Override!Release
    <2> QED
        BY <2>3 DEF Override!Next, Override!Fans, Fans
<1> QED
    BY <1>1, <1>2, <1>3, <1>4, <1>5, <1>6, <1>7, <1>8, <1>9, <1>10, <1>11, <1>12, <1>13
    DEF PanicStep, SignalStep, Environment

\* Seen from the fans, the threads of a session behave as one override: fans are
\* forced only while it is open, never while it closes, and a session that closes
\* leaves forced only what the SMC refused to release.
THEOREM SessionIsOverride == Spec => OverrideSpec
<1>1. Init => Override!Init
    BY DEF Init, Override!Init, OverridePhase, Fans, Override!Fans, AcquirePoints, PanicPoints
<1>2. TypeOK /\ Ownership /\ Progress /\ [Next]_vars => [Override!Next]_(Override!vars)
    <2>1. TypeOK /\ Ownership /\ Progress /\ Next => [Override!Next]_(Override!vars)
        BY MainStepRefines, OtherStepRefines DEF Next
    <2>2. UNCHANGED vars => UNCHANGED Override!vars
        BY DEF vars, smc, process, session, main, history, Override!vars, OverridePhase
    <2> QED
        BY <2>1, <2>2
<1> QED
    BY <1>1, <1>2, TypeCorrect, OwnershipCorrect, ProgressCorrect, PTL
    DEF Spec, OverrideSpec, Override!Spec

\* Once main has won tear_down_once no step puts a fan back to forced: in the
\* override, only an open session forces.
THEOREM NothingForcedAfterTeardown == Spec => NoForcingAfterTeardown
<1>1. TypeOK /\ Ownership /\ Progress /\ [Next]_vars
        => [winner = "main" => \A f \in Fans : md[f] = "auto" => md'[f] = "auto"]_vars
    <2> SUFFICES ASSUME TypeOK, Ownership, Progress, [Next]_vars, winner = "main",
                        NEW f \in Fans, md[f] = "auto"
                 PROVE  md'[f] = "auto"
        OBVIOUS
    <2>1. OverridePhase # "open"
        BY DEF OverridePhase
    <2>2. CASE Next
        <3>1. [Override!Next]_(Override!vars)
            BY <2>2, MainStepRefines, OtherStepRefines DEF Next
        <3> QED
            BY <2>1, <3>1
            DEF TypeOK, StateTypes, Override!Next, Override!vars, Override!Open,
                Override!Force, Override!Release, Override!ReleaseRefused,
                Override!StartClosing, Override!Close, Override!Lose
    <2>3. CASE UNCHANGED vars
        BY <2>3 DEF vars, smc
    <2> QED
        BY <2>2, <2>3
<1> QED
    BY <1>1, TypeCorrect, OwnershipCorrect, ProgressCorrect, PTL
    DEF Spec, NoForcingAfterTeardown

=============================================================================
