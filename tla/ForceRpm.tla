------------------------------ MODULE ForceRpm ------------------------------
(***************************************************************************)
(* fand force-rpm: four ways to move fan 0 are tried one after the other,  *)
(* with mode 0 in between; the first that moves it by 500 RPM is held, and *)
(* the key it altered restored.  The command takes no lock.                *)
(***************************************************************************)
EXTENDS Machine

StartForce(p) ==
    /\ Start(p, "force", "read")
    /\ UNCHANGED <<smc, mine, lock, lost>>

\* The floor is read before anything is written, and kept for the restore.
ForceReads(p) ==
    /\ Is(p, "force", "read")
    /\ mine' = [mine EXCEPT ![p] = smc["F0Mn"]]
    /\ Goto(p, "reset")
    /\ UNCHANGED <<smc, lock, lost>>

\* It cannot be read, or its bytes are swapped and the clamp of the target
\* panics on a floor above the ceiling.
ForceGivesUp(p) ==
    /\ Is(p, "force", "read")
    /\ Exit(p)
    /\ UNCHANGED <<smc, lock, lost>>

\* Mode 0 before each path, and behind the last one.
ForceResets(p, ok) ==
    /\ Is(p, "force", "reset")
    /\ Reset("F0md", ok)
    /\ IF OnPath(p, 4) THEN Goto(p, "close") ELSE Try(p, at[p].path + 1)
    /\ UNCHANGED <<mine, lock>>

\* F0Tg or F0Dc alone; both keys are the firmware's to keep.
ForceDirect(p, ok) ==
    /\ Is(p, "force", "try") /\ at[p].path \in {1, 2}
    /\ Goto(p, IF ok THEN "settle" ELSE "reset")
    /\ UNCHANGED <<smc, mine, lock, lost>>

ForceMode(p, ok) ==
    /\ Is(p, "force", "try") /\ OnPath(p, 3)
    /\ Alter("F0md", ok)
    /\ Goto(p, IF ok THEN "second" ELSE "reset")
    /\ UNCHANGED <<mine, lock>>

ForceTarget(p, ok) ==
    /\ Is(p, "force", "second") /\ OnPath(p, 3)
    /\ Goto(p, IF ok THEN "settle" ELSE "reset")
    /\ UNCHANGED <<smc, mine, lock, lost>>

ForceRaises(p, ok) ==
    /\ Is(p, "force", "try") /\ OnPath(p, 4)
    /\ Alter("F0Mn", ok)
    /\ Goto(p, IF ok THEN "second" ELSE "restore")
    /\ UNCHANGED <<mine, lock>>

ForceRaisedModeOrLeaves(p, ok) ==                                 \* mutant
    /\ Is(p, "force", "second") /\ OnPath(p, 4)
    /\ Alter("F0md", ok)
    /\ Goto(p, IF ok THEN "settle" ELSE "reset")
    /\ UNCHANGED <<mine, lock>>

ForceRaisedMode(p, ok) ==
    /\ Is(p, "force", "second") /\ OnPath(p, 4)
    /\ Alter("F0md", ok)
    /\ Goto(p, IF ok THEN "settle" ELSE "restore")
    /\ UNCHANGED <<mine, lock>>

\* The speed is read: the fan has moved, and is held, or it has not.
ForceJudges(p, moved) ==
    /\ Is(p, "force", "settle")
    /\ Goto(p, IF moved THEN "hold" ELSE IF OnPath(p, 4) THEN "restore" ELSE "reset")
    /\ UNCHANGED <<smc, mine, lock, lost>>

ForceReturnsFromHold(p) ==                                        \* mutant
    /\ Is(p, "force", "hold")
    /\ Exit(p)
    /\ UNCHANGED <<smc, lock, lost>>

\* The hold ends with its time or at SIGINT or SIGTERM, whose flag nothing
\* but the hold looks at.
ForceEndsHold(p) ==
    /\ Is(p, "force", "hold")
    /\ Goto(p, IF OnPath(p, 4) THEN "undo" ELSE "close")
    /\ UNCHANGED <<smc, mine, lock, lost>>

ForceRestores(p, ok) ==
    /\ Is(p, "force", "restore")
    /\ Restore("F0Mn", mine[p], ok)
    /\ Goto(p, "reset")
    /\ UNCHANGED <<mine, lock>>

ForceRestoresAtEnd(p, ok) ==
    /\ Is(p, "force", "undo")
    /\ Restore("F0Mn", mine[p], ok)
    /\ Goto(p, "close")
    /\ UNCHANGED <<mine, lock>>

ForceCloses(p, ok) ==
    /\ Is(p, "force", "close")
    /\ Restore("F0md", Own, ok)
    /\ Exit(p)
    /\ UNCHANGED lock

ForceStep(p) ==
    \/ StartForce(p) \/ ForceReads(p) \/ ForceGivesUp(p) \/ ForceEndsHold(p)
    \/ \E ok \in BOOLEAN :
          \/ ForceResets(p, ok) \/ ForceDirect(p, ok) \/ ForceMode(p, ok) \/ ForceTarget(p, ok)
          \/ ForceRaises(p, ok) \/ ForceRaisedMode(p, ok) \/ ForceJudges(p, ok)
          \/ ForceRestores(p, ok) \/ ForceRestoresAtEnd(p, ok) \/ ForceCloses(p, ok)

=============================================================================
