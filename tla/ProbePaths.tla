----------------------------- MODULE ProbePaths -----------------------------
(***************************************************************************)
(* fand probe: the paths of force-rpm and a faked temperature, each tried  *)
(* and undone, and a table of what moved the fan.  The command takes no    *)
(* lock and handles no signal.                                             *)
(***************************************************************************)
EXTENDS Machine

StartProbe(p) ==
    /\ Start(p, "probe", "read")
    /\ UNCHANGED <<smc, mine, lock, lost>>

ProbeReads(p) ==
    /\ Is(p, "probe", "read")
    /\ mine' = [mine EXCEPT ![p] = smc["F0Mn"]]
    /\ Goto(p, "reset")
    /\ UNCHANGED <<smc, lock, lost>>

ProbeGivesUp(p) ==
    /\ Is(p, "probe", "read")
    /\ Exit(p)
    /\ UNCHANGED <<smc, lock, lost>>

ProbeResets(p, ok) ==
    /\ Is(p, "probe", "reset")
    /\ Reset("F0md", ok)
    /\ Try(p, at[p].path + 1)
    /\ UNCHANGED <<mine, lock>>

ProbeDirect(p) ==
    /\ Is(p, "probe", "try") /\ at[p].path \in {1, 2}
    /\ Goto(p, "reset")
    /\ UNCHANGED <<smc, mine, lock, lost>>

\* F0md=1, and F0Tg behind it when the mode was accepted.
ProbeMode(p, ok) ==
    /\ Is(p, "probe", "try") /\ OnPath(p, 3)
    /\ Alter("F0md", ok)
    /\ Goto(p, "reset")
    /\ UNCHANGED <<mine, lock>>

\* When the raise is answered with an error the path ends there: if it was
\* carried out all the same, nobody takes it back.
ProbeRaises(p, ok) ==
    /\ Is(p, "probe", "try") /\ OnPath(p, 4)
    /\ Put("F0Mn", Altered, ok)
    /\ lost' = StillAltered(IF ok THEN lost ELSE lost \cup {"F0Mn"})
    /\ Goto(p, IF ok THEN "second" ELSE "reset")
    /\ UNCHANGED <<mine, lock>>

ProbeRaisedMode(p, ok) ==
    /\ Is(p, "probe", "second")
    /\ Alter("F0md", ok)
    /\ Goto(p, "restore")
    /\ UNCHANGED <<mine, lock>>

ProbeRestoresFloor(p, ok) ==
    /\ Is(p, "probe", "restore") /\ OnPath(p, 4)
    /\ Restore("F0Mn", mine[p], ok)
    /\ Goto(p, "reset")
    /\ UNCHANGED <<mine, lock>>

\* The temperature is read, or 45 degrees assumed, before it is faked.
ProbeSpoofs(p, ok) ==
    /\ Is(p, "probe", "try") /\ OnPath(p, 5)
    /\ mine' \in {[mine EXCEPT ![p] = n] : n \in {smc["Tp0a"], Own}}
    /\ Alter("Tp0a", ok)
    /\ Goto(p, "restore")
    /\ UNCHANGED lock

ProbeRestoresSensorAndResets(p, ok) ==                            \* mutant
    /\ Is(p, "probe", "restore") /\ OnPath(p, 5)
    /\ Restore("Tp0a", mine[p], ok)
    /\ Goto(p, "reset")
    /\ UNCHANGED <<mine, lock>>

ProbeRestoresSensor(p, ok) ==
    /\ Is(p, "probe", "restore") /\ OnPath(p, 5)
    /\ Restore("Tp0a", mine[p], ok)
    /\ Goto(p, "close")
    /\ UNCHANGED <<mine, lock>>

ProbeCloses(p, ok) ==
    /\ Is(p, "probe", "close")
    /\ Restore("F0md", Own, ok)
    /\ Exit(p)
    /\ UNCHANGED lock

ProbeStep(p) ==
    \/ StartProbe(p) \/ ProbeReads(p) \/ ProbeGivesUp(p) \/ ProbeDirect(p)
    \/ \E ok \in BOOLEAN :
          \/ ProbeResets(p, ok) \/ ProbeMode(p, ok)
          \/ ProbeRaises(p, ok) \/ ProbeRaisedMode(p, ok) \/ ProbeRestoresFloor(p, ok)
          \/ ProbeSpoofs(p, ok) \/ ProbeRestoresSensor(p, ok) \/ ProbeCloses(p, ok)

=============================================================================
