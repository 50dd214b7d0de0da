---------------------------- MODULE KeysCommand ----------------------------
(***************************************************************************)
(* fand keys: the listing writes Ftst=0 before and after it; keys --write  *)
(* writes what it is told.  Neither takes the lock.                        *)
(***************************************************************************)
EXTENDS Machine

StartKeys(p, step) ==
    /\ Start(p, "keys", step)
    /\ UNCHANGED <<smc, mine, lock, lost>>

ProbeFtst(p, ok) ==
    /\ Is(p, "keys", "before")
    /\ Reset("Ftst", ok)
    /\ Goto(p, "list")
    /\ UNCHANGED <<mine, lock>>

\* The fans are enumerated and printed; if they cannot be, the second probe
\* is skipped.
ListKeys(p, ok) ==
    /\ Is(p, "keys", "list")
    /\ IF ok THEN Goto(p, "after") /\ UNCHANGED mine ELSE Exit(p)
    /\ UNCHANGED <<smc, lock, lost>>

ProbeFtstAgain(p, ok) ==
    /\ Is(p, "keys", "after")
    /\ Reset("Ftst", ok)
    /\ Exit(p)
    /\ UNCHANGED lock

\* The user's value, with to_le_bytes: it is there to stay.
DebugWrite(p, k, n, ok) ==
    /\ Is(p, "keys", "write")
    /\ smc' = [smc EXCEPT ![k] = n] \/ (~ok /\ UNCHANGED smc)
    /\ lost' = StillAltered(lost \cup {k})
    /\ Exit(p)
    /\ UNCHANGED lock

\* The number of bytes given is not the size of the key, or there is none.
DebugWriteRefused(p) ==
    /\ Is(p, "keys", "write")
    /\ Exit(p)
    /\ UNCHANGED <<smc, lock, lost>>

KeysStep(p) ==
    \/ StartKeys(p, "before") \/ StartKeys(p, "write") \/ DebugWriteRefused(p)
    \/ \E ok \in BOOLEAN : ProbeFtst(p, ok) \/ ListKeys(p, ok) \/ ProbeFtstAgain(p, ok)
    \/ \E k \in SmcKeys, n \in {Own, Altered}, ok \in BOOLEAN : DebugWrite(p, k, n, ok)

=============================================================================
