---------------------------- MODULE InstanceLock ----------------------------
(***************************************************************************)
(* The commands that take the instance lock: set, selftest and             *)
(* run --commit.  What their session does to fan 0 is cut down to the      *)
(* writes that alter its keys and the release checklist; the threads of a  *)
(* session are the subject of WriteSession.                                *)
(***************************************************************************)
EXTENDS Machine

StartSession(p) ==
    /\ Start(p, "session", "lock")
    /\ UNCHANGED <<smc, mine, lock, lost>>

TryLockTruncating(p) ==                                           \* mutant
    /\ Is(p, "session", "lock")
    /\ IF holder = "none"
       THEN holder' = p /\ Goto(p, "truncate") /\ UNCHANGED mine
       ELSE Exit(p) /\ UNCHANGED holder
    /\ pidFile' = "empty"
    /\ UNCHANGED <<smc, lost>>

\* The file is opened and flock tried, without waiting; a process that is
\* refused reads the pid in the file for its message and exits.
TryLock(p) ==
    /\ Is(p, "session", "lock")
    /\ IF holder = "none"
       THEN holder' = p /\ Goto(p, "truncate") /\ UNCHANGED mine
       ELSE Exit(p) /\ UNCHANGED holder
    /\ UNCHANGED <<smc, pidFile, lost>>

Truncate(p) ==
    /\ Is(p, "session", "truncate")
    /\ pidFile' = "empty"
    /\ Goto(p, "pid")
    /\ UNCHANGED <<smc, mine, holder, lost>>

WritePid(p) ==
    /\ Is(p, "session", "pid")
    /\ pidFile' = p
    /\ Goto(p, "held")
    /\ UNCHANGED <<smc, mine, holder, lost>>

\* set_len or the write fails: the file is closed, and with it the lock.
LockFileFails(p) ==
    /\ Is(p, "session", "truncate") \/ Is(p, "session", "pid")
    /\ holder' = "none"
    /\ Exit(p)
    /\ UNCHANGED <<smc, pidFile, lost>>

\* Mode 1 for fan 0, or Ftst 1 before it.
SessionAlters(p, k, ok) ==
    /\ Is(p, "session", "held")
    /\ k \in Bytes
    /\ Alter(k, ok)
    /\ UNCHANGED <<processes, lock>>

BeginRelease(p) ==
    /\ Is(p, "session", "held")
    /\ Goto(p, "release")
    /\ UNCHANGED <<smc, mine, lock, lost>>

SessionReleases(p, ok) ==
    /\ Is(p, "session", "release")
    /\ Restore("F0md", Own, ok)
    /\ Goto(p, "relock")
    /\ UNCHANGED <<mine, lock>>

SessionLocksFtst(p, ok) ==
    /\ Is(p, "session", "relock")
    /\ Restore("Ftst", Own, ok)
    /\ Goto(p, "unlock")
    /\ UNCHANGED <<mine, lock>>

\* The guard is dropped; the pid stays in the file.
UnlockFile(p) ==
    /\ Is(p, "session", "unlock")
    /\ holder' = "none"
    /\ Exit(p)
    /\ UNCHANGED <<smc, pidFile, lost>>

SessionStep(p) ==
    \/ StartSession(p) \/ TryLock(p) \/ Truncate(p) \/ WritePid(p) \/ LockFileFails(p)
    \/ BeginRelease(p) \/ UnlockFile(p)
    \/ \E ok \in BOOLEAN : SessionReleases(p, ok) \/ SessionLocksFtst(p, ok)
    \/ \E k \in Bytes, ok \in BOOLEAN : SessionAlters(p, k, ok)

=============================================================================
