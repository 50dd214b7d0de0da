------------------------------ MODULE Research ------------------------------
(***************************************************************************)
(* Sessions and research commands on one machine: what is altered while    *)
(* they overlap, fail and are killed, and who will put it back.            *)
(***************************************************************************)
EXTENDS InstanceLock, ForceRpm, ProbePaths, KeysCommand

Init ==
    /\ smc = [k \in SmcKeys |-> Own]
    /\ at = [p \in Processes |-> Idle]
    /\ mine = [p \in Processes |-> Own]
    /\ holder = "none"
    /\ pidFile = "empty"
    /\ lost = {}

\* p has work to do before it ends: writing k back.
Owes(p, k) ==
    \/ /\ k = "F0md"
       /\ \/ at[p].run \in {"force", "probe"} /\ at[p].step # "read"
          \/ at[p].run = "session" /\ at[p].step \in {"held", "release"}
    \/ /\ k = "Ftst"
       /\ at[p].run = "session" /\ at[p].step \in {"held", "release", "relock"}
    \/ /\ k = "F0Mn"
       /\ at[p].run \in {"force", "probe"} /\ OnPath(p, 4)
       /\ at[p].step \in {"second", "settle", "hold", "restore", "undo"}
    \/ /\ k = "Tp0a"
       /\ at[p].run = "probe" /\ OnPath(p, 5) /\ at[p].step = "restore"

\* SIGKILL, or any signal whose default action ends the process, or a panic:
\* what p owed is lost, and the kernel drops its lock.
Kill(p) ==
    /\ at[p] # Idle
    /\ Exit(p)
    /\ UNCHANGED <<smc, pidFile>>
    /\ lost' = StillAltered(lost \cup {k \in SmcKeys : Owes(p, k)})
    /\ holder' = IF holder = p THEN "none" ELSE holder

\* thermalmonitord takes the fan back; the firmware measures a temperature.
MachineWrites(k) ==
    /\ k \in {"F0md", "Tp0a"}
    /\ smc' = [smc EXCEPT ![k] = Own]
    /\ lost' = StillAltered(lost)
    /\ UNCHANGED <<processes, lock>>

Next ==
    \/ \E p \in Processes :
          SessionStep(p) \/ ForceStep(p) \/ ProbeStep(p) \/ KeysStep(p) \/ Kill(p)
    \/ \E k \in SmcKeys : MachineWrites(k)

Spec == Init /\ [][Next]_vars

-----------------------------------------------------------------------------
(* Properties.                                                               *)

Steps ==
    {"idle", "lock", "truncate", "pid", "held", "release", "relock", "unlock",
     "read", "reset", "try", "second", "settle", "hold", "restore", "undo",
     "close", "before", "list", "after", "write"}

TypeOK ==
    /\ smc \in [SmcKeys -> Value]
    /\ at \in [Processes -> [run : {"nothing", "session", "force", "probe", "keys"},
                             step : Steps, path : 0 .. 5]]
    /\ mine \in [Processes -> Value]
    /\ holder \in Processes \cup {"none"}
    /\ pidFile \in Processes \cup {"empty"}
    /\ lost \subseteq SmcKeys

\* probe.rs: "we never leave the SMC in a non-auto state on exit".  Whatever the
\* commands do to each other, a fan is forced (or Ftst unlocked) only while a
\* process runs that will still write the 0, or after one was killed, was refused
\* its last write, or was told by the user to write the value.
ForcedHasOwner ==
    \A k \in Bytes : smc[k].from = "tool" => k \in lost \/ \E p \in Processes : Owes(p, k)

\* The same of a raised floor and a faked temperature.  Two more ways to lose them
\* are known: probe's early return when the raise is answered with an error, and
\* a command that takes the floor another one has raised for the machine's own.
RaisedHasOwner ==
    \A k \in Floats : smc[k].from = "tool" => k \in lost \/ \E p \in Processes : Owes(p, k)

\* single_instance.rs: the pid is written under the lock, "never before": as long
\* as a session runs, the lock is its own and the file names it, whoever else tries.
PidNamesHolder ==
    \A p \in Processes :
        at[p].run = "session" /\ at[p].step \in {"held", "release", "relock", "unlock"}
            => holder = p /\ pidFile = p

\* force.rs: "Teardown always writes F0md=0 and restores any modified floor."  When
\* every command has ended and none was hindered, the floor is the machine's own.
FloorRestored ==
    (\A p \in Processes : at[p] = Idle) /\ lost = {} => smc["F0Mn"] = Own

\* single_instance.rs: "While a `FlockGuard` exists, no other fand instance can
\* write to the SMC."  A process other than the holder takes no step that writes.
WritesOnlyUnderLock ==
    [][\A p \in Processes :
          holder = p /\ smc' # smc => \A q \in Processes \ {p} : at'[q] = at[q]]_vars
=============================================================================
