------------------------------- MODULE Machine -------------------------------
(***************************************************************************)
(* The SMC of one machine and the fand processes that write to it: the     *)
(* keys of fan 0 that a command can alter, the instance lock, and where    *)
(* each process is.  The commands are in modules of their own; Research    *)
(* composes them.                                                          *)
(***************************************************************************)
EXTENDS Naturals

CONSTANT Processes   \* what can run at the same time, one command after another each

Bytes  == {"F0md", "Ftst"}      \* keys of one byte
Floats == {"F0Mn", "Tp0a"}      \* keys of four bytes: the floor of fan 0, a sensor
SmcKeys == Bytes \cup Floats

ASSUME ProcessesAssumption == "none" \notin Processes /\ "empty" \notin Processes

\* A value: the machine's own (mode 0, Ftst 0, its floor, a temperature that was
\* measured or is assumed for one that cannot be read), or the one that a tool
\* puts there to move the fan.  bytes: the number may be the one whose bytes are
\* those of that value in reverse.
Value == [from : {"machine", "tool"}, bytes : {"straight", "reversed"}]
Own     == [from |-> "machine", bytes |-> "straight"]
Altered == [from |-> "tool", bytes |-> "straight"]

VARIABLES
    smc,        \* the values of the keys, as a read decodes them
    at,         \* at[p]: what process p runs, the step it is at, the path it tries
    mine,       \* mine[p]: the number that p will write to restore the key it alters
    holder,     \* who holds the flock of the lock file, or "none"
    pidFile,    \* whose pid is in the lock file, or "empty"
    lost        \* history: altered keys that nobody will restore, for a known reason

processes == <<at, mine>>
lock == <<holder, pidFile>>
vars == <<smc, processes, lock, lost>>

\* Where a process is: the command that it runs, a step, the path that it tries.
Place(run, step, path) == [run |-> run, step |-> step, path |-> path]
Idle == Place("nothing", "idle", 0)

\* Process p is at this step of this path of a command.
Is(p, run, step) == at[p].run = run /\ at[p].step = step
OnPath(p, path) == at[p].path = path

Move(p, place) == at' = [at EXCEPT ![p] = place]

Start(p, run, step) == at[p] = Idle /\ Move(p, Place(run, step, 0))
Goto(p, step) == Move(p, Place(at[p].run, step, at[p].path))
Try(p, path) == Move(p, Place(at[p].run, "try", path))

\* The end of a process: its threads stop, the kernel closes its descriptors.
Exit(p) ==
    /\ Move(p, Idle)
    /\ mine' = [mine EXCEPT ![p] = Own]

SwapBytes(n) ==
    [from |-> n.from, bytes |-> IF n.bytes = "straight" THEN "reversed" ELSE "straight"]

\* What a key holds after the research tools have written number n to it: f32
\* numbers are written with to_be_bytes and read with from_le_bytes.
Stored(k, n) == IF k \in Floats THEN SwapBytes(n) ELSE n

\* write_raw_for_research: an error may come before the write or after it.
Outcomes(k, n, ok) ==
    IF ok THEN {Stored(k, n)} ELSE {Stored(k, n), smc[k]}

Put(k, n, ok) == \E v \in Outcomes(k, n, ok) : smc' = [smc EXCEPT ![k] = v]

\* Those of a set of keys that are altered after the step.
StillAltered(ks) == {k \in ks : smc'[k].from = "tool"}

\* A tool alters key k.
Alter(k, ok) ==
    /\ Put(k, Altered, ok)
    /\ lost' = StillAltered(lost)

\* The last write that p owes to key k, of number n.  The key is lost if the
\* write was answered with an error, or if n was not the machine's own.
Restore(k, n, ok) ==
    /\ Put(k, n, ok)
    /\ lost' = StillAltered(IF ok /\ n.from = "machine" THEN lost \ {k} ELSE lost \cup {k})

\* A write of 0 that p owes nobody, or that another one of p will follow.
Reset(k, ok) ==
    /\ Put(k, Own, ok)
    /\ lost' = StillAltered(lost)

=============================================================================
