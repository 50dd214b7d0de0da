----------------------------- MODULE RecordLog -----------------------------
(***************************************************************************)
(* What the ring of round-trip records promises: the number of all records *)
(* ever pushed, and the most recent ones in the order of their pushes.     *)
(***************************************************************************)
EXTENDS Integers, Sequences

CONSTANTS
    Capacity,   \* how many records are kept
    Records     \* the records there may be

VARIABLES
    recent,     \* the records kept, the oldest first
    total       \* how many there have been

vars == <<recent, total>>

\* The last Capacity members of a sequence.
Newest(s) == IF Len(s) <= Capacity THEN s ELSE SubSeq(s, Len(s) - Capacity + 1, Len(s))

Init == recent = <<>> /\ total = 0

Push(r) ==
    /\ recent' = Newest(Append(recent, r))
    /\ total' = total + 1

Next == \E r \in Records : Push(r)

Spec == Init /\ [][Next]_vars
=============================================================================
