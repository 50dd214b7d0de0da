--------------------------- MODULE RoundTripRing ---------------------------
(***************************************************************************)
(* The ring in which a session keeps a record of each verified write:      *)
(* an array, the slot to write next, and a count that never wraps.         *)
(***************************************************************************)
EXTENDS Integers, Sequences

CONSTANTS
    Capacity,   \* 256
    Records,    \* the records that are pushed
    ZeroRecord  \* what a slot holds before its first push

ASSUME CapacityAssumption == Capacity \in Nat \ {0}

VARIABLES
    records,    \* the slots
    next,       \* the slot of the next push
    count       \* the number of pushes

ring == <<records, next, count>>

Slots == 0 .. Capacity - 1

Wrap(i) == i % Capacity

RingInit ==
    /\ records = [i \in Slots |-> ZeroRecord]
    /\ next = 0
    /\ count = 0

PushSticky(r) ==                                                 \* mutant
    /\ records' = [records EXCEPT ![next] = r]
    /\ next' = IF next + 1 = Capacity THEN next ELSE next + 1
    /\ count' = count + 1

Push(r) ==
    /\ records' = [records EXCEPT ![next] = r]
    /\ next' = Wrap(next + 1)
    /\ count' = count + 1

RecentFromOldest(n) ==                                           \* mutant
    LET available == IF count < Capacity THEN count ELSE Capacity
        take      == IF n < available THEN n ELSE available
        start     == Wrap(next + Capacity - available)
    IN  [i \in 1 .. take |-> records[Wrap(start + i - 1)]]

\* recent(n): the newest n records that there are, the oldest first.
Recent(n) ==
    LET available == IF count < Capacity THEN count ELSE Capacity
        take      == IF n < available THEN n ELSE available
        start     == Wrap(next + Capacity - take)
    IN  [i \in 1 .. take |-> records[Wrap(start + i - 1)]]

RingNext == \E r \in Records : Push(r)

RingSpec == RingInit /\ [][RingNext]_ring

-----------------------------------------------------------------------------
(* Properties.                                                               *)

Log == INSTANCE RecordLog WITH recent <- Recent(Capacity), total <- count

\* round_trip.rs: recent returns "the most recent `n` records in insertion order
\* (oldest of the `n` returned first)".  The ring read out in full, as the drain at
\* the teardown does, is the log of the last Capacity records: no push is lost or
\* repeated at the wrap.
LogSpec == Log!Spec

\* round_trip.rs: recent(n) returns "the most recent `n` records", for every n.  It finds
\* its first slot on its own, `take` back from next; across the wrap the result is the
\* end of what the full read-out returns.
RecentIsTail ==
    \A n \in 0 .. Capacity + 1 :
        LET all  == Recent(Capacity)
            take == IF n < Len(all) THEN n ELSE Len(all)
        IN  Recent(n) = SubSeq(all, Len(all) - take + 1, Len(all))
=============================================================================
