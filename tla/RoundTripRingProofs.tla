------------------------ MODULE RoundTripRingProofs ------------------------
(***************************************************************************)
(* The ring implements the log, for every capacity.  The invariant says    *)
(* where the next push goes: behind the records there are, as long as the  *)
(* ring is not full.                                                       *)
(***************************************************************************)
EXTENDS RoundTripRing, SequenceTheorems, TLAPS

RingInv ==
    /\ records \in [Slots -> Records \cup {ZeroRecord}]
    /\ next \in Slots
    /\ count \in Nat
    /\ count < Capacity => next = count

\* One turn around the ring.
LEMMA WrapOnce ==
    \A x \in 0 .. 2 * Capacity - 1 : Wrap(x) = IF x < Capacity THEN x ELSE x - Capacity
BY CapacityAssumption, Z3 DEF Wrap

LEMMA RingInvInductive ==
    /\ RingInit => RingInv
    /\ RingInv /\ [RingNext]_ring => RingInv'
<1>1. RingInit => RingInv
  BY CapacityAssumption DEF RingInit, RingInv, Slots
<1>2. ASSUME RingInv, NEW r \in Records, Push(r)
      PROVE  RingInv'
  <2>1. next + 1 \in 0 .. 2 * Capacity - 1
    BY <1>2, CapacityAssumption DEF RingInv, Slots
  <2>2. next' = IF next + 1 < Capacity THEN next + 1 ELSE 0
    BY <1>2, <2>1, WrapOnce, CapacityAssumption DEF Push, RingInv, Slots
  <2>3. records' \in [Slots -> Records \cup {ZeroRecord}]
    BY <1>2 DEF Push, RingInv
  <2> QED
    BY <1>2, <2>2, <2>3, CapacityAssumption DEF Push, RingInv, Slots
<1>3. RingInv /\ UNCHANGED ring => RingInv'
  BY DEF RingInv, ring
<1> QED
  BY <1>1, <1>2, <1>3 DEF RingNext

\* The ring read out: from slot 0 until it is full, then from the oldest record.
ReadOut ==
    IF count < Capacity
    THEN [i \in 1 .. count |-> records[i - 1]]
    ELSE [i \in 1 .. Capacity |->
            IF next + i - 1 < Capacity THEN records[next + i - 1]
                                       ELSE records[next + i - 1 - Capacity]]

LEMMA RecentIs == RingInv => Recent(Capacity) = ReadOut
<1> SUFFICES ASSUME RingInv
             PROVE  Recent(Capacity) = ReadOut
  OBVIOUS
<1> USE CapacityAssumption DEF RingInv, Slots
<1>1. CASE count < Capacity
  <2>1. Wrap(next + Capacity - count) = 0
    <3>1. next + Capacity - count = Capacity
      BY <1>1
    <3> QED
      BY <3>1, WrapOnce
  <2>2. Recent(Capacity) = [i \in 1 .. count |-> records[Wrap(0 + i - 1)]]
    BY <1>1, <2>1 DEF Recent
  <2>3. ASSUME NEW i \in 1 .. count
        PROVE  Wrap(0 + i - 1) = i - 1
    BY <1>1, WrapOnce
  <2> QED
    BY <1>1, <2>2, <2>3 DEF ReadOut
<1>2. CASE ~(count < Capacity)
  <2>1. Wrap(next + Capacity - Capacity) = next
    BY WrapOnce
  <2>2. Recent(Capacity) = [i \in 1 .. Capacity |-> records[Wrap(next + i - 1)]]
    BY <1>2, <2>1 DEF Recent
  <2>3. ASSUME NEW i \in 1 .. Capacity
        PROVE  Wrap(next + i - 1) =
                 IF next + i - 1 < Capacity THEN next + i - 1 ELSE next + i - 1 - Capacity
    BY WrapOnce
  <2> QED
    BY <1>2, <2>2, <2>3 DEF ReadOut
<1> QED
  BY <1>1, <1>2

\* The start that recent(n) finds for itself is behind the records it leaves out.
LEMMA TailOfRecent ==
    ASSUME RingInv, NEW n \in Nat
    PROVE  LET all  == Recent(Capacity)
               take == IF n < Len(all) THEN n ELSE Len(all)
           IN  Recent(n) = SubSeq(all, Len(all) - take + 1, Len(all))
<1> USE CapacityAssumption DEF RingInv, Slots
<1> DEFINE S          == Records \cup {ZeroRecord}
           available  == IF count < Capacity THEN count ELSE Capacity
           taken      == IF n < available THEN n ELSE available
           all        == Recent(Capacity)
           From(t)    == Wrap(next + Capacity - t)
           At(t, i)   == records[Wrap(From(t) + i - 1)]
           tail       == SubSeq(all, available - taken + 1, available)
<1>1. /\ available \in 0 .. Capacity
      /\ taken \in 0 .. available
  OBVIOUS
<1>2. ASSUME NEW t \in 0 .. Capacity
      PROVE  From(t) = IF next < t THEN next + Capacity - t ELSE next - t
  BY WrapOnce
<1>3. ASSUME NEW t \in 0 .. Capacity, NEW i \in 1 .. Capacity
      PROVE  /\ Wrap(From(t) + i - 1) \in Slots
             /\ Wrap(From(t) + i - 1) = IF From(t) + i - 1 < Capacity
                                        THEN From(t) + i - 1 ELSE From(t) + i - 1 - Capacity
  <2>1. From(t) \in Slots
    BY <1>2
  <2> HIDE DEF From
  <2> QED
    BY <2>1, WrapOnce
<1>4. all = [i \in 1 .. available |-> At(available, i)]
  BY <1>1 DEF Recent
<1>5. Recent(n) = [i \in 1 .. taken |-> At(taken, i)]
  BY <1>1 DEF Recent
<1>6. \A i \in 1 .. available : At(available, i) \in S
  <2> HIDE DEF From
  <2> QED
    BY <1>1, <1>3
<1>7. /\ Len(all) = available
      /\ \A i \in 1 .. available : all[i] = At(available, i)
      /\ \A i \in 1 .. available : all[i] \in S
  <2> HIDE DEF At, available
  <2>1. all \in [1 .. available -> S]
    BY <1>4, <1>6
  <2>2. all \in Seq(S)
    BY <1>1, <2>1, SeqDef
  <2> QED
    BY <1>1, <1>4, <1>6, <2>2, LenProperties
<1>8. /\ tail \in Seq(S)
      /\ Len(tail) = taken
      /\ \A i \in 1 .. taken : tail[i] = all[i + available - taken]
  <2> HIDE DEF all, available, taken
  <2>1. \A i \in available - taken + 1 .. available : all[i] \in S
    BY <1>1, <1>7
  <2> QED
    BY <1>1, <2>1, SubSeqProperties
<1>9. ASSUME NEW i \in 1 .. taken
      PROVE  At(taken, i) = At(available, i + available - taken)
  <2> HIDE DEF available, taken, From
  <2>1. /\ i \in 1 .. Capacity
        /\ i + available - taken \in 1 .. Capacity
        /\ taken \in 0 .. Capacity
    BY <1>1
  <2>2. Wrap(From(taken) + i - 1)
          = Wrap(From(available) + (i + available - taken) - 1)
    <3> DEFINE j == i + available - taken
               a == From(taken)
               b == From(available)
    <3>1. /\ a = IF next < taken THEN next + Capacity - taken ELSE next - taken
          /\ b = IF next < available THEN next + Capacity - available ELSE next - available
      BY <1>1, <1>2, <2>1
    <3>2. Wrap(a + i - 1) = IF a + i - 1 < Capacity THEN a + i - 1 ELSE a + i - 1 - Capacity
      BY <1>3, <2>1
    <3>3. Wrap(b + j - 1) = IF b + j - 1 < Capacity THEN b + j - 1 ELSE b + j - 1 - Capacity
      BY <1>1, <1>3, <2>1
    <3>4. Wrap(a + i - 1) = Wrap(b + j - 1)
      <4> HIDE DEF a, b
      <4> QED
        BY <1>1, <2>1, <3>1, <3>2, <3>3
    <3> QED
      BY <3>4
  <2> QED
    BY <2>2
<1>10. tail = [i \in 1 .. taken |-> At(taken, i)]
  <2> HIDE DEF all, available, taken, At, tail
  <2>1. DOMAIN tail = 1 .. taken
    BY <1>8, LenProperties
  <2>2. \A i \in 1 .. taken : i + available - taken \in 1 .. available
    BY <1>1
  <2>3. \A i \in 1 .. taken : tail[i] = At(taken, i)
    BY <1>7, <1>8, <1>9, <2>2
  <2>4. tail = [i \in DOMAIN tail |-> tail[i]]
    BY <1>8, LenProperties
  <2> QED
    BY <2>1, <2>3, <2>4
<1> QED
  BY <1>5, <1>7, <1>10

\* A push appends its record to what is read out, and drops the oldest when full.
LEMMA PushReadsOut ==
    ASSUME RingInv, NEW r \in Records, Push(r)
    PROVE  ReadOut' = Log!Newest(Append(ReadOut, r))
<1> USE CapacityAssumption DEF RingInv, Slots
<1>1. next' = IF next + 1 < Capacity THEN next + 1 ELSE 0
  <2>1. next + 1 \in 0 .. 2 * Capacity - 1
    OBVIOUS
  <2> QED
    BY <2>1, WrapOnce DEF Push
<1>2. /\ count' = count + 1
      /\ \A i \in Slots : records'[i] = IF i = next THEN r ELSE records[i]
  BY DEF Push
<1> DEFINE S == Records \cup {ZeroRecord}
<1>3. CASE count < Capacity
  <2> DEFINE Longer == [i \in 1 .. count + 1 |-> IF i = count + 1 THEN r ELSE records[i - 1]]
  <2>1. ReadOut' = Longer
    <3>0. ASSUME NEW i \in 1 .. count + 1
          PROVE  records'[i - 1] = IF i = count + 1 THEN r ELSE records[i - 1]
      <4>1. CASE i = count + 1
        BY <1>2, <1>3, <4>1
      <4>2. CASE i \in 1 .. count
        <5>1. i - 1 \in Slots /\ i - 1 # next
          BY <1>3, <4>2
        <5> QED
          BY <1>2, <4>2, <5>1
      <4> QED
        BY <4>1, <4>2
    <3>1. CASE count + 1 < Capacity
      <4>1. ReadOut' = [i \in 1 .. count + 1 |-> records'[i - 1]]
        BY <1>2, <3>1 DEF ReadOut
      <4> QED
        BY <3>0, <4>1
    <3>2. CASE ~(count + 1 < Capacity)
      <4>1. count + 1 = Capacity /\ next' = 0
        BY <1>1, <1>3, <3>2
      <4>2. ReadOut' = [i \in 1 .. Capacity |->
                          IF next' + i - 1 < Capacity THEN records'[next' + i - 1]
                                                      ELSE records'[next' + i - 1 - Capacity]]
        BY <1>2, <3>2 DEF ReadOut
      <4>3. ReadOut' = [i \in 1 .. count + 1 |-> records'[i - 1]]
        BY <4>1, <4>2
      <4> QED
        BY <3>0, <4>3
    <3> QED
      BY <3>1, <3>2
  <2>2. /\ ReadOut \in Seq(S)
        /\ Len(ReadOut) = count
        /\ \A i \in 1 .. count : ReadOut[i] = records[i - 1]
    <3>1. ReadOut = [i \in 1 .. count |-> records[i - 1]]
      BY <1>3 DEF ReadOut
    <3>2. \A i \in 1 .. count : records[i - 1] \in S
      BY <1>3
    <3>3. ReadOut \in [1 .. count -> S]
      BY <3>1, <3>2
    <3>4. ReadOut \in Seq(S)
      BY <3>3, SeqDef
    <3>5. DOMAIN ReadOut = 1 .. count
      BY <3>1
    <3> QED
      BY <3>1, <3>4, <3>5, LenProperties
  <2>3. Append(ReadOut, r) = Longer
    <3>1. /\ Append(ReadOut, r) \in Seq(S)
          /\ Len(Append(ReadOut, r)) = count + 1
          /\ Append(ReadOut, r)[count + 1] = r
          /\ \A i \in 1 .. count : Append(ReadOut, r)[i] = ReadOut[i]
      BY <2>2, AppendProperties
    <3>2. Append(ReadOut, r) = [i \in 1 .. count + 1 |-> Append(ReadOut, r)[i]]
      BY <3>1, LenProperties
    <3>3. \A i \in 1 .. count + 1 :
             Append(ReadOut, r)[i] = IF i = count + 1 THEN r ELSE records[i - 1]
      BY <2>2, <3>1
    <3> QED
      BY <3>2, <3>3
  <2>4. Len(Append(ReadOut, r)) = count + 1
    BY <2>2, AppendProperties
  <2> QED
    BY <1>3, <2>1, <2>3, <2>4 DEF Log!Newest
<1>4. CASE ~(count < Capacity)
  <2> DEFINE Longer == Append(ReadOut, r)
  <2>1. /\ ReadOut \in Seq(S)
        /\ Len(ReadOut) = Capacity
        /\ \A i \in 1 .. Capacity :
              ReadOut[i] = IF next + i - 1 < Capacity THEN records[next + i - 1]
                                                      ELSE records[next + i - 1 - Capacity]
    <3> DEFINE At(i) == IF next + i - 1 < Capacity THEN records[next + i - 1]
                                                   ELSE records[next + i - 1 - Capacity]
    <3>1. ReadOut = [i \in 1 .. Capacity |-> At(i)]
      BY <1>4 DEF ReadOut
    <3>2. \A i \in 1 .. Capacity : At(i) \in S
      OBVIOUS
    <3> HIDE DEF At
    <3>3. ReadOut \in [1 .. Capacity -> S]
      BY <3>1, <3>2
    <3>4. ReadOut \in Seq(S)
      BY <3>3, SeqDef
    <3>5. DOMAIN ReadOut = 1 .. Capacity
      BY <3>1
    <3>6. Len(ReadOut) = Capacity
      BY <3>4, <3>5, LenProperties
    <3> QED
      BY <3>1, <3>4, <3>6 DEF At
  <2>2. /\ Longer \in Seq(S)
        /\ Len(Longer) = Capacity + 1
        /\ Longer[Capacity + 1] = r
        /\ \A i \in 1 .. Capacity : Longer[i] = ReadOut[i]
    BY <2>1, AppendProperties
  <2>3. Log!Newest(Longer) = [i \in 1 .. Capacity |-> Longer[i + 1]]
    BY <2>2 DEF Log!Newest
  <2>4. ReadOut' = [i \in 1 .. Capacity |->
                      IF next' + i - 1 < Capacity THEN records'[next' + i - 1]
                                                  ELSE records'[next' + i - 1 - Capacity]]
    BY <1>2, <1>4 DEF ReadOut
  <2>5. ASSUME NEW i \in 1 .. Capacity
        PROVE  (IF next' + i - 1 < Capacity THEN records'[next' + i - 1]
                                            ELSE records'[next' + i - 1 - Capacity])
                 = Longer[i + 1]
    <3> DEFINE place == IF next' + i - 1 < Capacity THEN next' + i - 1
                                                    ELSE next' + i - 1 - Capacity
    <3>1. CASE i = Capacity
      <4>1. place = next
        BY <1>1, <3>1
      <4> QED
        BY <1>2, <2>2, <3>1, <4>1
    <3>2. CASE i < Capacity
      <4>1. place \in Slots /\ place # next
        BY <1>1, <3>2
      <4>2. place = IF next + (i + 1) - 1 < Capacity THEN next + (i + 1) - 1
                                                     ELSE next + (i + 1) - 1 - Capacity
        BY <1>1, <3>2
      <4>3. Longer[i + 1] = ReadOut[i + 1] /\ i + 1 \in 1 .. Capacity
        BY <2>2, <3>2
      <4>4. records'[place] = records[place]
        BY <1>2, <4>1
      <4> HIDE DEF Longer
      <4>5. ReadOut[i + 1] = records[place]
        BY <2>1, <4>2, <4>3
      <4> QED
        BY <4>3, <4>4, <4>5
    <3>3. i = Capacity \/ i < Capacity
      OBVIOUS
    <3> QED
      BY <3>1, <3>2, <3>3, Zenon
  <2> QED
    BY <2>3, <2>4, <2>5
<1> QED
  BY <1>3, <1>4

\* For every capacity and all records, the ring read out in full is the log of the
\* most recent records.
THEOREM RingKeepsRecent == RingSpec => LogSpec
<1>0. (RingInv => Recent(Capacity) = ReadOut)'
  BY RecentIs, PTL
<1>1. RingInit => Log!Init
  BY CapacityAssumption DEF RingInit, RingInv, Log!Init, Recent
<1>2. RingInv /\ [RingNext]_ring => [Log!Next]_(Log!vars)
  <2>1. ASSUME RingInv, NEW r \in Records, Push(r)
        PROVE  Log!Push(r)
    <3>1. RingInv'
      <4>1. RingNext
        BY <2>1 DEF RingNext
      <4> QED
        BY <2>1, <4>1, RingInvInductive
    <3>2. Recent(Capacity) = ReadOut /\ Recent(Capacity)' = ReadOut'
      BY <1>0, <2>1, <3>1, RecentIs
    <3> QED
      BY <2>1, <3>2, PushReadsOut DEF Log!Push, Push
  <2>2. UNCHANGED ring => UNCHANGED Log!vars
    BY DEF ring, Log!vars, Recent
  <2> QED
    BY <2>1, <2>2 DEF RingNext, Log!Next
<1> QED
  BY <1>1, <1>2, RingInvInductive, PTL DEF RingSpec, LogSpec, Log!Spec

\* For every capacity, recent(n) is the end of the full read-out, whatever n and
\* wherever the ring has wrapped.
THEOREM RecentIsTheTail == RingSpec => []RecentIsTail
<1>1. RingInv => RecentIsTail
  <2>1. ASSUME NEW n \in 0 .. Capacity + 1
        PROVE  n \in Nat
    BY CapacityAssumption
  <2> QED
    BY <2>1, TailOfRecent, Zenon DEF RecentIsTail
<1> QED
  BY <1>1, RingInvInductive, PTL DEF RingSpec
=============================================================================
