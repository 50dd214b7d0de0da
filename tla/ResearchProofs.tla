--------------------------- MODULE ResearchProofs ---------------------------
(***************************************************************************)
(* For any number of processes: the types, the lock, and that what is      *)
(* altered has an owner.                                                   *)
(***************************************************************************)
EXTENDS Research, TLAPS

\* The paths that each command tries.
PathsInv ==
    \A p \in Processes :
        /\ at[p].run = "force" => at[p].path <= 4
        /\ at[p].run = "probe" /\ at[p].step \in {"read", "reset"} => at[p].path <= 4

Step == [run : {"nothing", "session", "force", "probe", "keys"}, step : Steps, path : 0 .. 5]

AtTypeOK == at \in [Processes -> Step]

LEMMA PutType ==
    ASSUME TypeOK, NEW k \in SmcKeys, NEW n \in Value, NEW ok \in BOOLEAN, Put(k, n, ok)
    PROVE  smc' \in [SmcKeys -> Value]
<1>1. Stored(k, n) \in Value
  BY DEF Stored, SwapBytes, Value
<1>2. smc \in [SmcKeys -> Value]
  BY DEF TypeOK
<1>3. PICK v \in Outcomes(k, n, ok) : smc' = [smc EXCEPT ![k] = v]
  BY DEF Put
<1>4. v \in Value
  BY <1>1, <1>2, <1>3 DEF Outcomes
<1> QED
  BY <1>2, <1>3, <1>4

LEMMA KeysAre ==
    /\ "F0md" \in SmcKeys /\ "Ftst" \in SmcKeys /\ "F0Mn" \in SmcKeys /\ "Tp0a" \in SmcKeys
    /\ Bytes \subseteq SmcKeys
    /\ Own \in Value /\ Altered \in Value
BY DEF SmcKeys, Bytes, Floats, Own, Altered, Value

LEMMA LostType ==
    ASSUME TypeOK, NEW k \in SmcKeys, NEW n \in Value, NEW ok \in BOOLEAN
    PROVE  /\ Alter(k, ok) => lost' \subseteq SmcKeys /\ smc' \in [SmcKeys -> Value]
           /\ Restore(k, n, ok) => lost' \subseteq SmcKeys /\ smc' \in [SmcKeys -> Value]
           /\ Reset(k, ok) => lost' \subseteq SmcKeys /\ smc' \in [SmcKeys -> Value]
BY PutType, KeysAre DEF TypeOK, Alter, Restore, Reset, StillAltered

\* Process p gets to a place, and the others stay where they are.
Moved(p, place) ==
    /\ AtTypeOK'
    /\ at'[p] = place
    /\ \A q \in Processes \ {p} : at'[q] = at[q]

LEMMA MoveMoves ==
    ASSUME AtTypeOK, NEW p \in Processes, NEW place \in Step, Move(p, place)
    PROVE  Moved(p, place)
BY DEF AtTypeOK, Moved, Move

LEMMA ExitMoves ==
    ASSUME AtTypeOK, mine \in [Processes -> Value], NEW p \in Processes, Exit(p)
    PROVE  Moved(p, Place("nothing", "idle", 0)) /\ mine' \in [Processes -> Value]
<1>1. Place("nothing", "idle", 0) \in Step
  BY DEF Place, Step, Steps
<1>2. Moved(p, Place("nothing", "idle", 0))
  BY <1>1, MoveMoves DEF Exit, Idle
<1>3. mine' \in [Processes -> Value]
  BY KeysAre DEF Exit
<1> QED
  BY <1>2, <1>3

-----------------------------------------------------------------------------
\* What any step of process p does to the keys: what is altered after it was lost,
\* is owed by p, or was altered before and neither lost nor owed by p.
KeysStepOf(p) ==
    /\ smc' \in [SmcKeys -> Value]
    /\ lost' \subseteq SmcKeys
    /\ \A k \in SmcKeys : smc'[k].from = "tool" =>
          \/ k \in lost'
          \/ Owes(p, k)'
          \/ smc[k].from = "tool" /\ k \notin lost /\ ~Owes(p, k)

\* p goes on to owe what it owed, but for key k.
KeepsOwing(p, k) == \A j \in SmcKeys \ {k} : Owes(p, j) => Owes(p, j)'

LEMMA PutDoes ==
    ASSUME TypeOK, NEW k \in SmcKeys, NEW n \in Value, NEW ok \in BOOLEAN, Put(k, n, ok)
    PROVE  /\ \A j \in SmcKeys \ {k} : smc'[j] = smc[j]
           /\ smc'[k].from = n.from \/ (~ok /\ smc'[k] = smc[k])
<1>1. Stored(k, n).from = n.from
  BY DEF Stored, SwapBytes
<1>2. PICK v \in Outcomes(k, n, ok) : smc' = [smc EXCEPT ![k] = v]
  BY DEF Put
<1>3. smc'[k] = v /\ \A j \in SmcKeys \ {k} : smc'[j] = smc[j]
  BY <1>2 DEF TypeOK
<1> QED
  BY <1>1, <1>2, <1>3 DEF Outcomes

LEMMA AlterOwned ==
    ASSUME TypeOK, NEW p \in Processes, NEW k \in SmcKeys, NEW ok \in BOOLEAN,
           Alter(k, ok), KeepsOwing(p, k), Owes(p, k)'
    PROVE  KeysStepOf(p)
BY PutDoes, LostType, KeysAre DEF Alter, StillAltered, KeepsOwing, KeysStepOf

LEMMA RestoreOwned ==
    ASSUME TypeOK, NEW p \in Processes, NEW k \in SmcKeys, NEW n \in Value, NEW ok \in BOOLEAN,
           Restore(k, n, ok), KeepsOwing(p, k)
    PROVE  KeysStepOf(p)
<1>1. Put(k, n, ok)
  BY DEF Restore
<1>2. ASSUME NEW j \in SmcKeys \ {k}, smc'[j].from = "tool"
      PROVE  j \in lost' \/ Owes(p, j)' \/ (smc[j].from = "tool" /\ j \notin lost /\ ~Owes(p, j))
  BY <1>1, <1>2, PutDoes DEF Restore, StillAltered, KeepsOwing
<1>3. ASSUME smc'[k].from = "tool"
      PROVE  k \in lost'
  BY <1>1, <1>3, PutDoes DEF Restore, StillAltered
<1> QED
  BY <1>2, <1>3, LostType DEF KeysStepOf

LEMMA ResetOwned ==
    ASSUME TypeOK, NEW p \in Processes, NEW k \in SmcKeys, NEW ok \in BOOLEAN,
           Reset(k, ok), KeepsOwing(p, k), Owes(p, k) => Owes(p, k)'
    PROVE  KeysStepOf(p)
<1>1. Put(k, Own, ok) /\ Own.from = "machine"
  BY DEF Reset, Own
<1> QED
  BY <1>1, PutDoes, LostType, KeysAre DEF Reset, StillAltered, KeepsOwing, KeysStepOf

LEMMA NoWriteOwned ==
    ASSUME TypeOK, NEW p \in Processes, UNCHANGED <<smc, lost>>,
           \A j \in SmcKeys : Owes(p, j) => Owes(p, j)'
    PROVE  KeysStepOf(p)
BY DEF KeysStepOf, TypeOK

-----------------------------------------------------------------------------
\* What a step of process p of a command without the lock is shown to do.
Kept(p) ==
    /\ AtTypeOK' /\ mine' \in [Processes -> Value]
    /\ \A q \in Processes \ {p} : at'[q] = at[q]
    /\ at'[p].run = "force" => at'[p].path <= 4
    /\ at'[p].run = "probe" /\ at'[p].step \in {"read", "reset"} => at'[p].path <= 4
    /\ KeysStepOf(p)

\* Every step of force-rpm.
LEMMA ForceKeeps ==
    ASSUME TypeOK, PathsInv, NEW p \in Processes, ForceStep(p)
    PROVE  Kept(p) /\ at'[p].run # "session" /\ UNCHANGED lock
<1> DEFINE Goal == Kept(p) /\ at'[p].run # "session" /\ UNCHANGED lock
<1>0. /\ AtTypeOK /\ smc \in [SmcKeys -> Value] /\ mine \in [Processes -> Value] /\ lost \subseteq SmcKeys
  BY DEF TypeOK, AtTypeOK, Step
<1>x. PICK x \in 0 .. 5 : at[p].path = x
  BY DEF TypeOK
<1>y. /\ at[p].run = "force" => x <= 4
      /\ at[p].run = "probe" /\ at[p].step \in {"read", "reset"} => x <= 4
  BY <1>x DEF PathsInv
<1>1. CASE StartForce(p)
  <2>0. Place("force", "read", 0) \in Step /\ at[p].run = "nothing"
    BY <1>x, <1>1 DEF StartForce, Is, OnPath, Place, Step, Steps, Start, Idle
  <2>1. Moved(p, Place("force", "read", 0))
    BY <1>0, <1>x, <1>1, <2>0, MoveMoves DEF StartForce, Start
  <2>2. \A j \in SmcKeys : Owes(p, j) => Owes(p, j)'
    BY <1>x, <1>y, <2>0, <2>1 DEF Owes, OnPath, Is, Moved, Place
  <2>3. KeysStepOf(p)
    BY <1>1, <2>2, NoWriteOwned DEF StartForce
  <2>4. mine' \in [Processes -> Value]
    BY <1>0, <1>1 DEF StartForce
  <2> QED
    BY <1>x, <1>y, <1>1, <2>0, <2>1, <2>3, <2>4 DEF Kept, Moved, Place, StartForce, Is, OnPath
<1>2. CASE ForceReads(p)
  <2>0. Place("force", "reset", x) \in Step /\ Is(p, "force", "read")
    BY <1>x, <1>2 DEF ForceReads, Is, OnPath, Place, Step, Steps
  <2>1. Moved(p, Place("force", "reset", x))
    BY <1>0, <1>x, <1>2, <2>0, MoveMoves DEF ForceReads, Goto, Is, OnPath
  <2>2. \A j \in SmcKeys : Owes(p, j) => Owes(p, j)'
    BY <1>x, <1>y, <2>0, <2>1 DEF Owes, OnPath, Is, Moved, Place
  <2>3. KeysStepOf(p)
    BY <1>2, <2>2, NoWriteOwned DEF ForceReads
  <2>4. mine' \in [Processes -> Value]
    BY <1>0, <1>x, <1>y, <1>2, KeysAre DEF ForceReads
  <2> QED
    BY <1>x, <1>y, <1>2, <2>0, <2>1, <2>3, <2>4 DEF Kept, Moved, Place, ForceReads, Is, OnPath
<1>3. CASE ForceGivesUp(p)
  <2>0. Place("nothing", "idle", 0) \in Step /\ Is(p, "force", "read")
    BY <1>x, <1>3 DEF ForceGivesUp, Is, OnPath, Place, Step, Steps
  <2>1. Moved(p, Place("nothing", "idle", 0))
    BY <1>0, <1>3, ExitMoves DEF ForceGivesUp
  <2>2. \A j \in SmcKeys : Owes(p, j) => Owes(p, j)'
    BY <1>x, <1>y, <2>0, <2>1 DEF Owes, OnPath, Is, Moved, Place
  <2>3. KeysStepOf(p)
    BY <1>3, <2>2, NoWriteOwned DEF ForceGivesUp
  <2>4. mine' \in [Processes -> Value]
    BY <1>0, <1>3, ExitMoves DEF ForceGivesUp
  <2> QED
    BY <1>x, <1>y, <1>3, <2>0, <2>1, <2>3, <2>4 DEF Kept, Moved, Place, ForceGivesUp, Is, OnPath
<1>4. ASSUME NEW ok \in BOOLEAN, ForceResets(p, ok)
      PROVE  Goal
  <2>1. CASE OnPath(p, 4)
    <3>0. Place("force", "close", x) \in Step /\ Is(p, "force", "reset")
      BY <1>x, <1>4 DEF ForceResets, Is, Place, Step, Steps
    <3>1. Moved(p, Place("force", "close", x))
      BY <1>0, <1>x, <1>4, <2>1, <3>0, MoveMoves DEF ForceResets, Is, Goto
    <3>2. KeepsOwing(p, "F0md") /\ Owes(p, "F0md")'
      BY <1>x, <1>y, <3>0, <3>1 DEF KeepsOwing, Owes, OnPath, Is, Moved, Place
    <3>3. KeysStepOf(p)
      BY <1>4, <3>2, ResetOwned, KeysAre DEF ForceResets
    <3> QED
      BY <1>0, <1>x, <1>y, <1>4, <3>1, <3>3 DEF Kept, Moved, Place, ForceResets, Is
  <2>2. CASE ~OnPath(p, 4)
    <3>0. Is(p, "force", "reset") /\ x # 4
      BY <1>x, <1>4, <2>2 DEF ForceResets, OnPath
    <3>1. Place("force", "try", x + 1) \in Step
      BY <1>x, <1>y, <3>0 DEF Place, Step, Steps, Is
    <3>2. Moved(p, Place("force", "try", x + 1))
      BY <1>0, <1>x, <1>4, <2>2, <3>0, <3>1, MoveMoves DEF ForceResets, Is, OnPath, Try
    <3>3. KeepsOwing(p, "F0md") /\ Owes(p, "F0md")'
      BY <1>x, <1>y, <3>0, <3>2 DEF KeepsOwing, Owes, OnPath, Is, Moved, Place
    <3>4. KeysStepOf(p)
      BY <1>4, <3>3, ResetOwned, KeysAre DEF ForceResets
    <3>5. x + 1 \in 0 .. 4
      BY <1>x, <1>y, <3>0 DEF Is
    <3> QED
      BY <1>0, <1>x, <1>y, <1>4, <3>2, <3>4, <3>5 DEF Kept, Moved, Place, ForceResets
  <2> QED
    BY <2>1, <2>2
<1>5. ASSUME NEW ok \in BOOLEAN, ForceDirect(p, ok)
      PROVE  Goal
  <2>0. Place("force", IF ok THEN "settle" ELSE "reset", x) \in Step /\ Is(p, "force", "try") /\ x \in {1, 2}
    BY <1>x, <1>5 DEF ForceDirect, Is, OnPath, Place, Step, Steps
  <2>1. Moved(p, Place("force", IF ok THEN "settle" ELSE "reset", x))
    BY <1>0, <1>x, <1>5, <2>0, MoveMoves DEF ForceDirect, Goto, Is, OnPath
  <2>2. \A j \in SmcKeys : Owes(p, j) => Owes(p, j)'
    BY <1>x, <1>y, <2>0, <2>1 DEF Owes, OnPath, Is, Moved, Place
  <2>3. KeysStepOf(p)
    BY <1>5, <2>2, NoWriteOwned DEF ForceDirect
  <2>4. mine' \in [Processes -> Value]
    BY <1>0, <1>5 DEF ForceDirect
  <2> QED
    BY <1>x, <1>y, <1>5, <2>0, <2>1, <2>3, <2>4 DEF Kept, Moved, Place, ForceDirect, Is, OnPath
<1>6. ASSUME NEW ok \in BOOLEAN, ForceMode(p, ok)
      PROVE  Goal
  <2>0. Place("force", IF ok THEN "second" ELSE "reset", x) \in Step /\ Is(p, "force", "try") /\ x = 3
    BY <1>x, <1>6 DEF ForceMode, Is, OnPath, Place, Step, Steps
  <2>1. Moved(p, Place("force", IF ok THEN "second" ELSE "reset", x))
    BY <1>0, <1>x, <1>6, <2>0, MoveMoves DEF ForceMode, Goto, Is, OnPath
  <2>2. KeepsOwing(p, "F0md") /\ Owes(p, "F0md")'
    BY <1>x, <1>y, <2>0, <2>1 DEF KeepsOwing, Owes, OnPath, Is, Moved, Place
  <2>3. KeysStepOf(p)
    BY <1>6, <2>2, AlterOwned, KeysAre DEF ForceMode
  <2>4. mine' \in [Processes -> Value]
    BY <1>0, <1>6 DEF ForceMode
  <2> QED
    BY <1>x, <1>y, <1>6, <2>0, <2>1, <2>3, <2>4 DEF Kept, Moved, Place, ForceMode, Is, OnPath
<1>7. ASSUME NEW ok \in BOOLEAN, ForceTarget(p, ok)
      PROVE  Goal
  <2>0. Place("force", IF ok THEN "settle" ELSE "reset", x) \in Step /\ Is(p, "force", "second") /\ x = 3
    BY <1>x, <1>7 DEF ForceTarget, Is, OnPath, Place, Step, Steps
  <2>1. Moved(p, Place("force", IF ok THEN "settle" ELSE "reset", x))
    BY <1>0, <1>x, <1>7, <2>0, MoveMoves DEF ForceTarget, Goto, Is, OnPath
  <2>2. \A j \in SmcKeys : Owes(p, j) => Owes(p, j)'
    BY <1>x, <1>y, <2>0, <2>1 DEF Owes, OnPath, Is, Moved, Place
  <2>3. KeysStepOf(p)
    BY <1>7, <2>2, NoWriteOwned DEF ForceTarget
  <2>4. mine' \in [Processes -> Value]
    BY <1>0, <1>7 DEF ForceTarget
  <2> QED
    BY <1>x, <1>y, <1>7, <2>0, <2>1, <2>3, <2>4 DEF Kept, Moved, Place, ForceTarget, Is, OnPath
<1>8. ASSUME NEW ok \in BOOLEAN, ForceRaises(p, ok)
      PROVE  Goal
  <2>0. Place("force", IF ok THEN "second" ELSE "restore", x) \in Step /\ Is(p, "force", "try") /\ x = 4
    BY <1>x, <1>8 DEF ForceRaises, Is, OnPath, Place, Step, Steps
  <2>1. Moved(p, Place("force", IF ok THEN "second" ELSE "restore", x))
    BY <1>0, <1>x, <1>8, <2>0, MoveMoves DEF ForceRaises, Goto, Is, OnPath
  <2>2. KeepsOwing(p, "F0Mn") /\ Owes(p, "F0Mn")'
    BY <1>x, <1>y, <2>0, <2>1 DEF KeepsOwing, Owes, OnPath, Is, Moved, Place
  <2>3. KeysStepOf(p)
    BY <1>8, <2>2, AlterOwned, KeysAre DEF ForceRaises
  <2>4. mine' \in [Processes -> Value]
    BY <1>0, <1>8 DEF ForceRaises
  <2> QED
    BY <1>x, <1>y, <1>8, <2>0, <2>1, <2>3, <2>4 DEF Kept, Moved, Place, ForceRaises, Is, OnPath
<1>9. ASSUME NEW ok \in BOOLEAN, ForceRaisedMode(p, ok)
      PROVE  Goal
  <2>0. Place("force", IF ok THEN "settle" ELSE "restore", x) \in Step /\ Is(p, "force", "second") /\ x = 4
    BY <1>x, <1>9 DEF ForceRaisedMode, Is, OnPath, Place, Step, Steps
  <2>1. Moved(p, Place("force", IF ok THEN "settle" ELSE "restore", x))
    BY <1>0, <1>x, <1>9, <2>0, MoveMoves DEF ForceRaisedMode, Goto, Is, OnPath
  <2>2. KeepsOwing(p, "F0md") /\ Owes(p, "F0md")'
    BY <1>x, <1>y, <2>0, <2>1 DEF KeepsOwing, Owes, OnPath, Is, Moved, Place
  <2>3. KeysStepOf(p)
    BY <1>9, <2>2, AlterOwned, KeysAre DEF ForceRaisedMode
  <2>4. mine' \in [Processes -> Value]
    BY <1>0, <1>9 DEF ForceRaisedMode
  <2> QED
    BY <1>x, <1>y, <1>9, <2>0, <2>1, <2>3, <2>4 DEF Kept, Moved, Place, ForceRaisedMode, Is, OnPath
<1>10. ASSUME NEW moved \in BOOLEAN, ForceJudges(p, moved)
      PROVE  Goal
  <2>0. Place("force", IF moved THEN "hold" ELSE IF x = 4 THEN "restore" ELSE "reset", x) \in Step /\ Is(p, "force", "settle")
    BY <1>x, <1>10 DEF ForceJudges, Is, OnPath, Place, Step, Steps
  <2>1. Moved(p, Place("force", IF moved THEN "hold" ELSE IF x = 4 THEN "restore" ELSE "reset", x))
    BY <1>0, <1>x, <1>10, <2>0, MoveMoves DEF ForceJudges, Goto, Is, OnPath
  <2>2. \A j \in SmcKeys : Owes(p, j) => Owes(p, j)'
    BY <1>x, <1>y, <2>0, <2>1 DEF Owes, OnPath, Is, Moved, Place
  <2>3. KeysStepOf(p)
    BY <1>10, <2>2, NoWriteOwned DEF ForceJudges
  <2>4. mine' \in [Processes -> Value]
    BY <1>0, <1>10 DEF ForceJudges
  <2> QED
    BY <1>x, <1>y, <1>10, <2>0, <2>1, <2>3, <2>4 DEF Kept, Moved, Place, ForceJudges, Is, OnPath
<1>11. CASE ForceEndsHold(p)
  <2>0. Place("force", IF x = 4 THEN "undo" ELSE "close", x) \in Step /\ Is(p, "force", "hold")
    BY <1>x, <1>11 DEF ForceEndsHold, Is, OnPath, Place, Step, Steps
  <2>1. Moved(p, Place("force", IF x = 4 THEN "undo" ELSE "close", x))
    BY <1>0, <1>x, <1>11, <2>0, MoveMoves DEF ForceEndsHold, Goto, Is, OnPath
  <2>2. \A j \in SmcKeys : Owes(p, j) => Owes(p, j)'
    BY <1>x, <1>y, <2>0, <2>1 DEF Owes, OnPath, Is, Moved, Place
  <2>3. KeysStepOf(p)
    BY <1>11, <2>2, NoWriteOwned DEF ForceEndsHold
  <2>4. mine' \in [Processes -> Value]
    BY <1>0, <1>11 DEF ForceEndsHold
  <2> QED
    BY <1>x, <1>y, <1>11, <2>0, <2>1, <2>3, <2>4 DEF Kept, Moved, Place, ForceEndsHold, Is, OnPath
<1>12. ASSUME NEW ok \in BOOLEAN, ForceRestores(p, ok)
      PROVE  Goal
  <2>0. Place("force", "reset", x) \in Step /\ Is(p, "force", "restore")
    BY <1>x, <1>12 DEF ForceRestores, Is, OnPath, Place, Step, Steps
  <2>1. Moved(p, Place("force", "reset", x))
    BY <1>0, <1>x, <1>12, <2>0, MoveMoves DEF ForceRestores, Goto, Is, OnPath
  <2>2. KeepsOwing(p, "F0Mn")
    BY <1>x, <1>y, <2>0, <2>1 DEF KeepsOwing, Owes, OnPath, Is, Moved, Place
  <2>3. KeysStepOf(p)
    BY <1>12, <1>0, <2>2, RestoreOwned, KeysAre DEF ForceRestores
  <2>4. mine' \in [Processes -> Value]
    BY <1>0, <1>12 DEF ForceRestores
  <2> QED
    BY <1>x, <1>y, <1>12, <2>0, <2>1, <2>3, <2>4 DEF Kept, Moved, Place, ForceRestores, Is, OnPath
<1>13. ASSUME NEW ok \in BOOLEAN, ForceRestoresAtEnd(p, ok)
      PROVE  Goal
  <2>0. Place("force", "close", x) \in Step /\ Is(p, "force", "undo")
    BY <1>x, <1>13 DEF ForceRestoresAtEnd, Is, OnPath, Place, Step, Steps
  <2>1. Moved(p, Place("force", "close", x))
    BY <1>0, <1>x, <1>13, <2>0, MoveMoves DEF ForceRestoresAtEnd, Goto, Is, OnPath
  <2>2. KeepsOwing(p, "F0Mn")
    BY <1>x, <1>y, <2>0, <2>1 DEF KeepsOwing, Owes, OnPath, Is, Moved, Place
  <2>3. KeysStepOf(p)
    BY <1>13, <1>0, <2>2, RestoreOwned, KeysAre DEF ForceRestoresAtEnd
  <2>4. mine' \in [Processes -> Value]
    BY <1>0, <1>13 DEF ForceRestoresAtEnd
  <2> QED
    BY <1>x, <1>y, <1>13, <2>0, <2>1, <2>3, <2>4 DEF Kept, Moved, Place, ForceRestoresAtEnd, Is, OnPath
<1>14. ASSUME NEW ok \in BOOLEAN, ForceCloses(p, ok)
      PROVE  Goal
  <2>0. Place("nothing", "idle", 0) \in Step /\ Is(p, "force", "close")
    BY <1>x, <1>14 DEF ForceCloses, Is, OnPath, Place, Step, Steps
  <2>1. Moved(p, Place("nothing", "idle", 0))
    BY <1>0, <1>14, ExitMoves DEF ForceCloses
  <2>2. KeepsOwing(p, "F0md")
    BY <1>x, <1>y, <2>0, <2>1 DEF KeepsOwing, Owes, OnPath, Is, Moved, Place
  <2>3. KeysStepOf(p)
    BY <1>14, <2>2, RestoreOwned, KeysAre DEF ForceCloses
  <2>4. mine' \in [Processes -> Value]
    BY <1>0, <1>14, ExitMoves DEF ForceCloses
  <2> QED
    BY <1>x, <1>y, <1>14, <2>0, <2>1, <2>3, <2>4 DEF Kept, Moved, Place, ForceCloses, Is, OnPath
<1> QED
  BY <1>1, <1>2, <1>3, <1>4, <1>5, <1>6, <1>7, <1>8, <1>9, <1>10, <1>11, <1>12, <1>13, <1>14 DEF ForceStep

\* Every step of probe.
LEMMA ProbeKeeps ==
    ASSUME TypeOK, PathsInv, NEW p \in Processes, ProbeStep(p)
    PROVE  Kept(p) /\ at'[p].run # "session" /\ UNCHANGED lock
<1> DEFINE Goal == Kept(p) /\ at'[p].run # "session" /\ UNCHANGED lock
<1>0. /\ AtTypeOK /\ smc \in [SmcKeys -> Value] /\ mine \in [Processes -> Value] /\ lost \subseteq SmcKeys
  BY DEF TypeOK, AtTypeOK, Step
<1>x. PICK x \in 0 .. 5 : at[p].path = x
  BY DEF TypeOK
<1>y. /\ at[p].run = "force" => x <= 4
      /\ at[p].run = "probe" /\ at[p].step \in {"read", "reset"} => x <= 4
  BY <1>x DEF PathsInv
<1>1. CASE StartProbe(p)
  <2>0. Place("probe", "read", 0) \in Step /\ at[p].run = "nothing"
    BY <1>x, <1>1 DEF StartProbe, Is, OnPath, Place, Step, Steps, Start, Idle
  <2>1. Moved(p, Place("probe", "read", 0))
    BY <1>0, <1>x, <1>1, <2>0, MoveMoves DEF StartProbe, Start
  <2>2. \A j \in SmcKeys : Owes(p, j) => Owes(p, j)'
    BY <1>x, <1>y, <2>0, <2>1 DEF Owes, OnPath, Is, Moved, Place
  <2>3. KeysStepOf(p)
    BY <1>1, <2>2, NoWriteOwned DEF StartProbe
  <2>4. mine' \in [Processes -> Value]
    BY <1>0, <1>1 DEF StartProbe
  <2> QED
    BY <1>x, <1>y, <1>1, <2>0, <2>1, <2>3, <2>4 DEF Kept, Moved, Place, StartProbe, Is, OnPath
<1>2. CASE ProbeReads(p)
  <2>0. Place("probe", "reset", x) \in Step /\ Is(p, "probe", "read")
    BY <1>x, <1>2 DEF ProbeReads, Is, OnPath, Place, Step, Steps
  <2>1. Moved(p, Place("probe", "reset", x))
    BY <1>0, <1>x, <1>2, <2>0, MoveMoves DEF ProbeReads, Goto, Is, OnPath
  <2>2. \A j \in SmcKeys : Owes(p, j) => Owes(p, j)'
    BY <1>x, <1>y, <2>0, <2>1 DEF Owes, OnPath, Is, Moved, Place
  <2>3. KeysStepOf(p)
    BY <1>2, <2>2, NoWriteOwned DEF ProbeReads
  <2>4. mine' \in [Processes -> Value]
    BY <1>0, <1>x, <1>y, <1>2, KeysAre DEF ProbeReads
  <2> QED
    BY <1>x, <1>y, <1>2, <2>0, <2>1, <2>3, <2>4 DEF Kept, Moved, Place, ProbeReads, Is, OnPath
<1>3. CASE ProbeGivesUp(p)
  <2>0. Place("nothing", "idle", 0) \in Step /\ Is(p, "probe", "read")
    BY <1>x, <1>3 DEF ProbeGivesUp, Is, OnPath, Place, Step, Steps
  <2>1. Moved(p, Place("nothing", "idle", 0))
    BY <1>0, <1>3, ExitMoves DEF ProbeGivesUp
  <2>2. \A j \in SmcKeys : Owes(p, j) => Owes(p, j)'
    BY <1>x, <1>y, <2>0, <2>1 DEF Owes, OnPath, Is, Moved, Place
  <2>3. KeysStepOf(p)
    BY <1>3, <2>2, NoWriteOwned DEF ProbeGivesUp
  <2>4. mine' \in [Processes -> Value]
    BY <1>0, <1>3, ExitMoves DEF ProbeGivesUp
  <2> QED
    BY <1>x, <1>y, <1>3, <2>0, <2>1, <2>3, <2>4 DEF Kept, Moved, Place, ProbeGivesUp, Is, OnPath
<1>4. ASSUME NEW ok \in BOOLEAN, ProbeResets(p, ok)
      PROVE  Goal
  <2>0. Is(p, "probe", "reset")
    BY <1>x, <1>4 DEF ProbeResets, OnPath
  <2>1. Place("probe", "try", x + 1) \in Step
    BY <1>x, <1>y, <2>0 DEF Place, Step, Steps, Is
  <2>2. Moved(p, Place("probe", "try", x + 1))
    BY <1>0, <1>x, <1>4, <2>0, <2>1, MoveMoves DEF ProbeResets, Is, OnPath, Try
  <2>3. KeepsOwing(p, "F0md") /\ Owes(p, "F0md")'
    BY <1>x, <1>y, <2>0, <2>2 DEF KeepsOwing, Owes, OnPath, Is, Moved, Place
  <2>4. KeysStepOf(p)
    BY <1>4, <2>3, ResetOwned, KeysAre DEF ProbeResets
  <2> QED
    BY <1>0, <1>x, <1>y, <1>4, <2>2, <2>4 DEF Kept, Moved, Place, ProbeResets
<1>5. CASE ProbeDirect(p)
  <2>0. Place("probe", "reset", x) \in Step /\ Is(p, "probe", "try") /\ x \in {1, 2}
    BY <1>x, <1>5 DEF ProbeDirect, Is, OnPath, Place, Step, Steps
  <2>1. Moved(p, Place("probe", "reset", x))
    BY <1>0, <1>x, <1>5, <2>0, MoveMoves DEF ProbeDirect, Goto, Is, OnPath
  <2>2. \A j \in SmcKeys : Owes(p, j) => Owes(p, j)'
    BY <1>x, <1>y, <2>0, <2>1 DEF Owes, OnPath, Is, Moved, Place
  <2>3. KeysStepOf(p)
    BY <1>5, <2>2, NoWriteOwned DEF ProbeDirect
  <2>4. mine' \in [Processes -> Value]
    BY <1>0, <1>5 DEF ProbeDirect
  <2> QED
    BY <1>x, <1>y, <1>5, <2>0, <2>1, <2>3, <2>4 DEF Kept, Moved, Place, ProbeDirect, Is, OnPath
<1>6. ASSUME NEW ok \in BOOLEAN, ProbeMode(p, ok)
      PROVE  Goal
  <2>0. Place("probe", "reset", x) \in Step /\ Is(p, "probe", "try") /\ x = 3
    BY <1>x, <1>6 DEF ProbeMode, Is, OnPath, Place, Step, Steps
  <2>1. Moved(p, Place("probe", "reset", x))
    BY <1>0, <1>x, <1>6, <2>0, MoveMoves DEF ProbeMode, Goto, Is, OnPath
  <2>2. KeepsOwing(p, "F0md") /\ Owes(p, "F0md")'
    BY <1>x, <1>y, <2>0, <2>1 DEF KeepsOwing, Owes, OnPath, Is, Moved, Place
  <2>3. KeysStepOf(p)
    BY <1>6, <2>2, AlterOwned, KeysAre DEF ProbeMode
  <2>4. mine' \in [Processes -> Value]
    BY <1>0, <1>6 DEF ProbeMode
  <2> QED
    BY <1>x, <1>y, <1>6, <2>0, <2>1, <2>3, <2>4 DEF Kept, Moved, Place, ProbeMode, Is, OnPath
<1>7. ASSUME NEW ok \in BOOLEAN, ProbeRaises(p, ok)
      PROVE  Goal
  <2>0. Place("probe", IF ok THEN "second" ELSE "reset", x) \in Step /\ Is(p, "probe", "try") /\ x = 4
    BY <1>x, <1>7 DEF ProbeRaises, Is, OnPath, Place, Step, Steps
  <2>1. Moved(p, Place("probe", IF ok THEN "second" ELSE "reset", x))
    BY <1>0, <1>x, <1>7, <2>0, MoveMoves DEF ProbeRaises, Is, OnPath, Goto
  <2>2. KeepsOwing(p, "F0Mn") /\ (ok => Owes(p, "F0Mn")')
    BY <1>x, <1>y, <2>0, <2>1 DEF KeepsOwing, Owes, OnPath, Is, Moved, Place
  <2>3. Put("F0Mn", Altered, ok)
    BY <1>7 DEF ProbeRaises
  <2>4. ASSUME NEW j \in SmcKeys, smc'[j].from = "tool"
        PROVE  j \in lost' \/ Owes(p, j)' \/ (smc[j].from = "tool" /\ j \notin lost /\ ~Owes(p, j))
    <3>1. CASE j = "F0Mn"
      BY <1>7, <2>2, <2>4, <3>1 DEF ProbeRaises, StillAltered
    <3>2. CASE j # "F0Mn"
      BY <1>7, <2>2, <2>3, <2>4, <3>2, PutDoes, KeysAre DEF ProbeRaises, StillAltered, KeepsOwing
    <3> QED
      BY <3>1, <3>2
  <2>5. lost' \subseteq SmcKeys /\ smc' \in [SmcKeys -> Value]
    BY <1>0, <1>x, <1>y, <1>7, <2>3, PutType, KeysAre DEF ProbeRaises, StillAltered
  <2>6. KeysStepOf(p)
    BY <2>4, <2>5 DEF KeysStepOf
  <2> QED
    BY <1>0, <1>x, <1>y, <1>7, <2>0, <2>1, <2>6 DEF Kept, Moved, Place, ProbeRaises, OnPath
<1>8. ASSUME NEW ok \in BOOLEAN, ProbeRaisedMode(p, ok)
      PROVE  Goal
  <2>0. Place("probe", "restore", x) \in Step /\ Is(p, "probe", "second")
    BY <1>x, <1>8 DEF ProbeRaisedMode, Is, OnPath, Place, Step, Steps
  <2>1. Moved(p, Place("probe", "restore", x))
    BY <1>0, <1>x, <1>8, <2>0, MoveMoves DEF ProbeRaisedMode, Goto, Is, OnPath
  <2>2. KeepsOwing(p, "F0md") /\ Owes(p, "F0md")'
    BY <1>x, <1>y, <2>0, <2>1 DEF KeepsOwing, Owes, OnPath, Is, Moved, Place
  <2>3. KeysStepOf(p)
    BY <1>8, <2>2, AlterOwned, KeysAre DEF ProbeRaisedMode
  <2>4. mine' \in [Processes -> Value]
    BY <1>0, <1>8 DEF ProbeRaisedMode
  <2> QED
    BY <1>x, <1>y, <1>8, <2>0, <2>1, <2>3, <2>4 DEF Kept, Moved, Place, ProbeRaisedMode, Is, OnPath
<1>9. ASSUME NEW ok \in BOOLEAN, ProbeRestoresFloor(p, ok)
      PROVE  Goal
  <2>0. Place("probe", "reset", x) \in Step /\ Is(p, "probe", "restore") /\ x = 4
    BY <1>x, <1>9 DEF ProbeRestoresFloor, Is, OnPath, Place, Step, Steps
  <2>1. Moved(p, Place("probe", "reset", x))
    BY <1>0, <1>x, <1>9, <2>0, MoveMoves DEF ProbeRestoresFloor, Goto, Is, OnPath
  <2>2. KeepsOwing(p, "F0Mn")
    BY <1>x, <1>y, <2>0, <2>1 DEF KeepsOwing, Owes, OnPath, Is, Moved, Place
  <2>3. KeysStepOf(p)
    BY <1>9, <1>0, <2>2, RestoreOwned, KeysAre DEF ProbeRestoresFloor
  <2>4. mine' \in [Processes -> Value]
    BY <1>0, <1>9 DEF ProbeRestoresFloor
  <2> QED
    BY <1>x, <1>y, <1>9, <2>0, <2>1, <2>3, <2>4 DEF Kept, Moved, Place, ProbeRestoresFloor, Is, OnPath
<1>10. ASSUME NEW ok \in BOOLEAN, ProbeSpoofs(p, ok)
      PROVE  Goal
  <2>0. Place("probe", "restore", x) \in Step /\ Is(p, "probe", "try") /\ x = 5
    BY <1>x, <1>10 DEF ProbeSpoofs, Is, OnPath, Place, Step, Steps
  <2>1. Moved(p, Place("probe", "restore", x))
    BY <1>0, <1>x, <1>10, <2>0, MoveMoves DEF ProbeSpoofs, Goto, Is, OnPath
  <2>2. KeepsOwing(p, "Tp0a") /\ Owes(p, "Tp0a")'
    BY <1>x, <1>y, <2>0, <2>1 DEF KeepsOwing, Owes, OnPath, Is, Moved, Place
  <2>3. KeysStepOf(p)
    BY <1>10, <2>2, AlterOwned, KeysAre DEF ProbeSpoofs
  <2>4. mine' \in [Processes -> Value]
    BY <1>0, <1>x, <1>y, <1>10, KeysAre DEF ProbeSpoofs
  <2> QED
    BY <1>x, <1>y, <1>10, <2>0, <2>1, <2>3, <2>4 DEF Kept, Moved, Place, ProbeSpoofs, Is, OnPath
<1>11. ASSUME NEW ok \in BOOLEAN, ProbeRestoresSensor(p, ok)
      PROVE  Goal
  <2>0. Place("probe", "close", x) \in Step /\ Is(p, "probe", "restore") /\ x = 5
    BY <1>x, <1>11 DEF ProbeRestoresSensor, Is, OnPath, Place, Step, Steps
  <2>1. Moved(p, Place("probe", "close", x))
    BY <1>0, <1>x, <1>11, <2>0, MoveMoves DEF ProbeRestoresSensor, Goto, Is, OnPath
  <2>2. KeepsOwing(p, "Tp0a")
    BY <1>x, <1>y, <2>0, <2>1 DEF KeepsOwing, Owes, OnPath, Is, Moved, Place
  <2>3. KeysStepOf(p)
    BY <1>11, <1>0, <2>2, RestoreOwned, KeysAre DEF ProbeRestoresSensor
  <2>4. mine' \in [Processes -> Value]
    BY <1>0, <1>11 DEF ProbeRestoresSensor
  <2> QED
    BY <1>x, <1>y, <1>11, <2>0, <2>1, <2>3, <2>4 DEF Kept, Moved, Place, ProbeRestoresSensor, Is, OnPath
<1>12. ASSUME NEW ok \in BOOLEAN, ProbeCloses(p, ok)
      PROVE  Goal
  <2>0. Place("nothing", "idle", 0) \in Step /\ Is(p, "probe", "close")
    BY <1>x, <1>12 DEF ProbeCloses, Is, OnPath, Place, Step, Steps
  <2>1. Moved(p, Place("nothing", "idle", 0))
    BY <1>0, <1>12, ExitMoves DEF ProbeCloses
  <2>2. KeepsOwing(p, "F0md")
    BY <1>x, <1>y, <2>0, <2>1 DEF KeepsOwing, Owes, OnPath, Is, Moved, Place
  <2>3. KeysStepOf(p)
    BY <1>12, <2>2, RestoreOwned, KeysAre DEF ProbeCloses
  <2>4. mine' \in [Processes -> Value]
    BY <1>0, <1>12, ExitMoves DEF ProbeCloses
  <2> QED
    BY <1>x, <1>y, <1>12, <2>0, <2>1, <2>3, <2>4 DEF Kept, Moved, Place, ProbeCloses, Is, OnPath
<1> QED
  BY <1>1, <1>2, <1>3, <1>4, <1>5, <1>6, <1>7, <1>8, <1>9, <1>10, <1>11, <1>12 DEF ProbeStep

\* Every step of keys.
LEMMA KeysKeeps ==
    ASSUME TypeOK, PathsInv, NEW p \in Processes, KeysStep(p)
    PROVE  Kept(p) /\ at'[p].run # "session" /\ UNCHANGED lock
<1> DEFINE Goal == Kept(p) /\ at'[p].run # "session" /\ UNCHANGED lock
<1>0. /\ AtTypeOK /\ smc \in [SmcKeys -> Value] /\ mine \in [Processes -> Value] /\ lost \subseteq SmcKeys
  BY DEF TypeOK, AtTypeOK, Step
<1>x. PICK x \in 0 .. 5 : at[p].path = x
  BY DEF TypeOK
<1>y. /\ at[p].run = "force" => x <= 4
      /\ at[p].run = "probe" /\ at[p].step \in {"read", "reset"} => x <= 4
  BY <1>x DEF PathsInv
<1>1. CASE StartKeys(p, "before")
  <2>0. Place("keys", "before", 0) \in Step /\ at[p].run = "nothing"
    BY <1>x, <1>1 DEF StartKeys, Is, OnPath, Place, Step, Steps, Start, Idle
  <2>1. Moved(p, Place("keys", "before", 0))
    BY <1>0, <1>x, <1>1, <2>0, MoveMoves DEF StartKeys, Start
  <2>2. \A j \in SmcKeys : Owes(p, j) => Owes(p, j)'
    BY <1>x, <1>y, <2>0, <2>1 DEF Owes, OnPath, Is, Moved, Place
  <2>3. KeysStepOf(p)
    BY <1>1, <2>2, NoWriteOwned DEF StartKeys
  <2>4. mine' \in [Processes -> Value]
    BY <1>0, <1>1 DEF StartKeys
  <2> QED
    BY <1>x, <1>y, <1>1, <2>0, <2>1, <2>3, <2>4 DEF Kept, Moved, Place, StartKeys, Is, OnPath
<1>2. CASE StartKeys(p, "write")
  <2>0. Place("keys", "write", 0) \in Step /\ at[p].run = "nothing"
    BY <1>x, <1>2 DEF StartKeys, Is, OnPath, Place, Step, Steps, Start, Idle
  <2>1. Moved(p, Place("keys", "write", 0))
    BY <1>0, <1>x, <1>2, <2>0, MoveMoves DEF StartKeys, Start
  <2>2. \A j \in SmcKeys : Owes(p, j) => Owes(p, j)'
    BY <1>x, <1>y, <2>0, <2>1 DEF Owes, OnPath, Is, Moved, Place
  <2>3. KeysStepOf(p)
    BY <1>2, <2>2, NoWriteOwned DEF StartKeys
  <2>4. mine' \in [Processes -> Value]
    BY <1>0, <1>2 DEF StartKeys
  <2> QED
    BY <1>x, <1>y, <1>2, <2>0, <2>1, <2>3, <2>4 DEF Kept, Moved, Place, StartKeys, Is, OnPath
<1>3. ASSUME NEW ok \in BOOLEAN, ProbeFtst(p, ok)
      PROVE  Goal
  <2>0. Place("keys", "list", x) \in Step /\ Is(p, "keys", "before")
    BY <1>x, <1>3 DEF ProbeFtst, Is, OnPath, Place, Step, Steps
  <2>1. Moved(p, Place("keys", "list", x))
    BY <1>0, <1>x, <1>3, <2>0, MoveMoves DEF ProbeFtst, Goto, Is, OnPath
  <2>2. KeepsOwing(p, "Ftst") /\ (Owes(p, "Ftst") => Owes(p, "Ftst")')
    BY <1>x, <1>y, <2>0, <2>1 DEF KeepsOwing, Owes, OnPath, Is, Moved, Place
  <2>3. KeysStepOf(p)
    BY <1>3, <2>2, ResetOwned, KeysAre DEF ProbeFtst
  <2>4. mine' \in [Processes -> Value]
    BY <1>0, <1>3 DEF ProbeFtst
  <2> QED
    BY <1>x, <1>y, <1>3, <2>0, <2>1, <2>3, <2>4 DEF Kept, Moved, Place, ProbeFtst, Is, OnPath
<1>4. ASSUME NEW ok \in BOOLEAN, ListKeys(p, ok)
      PROVE  Goal
  <2>1. CASE ok
    <3>0. Place("keys", "after", x) \in Step /\ Is(p, "keys", "list")
      BY <1>x, <1>4 DEF ListKeys, Is, Place, Step, Steps
    <3>1. Moved(p, Place("keys", "after", x))
      BY <1>0, <1>x, <1>4, <2>1, <3>0, MoveMoves DEF ListKeys, Is, Goto
    <3>2. \A j \in SmcKeys : ~Owes(p, j)
      BY <3>0 DEF Owes, Is
    <3>3. KeysStepOf(p)
      BY <1>4, <3>2, NoWriteOwned DEF ListKeys
    <3> QED
      BY <1>0, <1>x, <1>y, <1>4, <2>1, <3>1, <3>3 DEF Kept, Moved, Place, ListKeys
  <2>2. CASE ~ok
    <3>0. Exit(p) /\ Is(p, "keys", "list")
      BY <1>4, <2>2 DEF ListKeys
    <3>1. Moved(p, Place("nothing", "idle", 0)) /\ mine' \in [Processes -> Value]
      BY <1>0, <3>0, ExitMoves
    <3>2. \A j \in SmcKeys : ~Owes(p, j)
      BY <3>0 DEF Owes, Is
    <3>3. KeysStepOf(p)
      BY <1>4, <3>2, NoWriteOwned DEF ListKeys
    <3> QED
      BY <1>4, <3>1, <3>3 DEF Kept, Moved, Place, ListKeys
  <2> QED
    BY <2>1, <2>2
<1>5. ASSUME NEW ok \in BOOLEAN, ProbeFtstAgain(p, ok)
      PROVE  Goal
  <2>0. Place("nothing", "idle", 0) \in Step /\ Is(p, "keys", "after")
    BY <1>x, <1>5 DEF ProbeFtstAgain, Is, OnPath, Place, Step, Steps
  <2>1. Moved(p, Place("nothing", "idle", 0))
    BY <1>0, <1>5, ExitMoves DEF ProbeFtstAgain
  <2>2. KeepsOwing(p, "Ftst") /\ (Owes(p, "Ftst") => Owes(p, "Ftst")')
    BY <1>x, <1>y, <2>0, <2>1 DEF KeepsOwing, Owes, OnPath, Is, Moved, Place
  <2>3. KeysStepOf(p)
    BY <1>5, <2>2, ResetOwned, KeysAre DEF ProbeFtstAgain
  <2>4. mine' \in [Processes -> Value]
    BY <1>0, <1>5, ExitMoves DEF ProbeFtstAgain
  <2> QED
    BY <1>x, <1>y, <1>5, <2>0, <2>1, <2>3, <2>4 DEF Kept, Moved, Place, ProbeFtstAgain, Is, OnPath
<1>6. ASSUME NEW k \in SmcKeys, NEW n \in {Own, Altered}, NEW ok \in BOOLEAN,
             DebugWrite(p, k, n, ok)
      PROVE  Goal
  <2>0. Exit(p) /\ Is(p, "keys", "write")
    BY <1>6 DEF DebugWrite
  <2>1. Moved(p, Place("nothing", "idle", 0)) /\ mine' \in [Processes -> Value]
    BY <1>0, <2>0, ExitMoves
  <2>2. \A j \in SmcKeys : ~Owes(p, j)
    BY <2>0 DEF Owes, Is
  <2>3. \A j \in SmcKeys \ {k} : smc'[j] = smc[j]
    BY <1>0, <1>6 DEF DebugWrite
  <2>4. \A j \in SmcKeys : smc'[j].from = "tool" => j \in lost' \/ (smc[j].from = "tool" /\ j \notin lost)
    BY <1>6, <2>3 DEF DebugWrite, StillAltered
  <2>5. lost' \subseteq SmcKeys /\ smc' \in [SmcKeys -> Value]
    BY <1>0, <1>x, <1>y, <1>6, KeysAre DEF DebugWrite, StillAltered
  <2>6. KeysStepOf(p)
    BY <2>2, <2>4, <2>5 DEF KeysStepOf
  <2> QED
    BY <1>6, <2>1, <2>6 DEF Kept, Moved, Place, DebugWrite
<1>7. CASE DebugWriteRefused(p)
  <2>0. Place("nothing", "idle", 0) \in Step /\ Is(p, "keys", "write")
    BY <1>x, <1>7 DEF DebugWriteRefused, Is, OnPath, Place, Step, Steps
  <2>1. Moved(p, Place("nothing", "idle", 0))
    BY <1>0, <1>7, ExitMoves DEF DebugWriteRefused
  <2>2. \A j \in SmcKeys : Owes(p, j) => Owes(p, j)'
    BY <1>x, <1>y, <2>0, <2>1 DEF Owes, OnPath, Is, Moved, Place
  <2>3. KeysStepOf(p)
    BY <1>7, <2>2, NoWriteOwned DEF DebugWriteRefused
  <2>4. mine' \in [Processes -> Value]
    BY <1>0, <1>7, ExitMoves DEF DebugWriteRefused
  <2> QED
    BY <1>x, <1>y, <1>7, <2>0, <2>1, <2>3, <2>4 DEF Kept, Moved, Place, DebugWriteRefused, Is, OnPath
<1> QED
  BY <1>1, <1>2, <1>3, <1>4, <1>5, <1>6, <1>7 DEF KeysStep

-----------------------------------------------------------------------------
\* The lock, as a process that runs a session knows it.
LockOf(p) ==
    at[p].run = "session" =>
        /\ at[p].step \in {"lock", "truncate", "pid", "held", "release", "relock", "unlock"}
        /\ at[p].step # "lock" => holder = p
        /\ at[p].step \in {"held", "release", "relock", "unlock"} => pidFile = p

LockInv == \A p \in Processes : LockOf(p)

LockTypes == holder \in Processes \cup {"none"} /\ pidFile \in Processes \cup {"empty"}

\* What any step of p does to the lock: the others find it as it was.
LockStep(p) ==
    /\ LockTypes'
    /\ LockOf(p)'
    /\ \A q \in Processes \ {p} : LockOf(q)'

LEMMA LockLeft ==
    ASSUME TypeOK, LockInv, NEW p \in Processes, Kept(p), at'[p].run # "session", UNCHANGED lock
    PROVE  LockStep(p)
BY DEF TypeOK, LockTypes, LockInv, LockOf, LockStep, Kept, lock

\* Every step of a session.
LEMMA SessionKeeps ==
    ASSUME TypeOK, LockInv, NEW p \in Processes, SessionStep(p)
    PROVE  Kept(p) /\ LockStep(p)
<1> DEFINE Goal == Kept(p) /\ LockStep(p)
<1>0. /\ AtTypeOK /\ smc \in [SmcKeys -> Value] /\ mine \in [Processes -> Value] /\ lost \subseteq SmcKeys
      /\ LockTypes /\ \A q \in Processes : LockOf(q)
  BY DEF TypeOK, AtTypeOK, Step, LockTypes, LockInv
<1>x. PICK x \in 0 .. 5 : at[p].path = x
  BY DEF TypeOK
<1>n. \A q \in Processes : q # "none" /\ q # "empty"
  BY ProcessesAssumption
<1>1. CASE StartSession(p)
  <2>0. Place("session", "lock", 0) \in Step /\ at[p].run = "nothing"
    BY <1>x, <1>1 DEF StartSession, Is, Place, Step, Steps, Start, Idle
  <2>1. Moved(p, Place("session", "lock", 0))
    BY <1>0, <1>x, <1>1, <2>0, MoveMoves DEF StartSession, Is, Start
  <2>2. \A j \in SmcKeys : Owes(p, j) => Owes(p, j)'
    BY <2>0, <2>1 DEF Owes, Is, Moved, Place
  <2>3. KeysStepOf(p)
    BY <1>1, <2>2, NoWriteOwned DEF StartSession
  <2>4. Kept(p)
    BY <1>0, <1>1, <2>1, <2>3 DEF Kept, Moved, Place, StartSession
  <2>5. LockStep(p)
    BY <1>0, <1>1, <2>0, <2>1 DEF LockStep, LockTypes, LockOf, Moved, Place, Is, lock, StartSession
  <2> QED
    BY <2>4, <2>5
<1>2. CASE TryLock(p)
  <2>0. Is(p, "session", "lock")
    BY <1>2 DEF TryLock
  <2>1. CASE holder = "none"
    <3>1. Place("session", "truncate", x) \in Step
      BY <1>x DEF Place, Step, Steps
    <3>2. Moved(p, Place("session", "truncate", x))
      BY <1>0, <1>x, <1>2, <2>0, <2>1, <3>1, MoveMoves DEF TryLock, Is, Goto
    <3>3. \A j \in SmcKeys : Owes(p, j) => Owes(p, j)'
      BY <2>0, <3>2 DEF Owes, Is, Moved, Place
    <3>4. KeysStepOf(p)
      BY <1>2, <3>3, NoWriteOwned DEF TryLock
    <3>5. Kept(p)
      BY <1>0, <1>2, <2>1, <3>2, <3>4 DEF Kept, Moved, Place, TryLock
    <3>6. LockStep(p)
      BY <1>0, <1>n, <1>2, <2>0, <2>1, <3>2 DEF LockStep, LockTypes, LockOf, Moved, Place, Is, TryLock
    <3> QED
      BY <3>5, <3>6
  <2>2. CASE holder # "none"
    <3>1. Moved(p, Place("nothing", "idle", 0)) /\ mine' \in [Processes -> Value]
      BY <1>0, <1>2, <2>2, ExitMoves DEF TryLock
    <3>2. \A j \in SmcKeys : Owes(p, j) => Owes(p, j)'
      BY <2>0 DEF Owes, Is
    <3>3. KeysStepOf(p)
      BY <1>2, <3>2, NoWriteOwned DEF TryLock
    <3>4. Kept(p)
      BY <3>1, <3>3 DEF Kept, Moved, Place
    <3>5. LockStep(p)
      BY <1>0, <1>2, <2>2, <3>1 DEF LockStep, LockTypes, LockOf, Moved, Place, TryLock
    <3> QED
      BY <3>4, <3>5
  <2> QED
    BY <2>1, <2>2
<1>3. CASE Truncate(p)
  <2>0. Place("session", "pid", x) \in Step /\ Is(p, "session", "truncate")
    BY <1>x, <1>3 DEF Truncate, Is, Place, Step, Steps
  <2>1. Moved(p, Place("session", "pid", x))
    BY <1>0, <1>x, <1>3, <2>0, MoveMoves DEF Truncate, Is, Goto
  <2>2. \A j \in SmcKeys : Owes(p, j) => Owes(p, j)'
    BY <2>0, <2>1 DEF Owes, Is, Moved, Place
  <2>3. KeysStepOf(p)
    BY <1>3, <2>2, NoWriteOwned DEF Truncate
  <2>4. Kept(p)
    BY <1>0, <1>3, <2>1, <2>3 DEF Kept, Moved, Place, Truncate
  <2>5. LockStep(p)
    BY <1>0, <1>n, <1>3, <2>0, <2>1 DEF LockStep, LockTypes, LockOf, Moved, Place, Is, lock, Truncate
  <2> QED
    BY <2>4, <2>5
<1>4. CASE WritePid(p)
  <2>0. Place("session", "held", x) \in Step /\ Is(p, "session", "pid")
    BY <1>x, <1>4 DEF WritePid, Is, Place, Step, Steps
  <2>1. Moved(p, Place("session", "held", x))
    BY <1>0, <1>x, <1>4, <2>0, MoveMoves DEF WritePid, Is, Goto
  <2>2. \A j \in SmcKeys : Owes(p, j) => Owes(p, j)'
    BY <2>0, <2>1 DEF Owes, Is, Moved, Place
  <2>3. KeysStepOf(p)
    BY <1>4, <2>2, NoWriteOwned DEF WritePid
  <2>4. Kept(p)
    BY <1>0, <1>4, <2>1, <2>3 DEF Kept, Moved, Place, WritePid
  <2>5. LockStep(p)
    BY <1>0, <1>4, <2>0, <2>1 DEF LockStep, LockTypes, LockOf, Moved, Place, Is, lock, WritePid
  <2> QED
    BY <2>4, <2>5
<1>5. CASE LockFileFails(p)
  <2>0. Is(p, "session", "truncate") \/ Is(p, "session", "pid")
    BY <1>5 DEF LockFileFails
  <2>1. Moved(p, Place("nothing", "idle", 0)) /\ mine' \in [Processes -> Value]
    BY <1>0, <1>5, ExitMoves DEF LockFileFails
  <2>2. \A j \in SmcKeys : Owes(p, j) => Owes(p, j)'
    BY <2>0 DEF Owes, Is
  <2>3. KeysStepOf(p)
    BY <1>5, <2>2, NoWriteOwned DEF LockFileFails
  <2>4. Kept(p)
    BY <2>1, <2>3 DEF Kept, Moved, Place
  <2>5. LockStep(p)
    BY <1>0, <1>n, <1>5, <2>0, <2>1 DEF LockStep, LockTypes, LockOf, Moved, Place, Is, LockFileFails
  <2> QED
    BY <2>4, <2>5
<1>6. CASE BeginRelease(p)
  <2>0. Place("session", "release", x) \in Step /\ Is(p, "session", "held")
    BY <1>x, <1>6 DEF BeginRelease, Is, Place, Step, Steps
  <2>1. Moved(p, Place("session", "release", x))
    BY <1>0, <1>x, <1>6, <2>0, MoveMoves DEF BeginRelease, Is, Goto
  <2>2. \A j \in SmcKeys : Owes(p, j) => Owes(p, j)'
    BY <2>0, <2>1 DEF Owes, Is, Moved, Place
  <2>3. KeysStepOf(p)
    BY <1>6, <2>2, NoWriteOwned DEF BeginRelease
  <2>4. Kept(p)
    BY <1>0, <1>6, <2>1, <2>3 DEF Kept, Moved, Place, BeginRelease
  <2>5. LockStep(p)
    BY <1>0, <1>6, <2>0, <2>1 DEF LockStep, LockTypes, LockOf, Moved, Place, Is, lock, BeginRelease
  <2> QED
    BY <2>4, <2>5
<1>7. CASE UnlockFile(p)
  <2>0. Is(p, "session", "unlock")
    BY <1>7 DEF UnlockFile
  <2>1. Moved(p, Place("nothing", "idle", 0)) /\ mine' \in [Processes -> Value]
    BY <1>0, <1>7, ExitMoves DEF UnlockFile
  <2>2. \A j \in SmcKeys : Owes(p, j) => Owes(p, j)'
    BY <2>0, <2>1 DEF Owes, Is, Moved, Place
  <2>3. KeysStepOf(p)
    BY <1>7, <2>2, NoWriteOwned DEF UnlockFile
  <2>4. Kept(p)
    BY <1>0, <1>7, <2>1, <2>3 DEF Kept, Moved, Place, UnlockFile
  <2>5. LockStep(p)
    BY <1>0, <1>7, <2>0, <2>1 DEF LockStep, LockTypes, LockOf, Moved, Place, Is, lock, UnlockFile
  <2> QED
    BY <2>4, <2>5
<1>8. ASSUME NEW ok \in BOOLEAN, SessionReleases(p, ok)
      PROVE  Goal
  <2>0. Place("session", "relock", x) \in Step /\ Is(p, "session", "release")
    BY <1>x, <1>8 DEF SessionReleases, Is, Place, Step, Steps
  <2>1. Moved(p, Place("session", "relock", x))
    BY <1>0, <1>x, <1>8, <2>0, MoveMoves DEF SessionReleases, Is, Goto
  <2>2. KeepsOwing(p, "F0md")
    BY <2>0, <2>1 DEF KeepsOwing, Owes, Is, Moved, Place
  <2>3. KeysStepOf(p)
    BY <1>8, <2>2, RestoreOwned, KeysAre DEF SessionReleases
  <2>4. Kept(p)
    BY <1>0, <1>8, <2>1, <2>3 DEF Kept, Moved, Place, SessionReleases
  <2>5. LockStep(p)
    BY <1>0, <1>8, <2>0, <2>1 DEF LockStep, LockTypes, LockOf, Moved, Place, Is, lock, SessionReleases
  <2> QED
    BY <2>4, <2>5
<1>9. ASSUME NEW ok \in BOOLEAN, SessionLocksFtst(p, ok)
      PROVE  Goal
  <2>0. Place("session", "unlock", x) \in Step /\ Is(p, "session", "relock")
    BY <1>x, <1>9 DEF SessionLocksFtst, Is, Place, Step, Steps
  <2>1. Moved(p, Place("session", "unlock", x))
    BY <1>0, <1>x, <1>9, <2>0, MoveMoves DEF SessionLocksFtst, Is, Goto
  <2>2. KeepsOwing(p, "Ftst")
    BY <2>0, <2>1 DEF KeepsOwing, Owes, Is, Moved, Place
  <2>3. KeysStepOf(p)
    BY <1>9, <2>2, RestoreOwned, KeysAre DEF SessionLocksFtst
  <2>4. Kept(p)
    BY <1>0, <1>9, <2>1, <2>3 DEF Kept, Moved, Place, SessionLocksFtst
  <2>5. LockStep(p)
    BY <1>0, <1>9, <2>0, <2>1 DEF LockStep, LockTypes, LockOf, Moved, Place, Is, lock, SessionLocksFtst
  <2> QED
    BY <2>4, <2>5
<1>10. ASSUME NEW k \in Bytes, NEW ok \in BOOLEAN, SessionAlters(p, k, ok)
       PROVE  Goal
  <2>1. Is(p, "session", "held") /\ UNCHANGED at /\ UNCHANGED mine /\ UNCHANGED lock
    BY <1>10 DEF SessionAlters, processes
  <2>2. AtTypeOK' /\ \A q \in Processes : at'[q] = at[q]
    BY <1>0, <2>1 DEF AtTypeOK
  <2>3. KeepsOwing(p, k)
    BY <2>1 DEF KeepsOwing, Owes, OnPath
  <2>4. Owes(p, k)'
    <3>1. k = "F0md" \/ k = "Ftst"
      BY DEF Bytes
    <3>2. at[p].run = "session" /\ at[p].step = "held"
      BY <2>1 DEF Is
    <3>3. Owes(p, k)
      BY <3>1, <3>2 DEF Owes
    <3> QED
      BY <2>1, <3>3 DEF Owes, OnPath
  <2>5. KeysStepOf(p)
    BY <1>10, <2>3, <2>4, AlterOwned, KeysAre DEF SessionAlters
  <2>6. Kept(p)
    BY <1>0, <2>1, <2>2, <2>5 DEF Kept, Is
  <2>7. LockStep(p)
    BY <1>0, <2>1 DEF LockStep, LockTypes, LockOf, lock
  <2> QED
    BY <2>6, <2>7
<1> QED
  BY <1>1, <1>2, <1>3, <1>4, <1>5, <1>6, <1>7, <1>8, <1>9, <1>10 DEF SessionStep

\* A process is killed at any step.
LEMMA KillKeeps ==
    ASSUME TypeOK, LockInv, NEW p \in Processes, Kill(p)
    PROVE  Kept(p) /\ LockStep(p)
<1>0. /\ AtTypeOK /\ smc \in [SmcKeys -> Value] /\ mine \in [Processes -> Value] /\ lost \subseteq SmcKeys
      /\ LockTypes /\ \A q \in Processes : LockOf(q)
  BY DEF TypeOK, AtTypeOK, Step, LockTypes, LockInv
<1>1. Moved(p, Place("nothing", "idle", 0)) /\ mine' \in [Processes -> Value]
  BY <1>0, ExitMoves DEF Kill
<1>2. KeysStepOf(p)
  BY <1>0 DEF Kill, KeysStepOf, StillAltered
<1>3. Kept(p)
  BY <1>1, <1>2 DEF Kept, Moved, Place
<1>4. LockStep(p)
  BY <1>0, <1>1 DEF Kill, LockStep, LockTypes, LockOf, Moved, Place
<1> QED
  BY <1>3, <1>4

-----------------------------------------------------------------------------
\* Whatever is altered is lost or owed by a process.
Owned == \A k \in SmcKeys : smc[k].from = "tool" => k \in lost \/ \E p \in Processes : Owes(p, k)

Inv == TypeOK /\ PathsInv /\ LockInv /\ Owned

LEMMA StepKeepsInv ==
    ASSUME Inv, NEW p \in Processes, Kept(p), LockStep(p)
    PROVE  Inv'
<1>1. TypeOK'
  BY DEF Kept, AtTypeOK, Step, KeysStepOf, LockStep, LockTypes, TypeOK
<1>2. PathsInv'
  BY DEF Inv, PathsInv, Kept
<1>3. LockInv'
  BY DEF LockStep, LockInv
<1>4. ASSUME NEW k \in SmcKeys, smc'[k].from = "tool", k \notin lost'
      PROVE  \E q \in Processes : Owes(q, k)'
  <2>1. CASE Owes(p, k)'
    BY <2>1
  <2>2. CASE ~Owes(p, k)'
    <3>1. smc[k].from = "tool" /\ k \notin lost /\ ~Owes(p, k)
      BY <1>4, <2>2 DEF Kept, KeysStepOf
    <3>2. PICK q \in Processes : Owes(q, k)
      BY <3>1 DEF Inv, Owned
    <3>3. q # p /\ at'[q] = at[q]
      BY <3>1, <3>2 DEF Kept
    <3>4. Owes(q, k)'
      BY <3>2, <3>3 DEF Owes, OnPath
    <3> QED
      BY <3>4
  <2> QED
    BY <2>1, <2>2
<1>5. Owned'
  BY <1>4 DEF Owned
<1> QED
  BY <1>1, <1>2, <1>3, <1>5 DEF Inv

LEMMA MachineKeepsInv ==
    ASSUME Inv, NEW k \in SmcKeys, MachineWrites(k)
    PROVE  Inv'
<1>1. /\ smc' = [smc EXCEPT ![k] = Own] /\ lost' = StillAltered(lost)
      /\ UNCHANGED at /\ UNCHANGED mine /\ UNCHANGED holder /\ UNCHANGED pidFile
  BY DEF MachineWrites, processes, lock
<1>2. TypeOK'
  BY <1>1, KeysAre DEF Inv, TypeOK, StillAltered
<1>3. PathsInv' /\ LockInv'
  BY <1>1 DEF Inv, PathsInv, LockInv, LockOf
<1>4. ASSUME NEW j \in SmcKeys, smc'[j].from = "tool"
      PROVE  j \in lost' \/ \E p \in Processes : Owes(p, j)'
  <2>1. smc[j].from = "tool"
    BY <1>1, <1>4 DEF Inv, TypeOK, Own
  <2>2. CASE j \in lost
    BY <1>1, <1>4, <2>2 DEF StillAltered
  <2>3. CASE j \notin lost
    <3>1. PICK p \in Processes : Owes(p, j)
      BY <2>1, <2>3 DEF Inv, Owned
    <3>2. Owes(p, j)'
      BY <1>1, <3>1 DEF Owes, OnPath
    <3> QED
      BY <3>2
  <2> QED
    BY <2>2, <2>3
<1> QED
  BY <1>2, <1>3, <1>4 DEF Inv, Owned

LEMMA InitInv == Init => Inv
<1> SUFFICES ASSUME Init
             PROVE  Inv
  OBVIOUS
<1>1. Idle \in Step /\ Idle.run = "nothing"
  BY DEF Idle, Place, Step, Steps
<1>2. /\ AtTypeOK /\ smc \in [SmcKeys -> Value] /\ mine \in [Processes -> Value]
      /\ LockTypes /\ lost \subseteq SmcKeys
  BY <1>1, KeysAre DEF Init, AtTypeOK, LockTypes
<1>3. TypeOK
  BY <1>2 DEF TypeOK, AtTypeOK, Step, LockTypes
<1>4. PathsInv /\ LockInv
  BY <1>1 DEF Init, PathsInv, LockInv, LockOf
<1>5. Owned
  BY DEF Init, Owned, Own
<1> QED
  BY <1>3, <1>4, <1>5 DEF Inv

LEMMA NextInv == Inv /\ [Next]_vars => Inv'
<1> SUFFICES ASSUME Inv, [Next]_vars
             PROVE  Inv'
  OBVIOUS
<1>0. TypeOK /\ PathsInv /\ LockInv
  BY DEF Inv
<1>1. CASE \E p \in Processes : SessionStep(p) \/ Kill(p)
  BY <1>0, <1>1, SessionKeeps, KillKeeps, StepKeepsInv
<1>2. CASE \E p \in Processes : ForceStep(p) \/ ProbeStep(p) \/ KeysStep(p)
  <2>1. PICK p \in Processes : ForceStep(p) \/ ProbeStep(p) \/ KeysStep(p)
    BY <1>2
  <2>2. Kept(p) /\ at'[p].run # "session" /\ UNCHANGED lock
    BY <1>0, <2>1, ForceKeeps, ProbeKeeps, KeysKeeps
  <2> QED
    BY <1>0, <2>2, LockLeft, StepKeepsInv
<1>3. CASE \E k \in SmcKeys : MachineWrites(k)
  BY <1>3, MachineKeepsInv
<1>4. CASE UNCHANGED vars
  BY <1>4 DEF vars, processes, lock, Inv, TypeOK, PathsInv, LockInv, LockOf, Owned, Owes, OnPath
<1> QED
  BY <1>1, <1>2, <1>3, <1>4 DEF Next

\* Keys, places, the lock and its file are always of their types.
THEOREM ResearchTypesKept == Spec => []TypeOK
<1>1. Inv => TypeOK
  BY DEF Inv
<1> QED
  BY <1>1, InitInv, NextInv, PTL DEF Spec

\* Whatever any number of commands do to each other, a forced fan or an open
\* Ftst is lost for a known reason or owed a 0 by a process that runs.
THEOREM ForcedKeysHaveOwners == Spec => []ForcedHasOwner
<1>1. Inv => ForcedHasOwner
  BY KeysAre DEF Inv, Owned, ForcedHasOwner
<1> QED
  BY <1>1, InitInv, NextInv, PTL DEF Spec

\* The same of a raised floor and of a faked temperature.
THEOREM RaisedKeysHaveOwners == Spec => []RaisedHasOwner
<1>1. Inv => RaisedHasOwner
  BY DEF Inv, Owned, RaisedHasOwner, SmcKeys
<1> QED
  BY <1>1, InitInv, NextInv, PTL DEF Spec

\* As long as a session runs, the lock is its own and the file names it.
THEOREM PidIsTheHolders == Spec => []PidNamesHolder
<1>1. Inv => PidNamesHolder
  BY DEF Inv, LockInv, LockOf, PidNamesHolder
<1> QED
  BY <1>1, InitInv, NextInv, PTL DEF Spec
=============================================================================
