--------------------------- MODULE KeyInfoProofs ----------------------------
(***************************************************************************)
(* How far a cache that does not record its keys may mislead, for any      *)
(* keys, any cache size and any order of calls: a call uses its own key's  *)
(* info, or that of a key in the same slot, and a key that shares its slot *)
(* with none of another size or type is never misled.                      *)
(***************************************************************************)
EXTENDS KeyInfo, TLAPS

\* A slot exists for every key.
LEMMA SlotType == ASSUME NEW k \in Keys PROVE SlotOf(k) \in 0 .. CacheSize - 1
  BY KeysAssumption DEF SlotOf

\* What the SMC says fits the struct.
LEMMA AnswerType == ASSUME NEW k \in Keys PROVE Answer(k) \in Infos
<1>1. Size[k] \in Nat /\ Type[k] \in {"flt", "ui8", "other", "none"}
  BY KeysAssumption
<1> QED
  BY <1>1 DEF Answer, Infos

LEMMA EmptyType == Empty \in Infos
  BY DEF Empty, Infos

SlotsType == [0 .. CacheSize - 1 -> Infos]

Results == Errors \cup {"ok"}

\* What a question or a lookup may lead to.
LEMMA LookupType ==
    ASSUME TypeOK, NEW k \in Keys, NEW found \in Lookup(k) \cup Ask(k)
    PROVE  /\ found.slots \in SlotsType /\ found.info \in Infos /\ found.result \in Results
           /\ found.result \notin {"TypeMismatch", "SizeMismatch"}
<1>1. slots \in SlotsType
  BY DEF TypeOK, SlotsType
<1>2. Put(k, Answer(k)) \in SlotsType /\ Invalidate(k) \in SlotsType
  BY <1>1, SlotType, AnswerType, EmptyType DEF Put, Invalidate, SlotsType
<1>3. slots[SlotOf(k)] \in Infos
  BY <1>1, SlotType DEF SlotsType
<1>4. CASE found \in Ask(k)
  <2>1. \/ found = [result |-> "Failed", info |-> Empty, slots |-> slots]
        \/ found = [result |-> "EmptyResponse", info |-> Empty, slots |-> slots]
        \/ found = [result |-> "ok", info |-> Answer(k), slots |-> Put(k, Answer(k))]
        \/ found = [result |-> "KeyNotFound", info |-> Empty, slots |-> Invalidate(k)]
    BY <1>4 DEF Ask
  <2> QED
    BY <1>1, <1>2, <2>1, AnswerType, EmptyType DEF Results, Errors
<1>5. CASE found \notin Ask(k)
  <2>1. found = [result |-> "ok", info |-> slots[SlotOf(k)], slots |-> slots]
    BY <1>5 DEF Lookup
  <2> QED
    BY <1>1, <1>3, <2>1 DEF Results
<1> QED
  BY <1>4, <1>5

\* The record that a call leaves behind.
LEMMA DoneType ==
    ASSUME NEW op \in {"none", "info", "read", "write"}, NEW k \in Keys,
           NEW info \in Infos, NEW result \in Results, Done(op, k, info, result)
    PROVE  done' \in [op : {"none", "info", "read", "write"}, key : Keys \cup {0},
                      info : Infos, result : Errors \cup {"ok"}]
  BY DEF Done, Results

\* A call of whatever kind: something was found out about its key, the slots are
\* what that left, or that with the key's slot emptied, and done records it, with a
\* mismatch only of the info that was found.
Called(k, found) ==
    /\ slots' \in {found.slots, Invalidate(k)}
    /\ UNCHANGED present
    /\ \E op \in {"info", "read", "write"}, result \in Results :
          /\ Done(op, k, found.info, result)
          /\ op = "read" /\ result = "TypeMismatch" =>
                found.result = "ok" /\ ~(found.info.type = "flt" /\ found.info.size = 4)
          /\ op = "write" /\ result = "SizeMismatch" =>
                found.result = "ok" /\ found.info.size # Width(k)

LEMMA NextCalls ==
    ASSUME TypeOK, Next
    PROVE  \/ \E k \in Keys : \E found \in Lookup(k) \cup Ask(k) : Called(k, found)
           \/ \E k \in Volatile : KeyChanges(k)
<1>1. ASSUME NEW k \in Keys, ReadKeyInfo(k) \/ ReadKeyInfoFull(k)
      PROVE  \E found \in Lookup(k) \cup Ask(k) : Called(k, found)
  <2>1. PICK found \in Lookup(k) \cup Ask(k) :
           slots' = found.slots /\ Done("info", k, found.info, found.result)
           /\ UNCHANGED present
    BY <1>1 DEF ReadKeyInfo, ReadKeyInfoFull
  <2> QED
    BY <2>1, LookupType DEF Called
<1>2. ASSUME NEW k \in Keys, ReadFloat(k)
      PROVE  \E found \in Lookup(k) \cup Ask(k) : Called(k, found)
  <2>1. PICK found \in Lookup(k) :
           /\ slots' \in {found.slots, Invalidate(k)} /\ UNCHANGED present
           /\ \E result \in {found.result, "KeyNotFound", "Failed", "ok", "TypeMismatch"} :
                 /\ Done("read", k, found.info, result)
                 /\ result = "TypeMismatch" /\ result # found.result =>
                       found.result = "ok" /\ ~(found.info.type = "flt" /\ found.info.size = 4)
    BY <1>2 DEF ReadFloat
  <2> QED
    BY <2>1, LookupType DEF Called, Results, Errors
<1>3. ASSUME NEW k \in Writable, WriteKey(k)
      PROVE  \E found \in Lookup(k) \cup Ask(k) : Called(k, found)
  <2>1. k \in Keys
    BY KeysAssumption
  <2>2. PICK found \in Lookup(k) :
           /\ slots' = found.slots /\ UNCHANGED present
           /\ \E result \in {found.result, "SizeMismatch", "Failed", "ok"} :
                 /\ Done("write", k, found.info, result)
                 /\ result = "SizeMismatch" /\ result # found.result =>
                       found.result = "ok" /\ found.info.size # Width(k)
    BY <1>3 DEF WriteKey
  <2> QED
    BY <2>1, <2>2, LookupType DEF Called, Results, Errors
<1> QED
  BY <1>1, <1>2, <1>3, KeysAssumption DEF Next

\* For any keys and any cache size, the slots hold sizes of at most 32 bytes.
THEOREM TypeCorrect == Spec => []TypeOK
<1>1. Init => TypeOK
  BY EmptyType DEF Init, TypeOK, Errors
<1>2. TypeOK /\ [Next]_vars => TypeOK'
  <2> SUFFICES ASSUME TypeOK, [Next]_vars
               PROVE  TypeOK'
    OBVIOUS
  <2>1. ASSUME NEW k \in Keys, NEW found \in Lookup(k) \cup Ask(k), Called(k, found)
        PROVE  TypeOK'
    <3>1. found.slots \in SlotsType /\ found.info \in Infos
      BY LookupType
    <3>2. Invalidate(k) \in SlotsType
      BY SlotType, EmptyType DEF TypeOK, Invalidate, SlotsType
    <3>3. slots' \in SlotsType /\ present' \subseteq Keys
      BY <2>1, <3>1, <3>2 DEF Called, TypeOK
    <3>4. PICK op \in {"info", "read", "write"}, result \in Results :
             Done(op, k, found.info, result)
      BY <2>1 DEF Called
    <3> QED
      BY <3>1, <3>3, <3>4, DoneType DEF TypeOK, SlotsType
  <2>2. ASSUME NEW k \in Volatile, KeyChanges(k)
        PROVE  TypeOK'
    BY <2>2, KeysAssumption DEF KeyChanges, TypeOK
  <2>3. CASE UNCHANGED vars
    BY <2>3 DEF vars, TypeOK
  <2> QED
    BY <2>1, <2>2, <2>3, NextCalls
<1> QED
  BY <1>1, <1>2, PTL DEF Spec

-----------------------------------------------------------------------------
(* The info is that of the key, or of one that shares its slot.              *)

\* Two keys share a slot if and only if they end in the same character.
LEMMA SlotOfRivals ==
    ASSUME NEW k \in Keys, NEW l \in Keys
    PROVE  SlotOf(l) = SlotOf(k) <=> l \in Rivals(k)
  BY DEF SlotOf, Rivals

\* What a call for key k may be told.
Told(k) == {Empty} \cup {Answer(l) : l \in Rivals(k)}

\* A full slot holds the answer of one of the keys that look there.
SlotsInv == \A k \in Keys : slots[SlotOf(k)] \in Told(k)

\* What is found out about a key is its own info or a rival's, and the slots stay so.
LEMMA LookupTold ==
    ASSUME TypeOK, SlotsInv, NEW k \in Keys, NEW found \in Lookup(k) \cup Ask(k)
    PROVE  /\ found.info \in Told(k)
           /\ found.result = "ok" => found.info # Empty
           /\ \A l \in Keys : found.slots[SlotOf(l)] \in Told(l)
           /\ \A l \in Keys : Invalidate(k)[SlotOf(l)] \in Told(l)
<1>1. slots \in SlotsType
  BY DEF TypeOK, SlotsType
<1>2. Empty \in Told(k) /\ Answer(k) \in Told(k)
  BY SlotOfRivals DEF Told
<1>3. ASSUME NEW l \in Keys
      PROVE  /\ Put(k, Answer(k))[SlotOf(l)] \in Told(l)
             /\ Invalidate(k)[SlotOf(l)] \in Told(l)
  <2>1. SlotOf(l) \in DOMAIN slots
    BY <1>1, SlotType DEF SlotsType
  <2>2. CASE SlotOf(l) = SlotOf(k)
    <3>1. k \in Rivals(l)
      BY <2>2, SlotOfRivals
    <3> QED
      BY <2>1, <2>2, <3>1 DEF Put, Invalidate, Told
  <2>3. CASE SlotOf(l) # SlotOf(k)
    BY <2>1, <2>3 DEF Put, Invalidate, SlotsInv
  <2> QED
    BY <2>2, <2>3
<1>4. CASE found \in Ask(k)
  <2>1. \/ found = [result |-> "Failed", info |-> Empty, slots |-> slots]
        \/ found = [result |-> "EmptyResponse", info |-> Empty, slots |-> slots]
        \/ /\ found = [result |-> "ok", info |-> Answer(k), slots |-> Put(k, Answer(k))]
           /\ Answer(k) # Empty
        \/ found = [result |-> "KeyNotFound", info |-> Empty, slots |-> Invalidate(k)]
    BY <1>4 DEF Ask
  <2> QED
    BY <1>2, <1>3, <2>1 DEF SlotsInv
<1>5. CASE found \notin Ask(k)
  <2>1. /\ found = [result |-> "ok", info |-> slots[SlotOf(k)], slots |-> slots]
        /\ slots[SlotOf(k)] # Empty
    BY <1>5 DEF Lookup
  <2> QED
    BY <1>3, <2>1 DEF SlotsInv
<1> QED
  BY <1>4, <1>5

\* One call keeps the slots so, and uses what they hold.
LEMMA ToldNext ==
    TypeOK /\ SlotsInv /\ InfoIsOwnOrRivals /\ [Next]_vars => SlotsInv' /\ InfoIsOwnOrRivals'
<1> SUFFICES ASSUME TypeOK, SlotsInv, InfoIsOwnOrRivals, [Next]_vars
             PROVE  SlotsInv' /\ InfoIsOwnOrRivals'
  OBVIOUS
<1>1. ASSUME NEW k \in Keys, NEW found \in Lookup(k) \cup Ask(k), Called(k, found)
      PROVE  SlotsInv' /\ InfoIsOwnOrRivals'
  <2>1. \A l \in Keys : slots'[SlotOf(l)] \in Told(l)
    <3>1. slots' = found.slots \/ slots' = Invalidate(k)
      BY <1>1 DEF Called
    <3> QED
      BY <3>1, LookupTold, Zenon
  <2>2. SlotsInv'
    BY <2>1, Zenon DEF SlotsInv, SlotOf, Told, Rivals, Answer, Empty
  <2>3. done'.key = k /\ done'.info = found.info
    BY <1>1 DEF Called, Done
  <2>4. found.info \in Told(k)
    BY <1>1, LookupTold
  <2>5. InfoIsOwnOrRivals'
    BY <2>3, <2>4 DEF InfoIsOwnOrRivals, Told, Rivals, Answer, Empty
  <2> QED
    BY <2>2, <2>5
<1>2. ASSUME NEW k \in Volatile, KeyChanges(k)
      PROVE  SlotsInv' /\ InfoIsOwnOrRivals'
  BY <1>2 DEF KeyChanges, SlotsInv, InfoIsOwnOrRivals, SlotOf, Told, Rivals, Answer, Empty
<1>3. CASE UNCHANGED vars
  BY <1>3 DEF vars, SlotsInv, InfoIsOwnOrRivals, SlotOf, Told, Rivals, Answer, Empty
<1> QED
  BY <1>1, <1>2, <1>3, NextCalls

\* At the start nothing is cached.
LEMMA ToldInit == Init => SlotsInv /\ InfoIsOwnOrRivals
  BY SlotType DEF Init, SlotsInv, InfoIsOwnOrRivals, Told

\* For any keys, sizes, types and cache size, every call uses the size and the type of
\* its own key, or those of one key that shares its slot.
THEOREM OwnOrRivalsInfo == Spec => []InfoIsOwnOrRivals
<1>1. TypeOK /\ SlotsInv /\ InfoIsOwnOrRivals /\ [Next]_vars => SlotsInv' /\ InfoIsOwnOrRivals'
  BY ToldNext
<1> QED
  BY TypeCorrect, ToldInit, <1>1, PTL DEF Spec

-----------------------------------------------------------------------------
(* A key that no clash touches.                                              *)

\* One call for such a key, which is told its own info, reports no mismatch that is
\* not there.
LEMMA NoMismatchNext ==
    ASSUME TypeOK, SlotsInv, NoFalseMismatch, [Next]_vars
    PROVE  NoFalseMismatch'
<1>1. ASSUME NEW k \in Keys, NEW found \in Lookup(k) \cup Ask(k), Called(k, found)
      PROVE  NoFalseMismatch'
  <2>1. PICK op \in {"info", "read", "write"}, result \in Results :
           /\ Done(op, k, found.info, result)
           /\ op = "read" /\ result = "TypeMismatch" =>
                 found.result = "ok" /\ ~(found.info.type = "flt" /\ found.info.size = 4)
           /\ op = "write" /\ result = "SizeMismatch" =>
                 found.result = "ok" /\ found.info.size # Width(k)
    BY <1>1 DEF Called
  <2>2. found.result = "ok" /\ Alone(k) => found.info = Answer(k)
    BY <1>1, LookupTold DEF Told, Alone
  <2>3. done'.key = k /\ done'.op = op /\ done'.result = result
    BY <2>1 DEF Done
  <2>4. Alone(k) /\ op = "read" /\ Answer(k) = [size |-> 4, type |-> "flt"] =>
           result # "TypeMismatch"
    BY <2>1, <2>2
  <2>5. Alone(k) /\ op = "write" /\ Answer(k).size = Width(k) => result # "SizeMismatch"
    BY <2>1, <2>2
  <2> QED
    BY <2>3, <2>4, <2>5 DEF NoFalseMismatch, Alone, Rivals, Answer, Width
<1>2. ASSUME NEW k \in Volatile, KeyChanges(k)
      PROVE  NoFalseMismatch'
  BY <1>2 DEF KeyChanges, NoFalseMismatch, Alone, Rivals, Answer, Width
<1>3. CASE UNCHANGED vars
  BY <1>3 DEF vars, NoFalseMismatch, Alone, Rivals, Answer, Width
<1> QED
  BY <1>1, <1>2, <1>3, NextCalls

\* Whatever clashes elsewhere, a float sensor that shares its slot with nothing unlike
\* it is never refused for its type, nor a value of the right width for its size: a
\* release write to such a key is never lost to the cache.
THEOREM NothingRefusedFalsely == Spec => []NoFalseMismatch
<1>1. Init => NoFalseMismatch
  BY DEF Init, NoFalseMismatch
<1>2. TypeOK /\ SlotsInv /\ InfoIsOwnOrRivals /\ [Next]_vars => SlotsInv' /\ InfoIsOwnOrRivals'
  BY ToldNext
<1>3. TypeOK /\ SlotsInv /\ NoFalseMismatch /\ [Next]_vars => NoFalseMismatch'
  BY NoMismatchNext
<1> QED
  BY TypeCorrect, ToldInit, <1>1, <1>2, <1>3, PTL DEF Spec

=============================================================================
