------------------------------ MODULE KeyInfo ------------------------------
(***************************************************************************)
(* How one SMC connection finds the size and the type of a key, before it  *)
(* reads or writes it: from a cache of slots that are chosen by the key    *)
(* modulo the cache's size and do not record which key filled them.        *)
(***************************************************************************)
EXTENDS Integers

CONSTANTS
    Keys,       \* the keys the program names, as numbers
    CacheSize,  \* 256: the last character of a key chooses the slot
    Size,       \* the data_size the SMC reports of each key
    Type,       \* its data_type: "flt", "ui8", "other", or "none" for 0
    Writable,   \* the keys a WritableKey names
    Volatile    \* the keys that are absent at times

ASSUME KeysAssumption ==
    /\ Keys \subseteq Nat /\ CacheSize \in Nat \ {0}
    /\ Size \in [Keys -> Nat] /\ Type \in [Keys -> {"flt", "ui8", "other", "none"}]
    /\ Writable \subseteq Keys /\ Volatile \subseteq Keys

VARIABLES
    present,    \* the keys the SMC has
    slots,      \* the connection's KeyInfoCache
    done        \* the last call: its key, and what it used or returned

vars == <<present, slots, done>>

\* An empty slot, and the answer of neither size nor type that is an EmptyResponse and
\* never stored; a slot of size 0 with a type is a full one.
Empty == [size |-> 0, type |-> "none"]

\* SmcError, as far as the callers tell errors apart.
Errors == {"KeyNotFound", "EmptyResponse", "TypeMismatch", "SizeMismatch", "Failed"}

\* A whitelisted key carries its type with it, and so the width of its values.
Width(k) == IF Type[k] = "ui8" THEN 1 ELSE 4

SlotOfNibble(k) == k % 16                                        \* mutant

SlotOf(k) == k % CacheSize

AnswerUnclamped(k) == [size |-> Size[k], type |-> Type[k]]       \* mutant

\* What the SMC says of a key, its size clamped to the 32 bytes of the struct.
Answer(k) == [size |-> IF Size[k] > 32 THEN 32 ELSE Size[k], type |-> Type[k]]

Put(k, info)  == [slots EXCEPT ![SlotOf(k)] = info]
Invalidate(k) == [slots EXCEPT ![SlotOf(k)] = Empty]

\* kSMCGetKeyInfo: what a question to the SMC may lead to, and leave in the cache.
Ask(k) ==
    {[result |-> "Failed", info |-> Empty, slots |-> slots]}
    \cup
    IF k \in present
    THEN IF Answer(k) = Empty
         THEN {[result |-> "EmptyResponse", info |-> Empty, slots |-> slots]}
         ELSE {[result |-> "ok", info |-> Answer(k), slots |-> Put(k, Answer(k))]}
    ELSE {[result |-> "KeyNotFound", info |-> Empty, slots |-> Invalidate(k)]}

\* read_key_info: the cache first.
Lookup(k) ==
    IF slots[SlotOf(k)] # Empty
    THEN {[result |-> "ok", info |-> slots[SlotOf(k)], slots |-> slots]}
    ELSE Ask(k)

Init ==
    /\ present \in {p \in SUBSET Keys : Keys \ Volatile \subseteq p}
    /\ slots = [i \in 0 .. CacheSize - 1 |-> Empty]
    /\ done = [op |-> "none", key |-> 0, info |-> Empty, result |-> "ok"]

Done(op, k, info, result) == done' = [op |-> op, key |-> k, info |-> info, result |-> result]

ReadKeyInfo(k) ==
    \E found \in Lookup(k) :
        /\ slots' = found.slots
        /\ Done("info", k, found.info, found.result)
        /\ UNCHANGED present

\* read_key_info_full asks in any case, and refreshes the slot.
ReadKeyInfoFull(k) ==
    \E found \in Ask(k) :
        /\ slots' = found.slots
        /\ Done("info", k, found.info, found.result)
        /\ UNCHANGED present

\* read_f32: read_key and then the check of the type.  A key that turns out to be
\* gone empties its slot.
ReadFloat(k) ==
    \E found \in Lookup(k) :
        /\ UNCHANGED present
        /\ \/ /\ found.result # "ok"
              /\ slots' = found.slots /\ Done("read", k, found.info, found.result)
           \/ /\ found.result = "ok" /\ k \notin present
              /\ slots' = Invalidate(k) /\ Done("read", k, found.info, "KeyNotFound")
           \/ /\ found.result = "ok"
              /\ slots' = found.slots /\ Done("read", k, found.info, "Failed")
           \/ /\ found.result = "ok" /\ k \in present
              /\ slots' = found.slots
              /\ Done("read", k, found.info,
                      IF found.info.type = "flt" /\ found.info.size = 4
                      THEN "ok" ELSE "TypeMismatch")

\* write_key, under write_u8 and write_f32.
WriteKey(k) ==
    \E found \in Lookup(k) :
        /\ UNCHANGED present
        /\ slots' = found.slots
        /\ \/ found.result # "ok" /\ Done("write", k, found.info, found.result)
           \/ /\ found.result = "ok" /\ found.info.size # Width(k)
              /\ Done("write", k, found.info, "SizeMismatch")
           \/ /\ found.result = "ok" /\ found.info.size = Width(k)
              /\ \E result \in {"ok", "Failed"} : Done("write", k, found.info, result)

\* A sensor comes or goes, with a sleep of the machine or a cluster of its processor.
KeyChanges(k) ==
    /\ present' \in {present \cup {k}, present \ {k}}
    /\ UNCHANGED <<slots, done>>

Next ==
    \/ \E k \in Keys : ReadKeyInfo(k) \/ ReadKeyInfoFull(k) \/ ReadFloat(k)
    \/ \E k \in Writable : WriteKey(k)
    \/ \E k \in Volatile : KeyChanges(k)

Spec == Init /\ [][Next]_vars

-----------------------------------------------------------------------------
(* Properties.                                                               *)

Infos == [size : 0 .. 32, type : {"flt", "ui8", "other", "none"}]

\* A size never exceeds the 32 bytes that a value may have, whatever the SMC
\* reports: the callers index arrays of 32 bytes with it.
TypeOK ==
    /\ present \subseteq Keys
    /\ slots \in [0 .. CacheSize - 1 -> Infos]
    /\ done \in [op : {"none", "info", "read", "write"}, key : Keys \cup {0},
                 info : Infos, result : Errors \cup {"ok"}]

\* The keys that end in the same character as k, k among them.
Rivals(k) == {l \in Keys : l % CacheSize = k % CacheSize}

\* ffi.rs:1007: "Read the KeyInfo (data_size + data_type) for a given fourcc".
\* Whatever calls came before, a call uses the size and the type of its own key, or
\* those of a key that shares its slot, as cache.rs lets it; never any other's.
InfoIsOwnOrRivals ==
    done.info # Empty => \E l \in Rivals(done.key) : done.info = Answer(l)

\* No key with another size or type shares the slot of k.
Alone(k) == \A l \in Rivals(k) : Answer(l) = Answer(k)

\* The consequence for such a key, whatever clashes elsewhere: a sensor that is a
\* float is never refused for its type, and a value of the width that the SMC gives
\* the key is never refused for its size; the release writes of a teardown are such.
NoFalseMismatch ==
    Alone(done.key) =>
       /\ done.op = "read" /\ Answer(done.key) = [size |-> 4, type |-> "flt"] =>
             done.result # "TypeMismatch"
       /\ done.op = "write" /\ Answer(done.key).size = Width(done.key) =>
             done.result # "SizeMismatch"

=============================================================================
