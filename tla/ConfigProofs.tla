----------------------------- MODULE ConfigProofs -----------------------------
(***************************************************************************)
(* What validate guarantees the tick loop, for every configuration: it     *)
(* compares neighbouring breakpoints and each fan with the earlier ones,   *)
(* FanControl assumes all of them to be in order, and one fan per state.   *)
(***************************************************************************)
EXTENDS Config, TLAPS, WellFoundedInduction, SequenceTheorems

\* A sequence of numbers in which each is greater than the one before it is in order.
LEMMA Rising ==
    ASSUME NEW n \in Nat, NEW t \in [1 .. n -> Int], \A i \in 2 .. n : t[i - 1] < t[i]
    PROVE  \A i, j \in 1 .. n : i < j => t[i] < t[j]
<1> SUFFICES ASSUME NEW i \in 1 .. n, \E j \in 1 .. n : i < j /\ ~(t[i] < t[j])
             PROVE  FALSE
  OBVIOUS
<1> DEFINE Wrong == {j \in 1 .. n : i < j /\ ~(t[i] < t[j])}
<1>1. Wrong # {} /\ Wrong \subseteq Nat
  <2>1. PICK j \in 1 .. n : i < j /\ ~(t[i] < t[j])
    OBVIOUS
  <2>2. j \in Wrong
    BY <2>1
  <2>3. Wrong \subseteq Nat
    OBVIOUS
  <2> HIDE DEF Wrong
  <2> QED
    BY <2>2, <2>3
<1>2. PICK j \in Wrong : \A k \in Wrong : ~(k < j)
  <2> DEFINE Before == OpToRel(<, Nat)
  <2> HIDE DEF Wrong
  <2>1. \E j \in Wrong : \A k \in Wrong : ~(<<k, j>> \in Before)
    <3>1. IsWellFoundedOn(Before, Nat)
      BY NatLessThanWellFounded
    <3> HIDE DEF Before
    <3> QED
      BY <1>1, <3>1, WFMin
  <2> QED
    BY <1>1, <2>1 DEF OpToRel
<1>3. j \in 2 .. n /\ i < j /\ ~(t[i] < t[j]) /\ t[j - 1] < t[j]
  <2>1. j \in 2 .. n /\ i < j /\ ~(t[i] < t[j])
    BY <1>2
  <2> QED
    BY <2>1
<1>4. j - 1 \in 1 .. n /\ j - 1 \notin Wrong
  BY <1>2, <1>3
<1>5. t[i] \in Int /\ t[j] \in Int /\ t[j - 1] \in Int
  BY <1>3, <1>4
<1>6. CASE j - 1 = i
  BY <1>3, <1>6
<1>7. CASE j - 1 # i
  <2>1. t[i] < t[j - 1]
    BY <1>3, <1>4, <1>7
  <2> QED
    BY <2>1, <1>3, <1>5
<1> QED
  BY <1>6, <1>7

\* Nothing is wrong with a fan of an accepted configuration.
LEMMA AcceptedFans ==
    ASSUME NEW c, IsConfig(c), Validate(c) = {}
    PROVE  /\ \A i \in DOMAIN c.fan : ValidateFan(c.fan[i]) = {}
           /\ Duplicates(c.fan) = {}
<1>1. c.fan # <<>>
  BY SMTT(30) DEF Validate
<1>2. /\ When(Duplicates(c.fan) # {}, "DuplicateFanIndex") = {}
      /\ UNION {ValidateFan(c.fan[i]) : i \in DOMAIN c.fan} = {}
  BY <1>1, SMTT(30) DEF Validate
<1> QED
  BY <1>2 DEF When

\* Two floats, of which one is not at most the other, are in order if they are
\* numbers.
LEMMA FiniteOrder ==
    ASSUME NEW x \in Int, NEW y \in Int, ~LessOrEqual(x, y)
    PROVE  y < x
  BY FloatsAssumption DEF LessOrEqual, Less

\* Every breakpoint of an accepted curve is a temperature, above the one before it.
LEMMA GoodBreakpoints ==
    ASSUME NEW curve \in Curves, BadBreakpoints(curve) = {}
    PROVE  /\ \A i \in 1 .. Len(curve) : curve[i].temp \in Nat /\ curve[i].rpm \in Nat
           /\ \A i \in 2 .. Len(curve) : curve[i - 1].temp < curve[i].temp
<1>1. ASSUME NEW i \in 1 .. Len(curve)
      PROVE  curve[i] \in [temp : Float, rpm : Nat]
  BY ElementOfSeq DEF Curves
<1>2. ASSUME NEW i \in 1 .. Len(curve)
      PROVE  /\ IsFinite(curve[i].temp) /\ ~Less(curve[i].temp, 0)
             /\ i > 1 => ~LessOrEqual(curve[i].temp, curve[i - 1].temp)
  <2>1. i \in DOMAIN curve
    BY DEF Curves
  <2> QED
    BY <2>1 DEF BadBreakpoints
<1>3. ASSUME NEW i \in 1 .. Len(curve)
      PROVE  curve[i].temp \in Nat /\ curve[i].rpm \in Nat
  <2>1. curve[i].temp \in Int /\ curve[i].rpm \in Nat
    BY <1>1, <1>2 DEF IsFinite, Float
  <2>2. ~(curve[i].temp < 0)
    BY <1>2, <2>1, FloatsAssumption DEF Less
  <2> QED
    BY <2>1, <2>2
<1>4. ASSUME NEW i \in 2 .. Len(curve)
      PROVE  curve[i - 1].temp < curve[i].temp
  <2>1. Len(curve) \in Nat
    BY DEF Curves
  <2>2. i \in 1 .. Len(curve) /\ i - 1 \in 1 .. Len(curve) /\ i > 1
    BY <2>1
  <2>3. ~LessOrEqual(curve[i].temp, curve[i - 1].temp)
    BY <1>2, <2>2
  <2>4. curve[i].temp \in Int /\ curve[i - 1].temp \in Int
    BY <1>3, <2>2
  <2> QED
    BY <2>3, <2>4, FiniteOrder
<1> QED
  BY <1>3, <1>4

\* validate.rs FR-010, FR-011, FR-068: the curve of every fan of an accepted
\* configuration is one that FanControl assumes, NaN and infinity included in what
\* is refused: two breakpoints at least, any two of them in the order of their
\* temperatures.
THEOREM AcceptedCurvesRise ==
    ASSUME NEW c, IsConfig(c), Validate(c) = {}, NEW n \in DOMAIN c.fan
    PROVE  LET curve == c.fan[n].curve
           IN  /\ curve \in Seq([temp : Nat, rpm : Nat])
               /\ Len(curve) >= 2
               /\ \A i, j \in 1 .. Len(curve) : i < j => curve[i].temp < curve[j].temp
<1> DEFINE curve == c.fan[n].curve
           t == [i \in 1 .. Len(curve) |-> curve[i].temp]
<1>1. curve \in Curves /\ Len(curve) \in Nat /\ DOMAIN curve = 1 .. Len(curve)
  <2>1. IsFan(c.fan[n])
    BY Zenon DEF IsConfig
  <2>2. curve \in Curves
    BY <2>1, Zenon DEF IsFan
  <2> HIDE DEF curve
  <2> QED
    BY <2>2 DEF Curves
<1>2. ~(Len(curve) < 2) /\ BadBreakpoints(curve) = {}
  <2>1. ValidateFan(c.fan[n]) = {}
    BY AcceptedFans
  <2>2. ~(Len(curve) < 2)
    BY <2>1, Zenon DEF ValidateFan, When
  <2> QED
    BY <2>1, <2>2, Zenon DEF ValidateFan, When
<1>3. /\ \A i \in 1 .. Len(curve) : curve[i].temp \in Nat /\ curve[i].rpm \in Nat
      /\ \A i \in 2 .. Len(curve) : curve[i - 1].temp < curve[i].temp
  BY <1>1, <1>2, GoodBreakpoints
<1>4. \A i, j \in 1 .. Len(curve) : i < j => t[i] < t[j]
  <2>1. t \in [1 .. Len(curve) -> Int]
    BY <1>3
  <2>2. \A i \in 2 .. Len(curve) : t[i - 1] < t[i]
    <3> SUFFICES ASSUME NEW i \in 2 .. Len(curve)
                 PROVE  t[i - 1] < t[i]
      OBVIOUS
    <3>1. i \in 1 .. Len(curve) /\ i - 1 \in 1 .. Len(curve)
      BY <1>1
    <3> QED
      BY <3>1, <1>3
  <2> HIDE DEF t
  <2> QED
    BY <1>1, <2>1, <2>2, Rising
<1>5. curve \in Seq([temp : Nat, rpm : Nat])
  <2>1. \A i \in 1 .. Len(curve) : curve[i] \in [temp : Nat, rpm : Nat]
    <3> SUFFICES ASSUME NEW i \in 1 .. Len(curve)
                 PROVE  curve[i] \in [temp : Nat, rpm : Nat]
      OBVIOUS
    <3>1. curve[i] \in [temp : Float, rpm : Nat]
      BY <1>1, ElementOfSeq DEF Curves
    <3> QED
      BY <3>1, <1>3
  <2>2. curve \in Seq([temp : Float, rpm : Nat])
    BY <1>1 DEF Curves
  <2> HIDE DEF curve
  <2>3. curve \in [1 .. Len(curve) -> [temp : Float, rpm : Nat]]
    BY <2>2, LenProperties
  <2>4. curve \in [1 .. Len(curve) -> [temp : Nat, rpm : Nat]]
    BY <2>1, <2>3
  <2> DEFINE T == [temp : Nat, rpm : Nat]
  <2> HIDE DEF T
  <2>5. curve \in UNION {[1 .. m -> T] : m \in Nat}
    BY <2>4, <1>1 DEF T
  <2> QED
    BY <2>5, SeqDef, Zenon DEF T
<1>6. Len(curve) >= 2
  BY <1>1, <1>2
<1>7. \A i, j \in 1 .. Len(curve) : i < j => curve[i].temp < curve[j].temp
  <2> HIDE DEF curve
  <2>1. ASSUME NEW i \in 1 .. Len(curve)
        PROVE  t[i] = curve[i].temp
    BY Zenon
  <2> HIDE DEF t
  <2> SUFFICES ASSUME NEW i \in 1 .. Len(curve), NEW j \in 1 .. Len(curve), i < j
               PROVE  curve[i].temp < curve[j].temp
    OBVIOUS
  <2>2. t[i] < t[j]
    BY <1>4
  <2> QED
    BY <2>1, <2>2, Zenon
<1> HIDE DEF t, curve
<1> QED
  BY <1>5, <1>6, <1>7, Zenon DEF curve

\* validate.rs FR-014: no two fans of an accepted configuration have the same
\* index, so that each fan has one control state, and one decision writes to it.
THEOREM AcceptedFansDiffer ==
    ASSUME NEW c, IsConfig(c), Validate(c) = {}
    PROVE  \A i, j \in DOMAIN c.fan : c.fan[i].index = c.fan[j].index => i = j
<1> SUFFICES ASSUME NEW i \in DOMAIN c.fan, NEW j \in DOMAIN c.fan, i # j,
                    c.fan[i].index = c.fan[j].index
             PROVE  FALSE
  OBVIOUS
<1>1. i \in Nat \ {0} /\ j \in Nat \ {0}
  BY DEF IsConfig
<1>2. i \in Duplicates(c.fan) \/ j \in Duplicates(c.fan)
  <2>1. CASE j < i
    BY <1>1, <2>1 DEF Duplicates
  <2>2. CASE i < j
    BY <1>1, <2>2 DEF Duplicates
  <2> QED
    BY <1>1, <2>1, <2>2
<1> QED
  BY <1>2, AcceptedFans

=============================================================================
