------------------------- MODULE CachedValues_proofs -------------------------
(***************************************************************************)
(* What the operations on the cached values of an object return, for any   *)
(* set of values.                                                          *)
(***************************************************************************)
EXTENDS CachedValues, WellFoundedInduction, TLAPS

\* A bounded set of tids that is not empty has a newest one.
LEMMA MaxOfTids ==
    ASSUME NEW S, S \subseteq Nat, S # {}, NEW n \in Nat, \A t \in S : t <= n
    PROVE  Max(S) \in S /\ \A t \in S : t <= Max(S)
<1> DEFINE Bounds == {b \in Nat : \A t \in S : t <= b}
<1>1. \E b \in Bounds : \A c \in Bounds : b <= c
  <2>1. Bounds \subseteq Nat /\ Bounds # {}
    OBVIOUS
  <2>2. \E b \in Bounds : \A c \in Bounds : ~ (<<c, b>> \in OpToRel(<, Nat))
    BY <2>1, NatLessThanWellFounded, WFMin
  <2>3. PICK b \in Bounds : \A c \in Bounds : ~ (<<c, b>> \in OpToRel(<, Nat))
    BY <2>2
  <2>4. \A c \in Bounds : ~ (c < b)
    BY <2>1, <2>3 DEF OpToRel
  <2> QED BY <2>1, <2>4
<1>2. PICK b \in Bounds : \A c \in Bounds : b <= c
  BY <1>1
<1>3. b \in S
  <2> SUFFICES ASSUME b \notin S PROVE FALSE
    OBVIOUS
  <2>1. \A t \in S : t \in Nat /\ b \in Nat /\ t < b
    BY <1>2
  <2>2. PICK t \in S : TRUE
    OBVIOUS
  <2>3. b - 1 \in Nat
    BY <2>1, <2>2
  <2>4. \A u \in S : u <= b - 1
    BY <2>1
  <2>5. b - 1 \in Bounds
    BY <2>3, <2>4
  <2> QED BY <1>2, <2>1, <2>2, <2>5
<1>4. b \in S /\ \A y \in S : b >= y
  BY <1>2, <1>3
<1>5. \A x \in S : (\A y \in S : x >= y) => \A y \in S : y <= x
  OBVIOUS
<1> QED BY <1>4, <1>5 DEF Max

\* freeze_to_tid keeps the values that are as new as the tid.
LEMMA FreezeToTidKeeps ==
    ASSUME NEW values, NEW T, values \subseteq [tid : T, frozen : BOOLEAN], NEW t,
           NEW x \in FreezeToTid(values, t)
    PROVE  \E e \in values : x.tid = e.tid /\ e.tid >= t
<1>1. PICK e \in {v \in values : v.tid >= t} : x = [e EXCEPT !.frozen = @ \/ e.tid = t]
  BY DEF FreezeToTid
<1>2. x.tid = e.tid
  BY <1>1
<1> QED BY <1>1, <1>2

\* adding_value adds nothing but a value that is not frozen.
LEMMA AddingValueAdds ==
    ASSUME NEW values, NEW t, NEW x \in AddingValue(values, t)
    PROVE  x \in values \/ x = Value(t)
BY DEF AddingValue

\* discarding_tids_before adds nothing.
LEMMA DiscardingKeeps ==
    ASSUME NEW values, NEW t, NEW x \in DiscardingTidsBefore(values, t)
    PROVE  x \in values
BY DEF DiscardingTidsBefore

\* matching_tid finds a value with the tid, or, for None, one that is frozen.
LEMMA MatchingTidFinds ==
    ASSUME NEW n \in Nat, NEW values, values \subseteq [tid : 1..n, frozen : BOOLEAN], NEW t,
           NEW u \in MatchingTid(values, t)
    PROVE  \E e \in values : e.tid = u /\ (IF t # None THEN u = t ELSE e.frozen)
<1>1. CASE t # None
  BY <1>1 DEF MatchingTid, Tids
<1>2. CASE t = None
  <2> DEFINE frozen == Tids({e \in values : e.frozen})
  <2>1. frozen # {} /\ u = Max(frozen)
    BY <1>2 DEF MatchingTid
  <2>2. frozen \subseteq Nat /\ \A v \in frozen : v <= n
    BY DEF Tids
  <2>3. u \in frozen
    <3> HIDE DEF frozen
    <3> QED BY <2>1, <2>2, MaxOfTids
  <2> QED BY <1>2, <2>3 DEF Tids
<1> QED BY <1>1, <1>2
=============================================================================
