------------------------ MODULE OidAllocator_proofs ------------------------
(***************************************************************************)
(* Proofs about OidAllocator where the sequence never goes back: on MySQL  *)
(* and SQLite.                                                             *)
(***************************************************************************)
EXTENDS OidAllocator, TLAPS

\* The next range starts right above the ranges of all values so far.
LEMMA NextRange ==
    ASSUME NEW n \in Nat
    PROVE  /\ n * RangeSize \in Nat
           /\ (n + 1) * RangeSize = n * RangeSize + RangeSize
           /\ OidRangeAround(n + 1) = (n * RangeSize + 1)..(n * RangeSize + RangeSize)
BY OidAssumption DEF OidRangeAround

\* Greater values stand for greater ranges.
LEMMA RangesGrow ==
    ASSUME NEW m \in Nat, NEW n \in Nat, m <= n
    PROVE  m * RangeSize <= n * RangeSize
BY OidAssumption

\* The range of an oid does not end below it.
LEMMA RangeCovers ==
    ASSUME NEW oid \in Nat
    PROVE  RangeOf(oid) \in Nat /\ oid <= RangeOf(oid) * RangeSize
BY OidAssumption DEF RangeOf

-----------------------------------------------------------------------------
(* The inductive invariant. *)

\* Every variable is of its type; oids to observe are not None.
OidTypeOK ==
    /\ sequence \in Nat
    /\ preallocated \in [Client -> SUBSET Nat]
    /\ max_allocated \in [Client -> Nat]
    /\ observed \in [Client -> Nat]
    /\ given \in [Client -> SUBSET Nat]
    /\ minimum \in Nat

\* Whatever was given or preallocated comes from a value of the sequence
\* that is used up, and so does every minimum.
BelowSequence ==
    /\ \A c \in Client : \A o \in Has(c) : o <= sequence * RangeSize
    /\ minimum <= sequence * RangeSize

OidInv ==
    /\ OidTypeOK
    /\ BelowSequence
    /\ UniqueOids

\* An instance that takes the next range takes oids nobody has.
LEMMA FreshRange ==
    ASSUME OidInv, NEW c \in Client, NEW o \in OidRangeAround(sequence + 1)
    PROVE  /\ o \in Nat
           /\ o <= (sequence + 1) * RangeSize
           /\ o > sequence * RangeSize
           /\ o > minimum
           /\ \A d \in Client : o \notin Has(d)
<1>1. sequence \in Nat /\ minimum \in Nat
  BY DEF OidInv, OidTypeOK
<1>2. o \in (sequence * RangeSize + 1)..(sequence * RangeSize + RangeSize)
  BY <1>1, NextRange
<1>3. o \in Nat /\ o > sequence * RangeSize /\ o <= (sequence + 1) * RangeSize
  BY <1>1, <1>2, NextRange, OidAssumption
<1>4. o > minimum
  BY <1>1, <1>3, NextRange DEF OidInv, BelowSequence
<1>5. ASSUME NEW d \in Client, o \in Has(d)
      PROVE  FALSE
  BY <1>1, <1>3, <1>5, NextRange DEF OidInv, BelowSequence
<1> QED BY <1>3, <1>4, <1>5

\* A sequence that moves forward leaves everything below it.
LEMMA ForwardInv ==
    ASSUME OidInv, OidTypeOK', sequence <= sequence',
           \A c \in Client : given'[c] = given[c] /\ preallocated'[c] \subseteq preallocated[c],
           minimum' <= sequence' * RangeSize
    PROVE  OidInv'
<1>1. sequence * RangeSize <= sequence' * RangeSize
      /\ sequence * RangeSize \in Nat /\ sequence' * RangeSize \in Nat
  BY RangesGrow, NextRange DEF OidInv, OidTypeOK
<1>2. BelowSequence'
  BY <1>1 DEF OidInv, OidTypeOK, BelowSequence, Has
<1>3. UniqueOids'
  BY DEF OidInv, UniqueOids, Has
<1> QED BY <1>2, <1>3 DEF OidInv

\* new_oid() from the range the instance has.
LEMMA NewOidInv ==
    ASSUME OidInv, NEW c \in Client, NewOid(c)
    PROVE  OidInv' /\ \A d \in Client : Has(d)' \subseteq Has(d)
<1> USE DEF OidInv, OidTypeOK, NewOid, Pop
<1>1. OidTypeOK'
  OBVIOUS
<1>2. \A d \in Client : Has(d)' = Has(d)
  BY DEF Has, IsSmallest
<1>3. BelowSequence'
  BY <1>2 DEF BelowSequence
<1>4. UniqueOids'
  BY <1>2 DEF UniqueOids
<1> QED BY <1>1, <1>2, <1>3, <1>4

\* new_oid() that needs a new range.
LEMMA NewOidsInv ==
    ASSUME OidInv, NEW c \in Client, NewOids(c) \/ NewOidsFails(c)
    PROVE  OidInv' /\ \A d \in Client : \A o \in Has(d)' \ Has(d) : o > minimum
<1> DEFINE S == OidRangeAround(sequence + 1)
<1>1. /\ sequence' = sequence + 1 /\ minimum' = minimum /\ observed' = observed
      /\ \A d \in Client \ {c} : given'[d] = given[d] /\ preallocated'[d] = preallocated[d]
      /\ given'[c] \cap preallocated'[c] = {}
      /\ Has(c)' = given[c] \cup S
  <2>1. CASE NewOids(c)
    <3>1. PICK o \in S : /\ preallocated' = [preallocated EXCEPT ![c] = S \ {o}]
                         /\ given' = [given EXCEPT ![c] = given[c] \cup {o}]
      BY <2>1 DEF NewOids, Pop
    <3>2. given'[c] = given[c] \cup {o} /\ preallocated'[c] = S \ {o}
      BY <3>1 DEF OidInv, OidTypeOK
    <3>3. given[c] \cap S = {}
      BY FreshRange DEF Has
    <3> QED BY <2>1, <3>1, <3>2, <3>3 DEF NewOids, Has, OidInv, OidTypeOK
  <2>2. CASE NewOidsFails(c)
    <3>1. given'[c] = given[c] /\ preallocated'[c] = S
      BY <2>2 DEF NewOidsFails, OidInv, OidTypeOK
    <3>2. given[c] \cap S = {}
      BY FreshRange DEF Has
    <3> QED BY <2>2, <3>1, <3>2 DEF NewOidsFails, Has, OidInv, OidTypeOK
  <2> QED BY <2>1, <2>2
<1>2. \A d \in Client \ {c} : Has(d)' = Has(d)
  BY <1>1 DEF Has
<1>3. sequence \in Nat /\ sequence * RangeSize \in Nat /\ sequence' * RangeSize \in Nat
      /\ sequence * RangeSize <= sequence' * RangeSize
  <2>1. sequence \in Nat /\ sequence' \in Nat /\ sequence <= sequence'
    BY <1>1 DEF OidInv, OidTypeOK
  <2>2. sequence * RangeSize <= sequence' * RangeSize
    BY <2>1, RangesGrow
  <2>3. sequence * RangeSize \in Nat /\ sequence' * RangeSize \in Nat
    BY <2>1, NextRange
  <2> QED BY <2>1, <2>2, <2>3
<1>4. OidTypeOK'
  <2>1. S \subseteq Nat
    BY FreshRange
  <2>2. (sequence + 1) * RangeSize \in Nat
    BY <1>1, <1>3
  <2>3. CASE NewOids(c)
    BY <2>1, <2>2, <2>3 DEF NewOids, Pop, OidInv, OidTypeOK
  <2>4. CASE NewOidsFails(c)
    BY <2>1, <2>4 DEF NewOidsFails, OidInv, OidTypeOK
  <2> QED BY <2>3, <2>4
<1>5. BelowSequence'
  <2>1. \A o \in S : o <= sequence' * RangeSize
    BY <1>1, FreshRange
  <2>2. \A d \in Client : \A o \in Has(d) : o \in Nat /\ o <= sequence * RangeSize
    BY DEF OidInv, OidTypeOK, BelowSequence, Has
  <2>3. \A d \in Client : \A o \in Has(d)' : o <= sequence' * RangeSize
    BY <1>1, <1>2, <1>3, <2>1, <2>2 DEF Has
  <2>4. minimum' <= sequence' * RangeSize
    BY <1>1, <1>3 DEF OidInv, OidTypeOK, BelowSequence
  <2> QED BY <2>3, <2>4 DEF BelowSequence
<1>6. UniqueOids'
  <2>1. \A d \in Client \ {c} : Has(c)' \cap Has(d)' = {}
    BY <1>1, <1>2, FreshRange DEF OidInv, UniqueOids, Has
  <2>2. \A d \in Client \ {c} : given'[d] \cap preallocated'[d] = {}
    BY <1>1 DEF OidInv, UniqueOids
  <2>3. \A d \in Client \ {c} : \A e \in Client \ {c, d} : Has(d)' \cap Has(e)' = {}
    BY <1>2 DEF OidInv, UniqueOids
  <2> QED BY <1>1, <2>1, <2>2, <2>3 DEF UniqueOids
<1>7. \A d \in Client : \A o \in Has(d)' \ Has(d) : o > minimum
  BY <1>1, <1>2, FreshRange DEF Has
<1> QED BY <1>4, <1>5, <1>6, <1>7 DEF OidInv

\* The instance's part of set_min_oid, once the sequence covers the oid.
LEMMA RememberObservedInv ==
    ASSUME OidInv, NEW c \in Client, NEW oid \in Nat,
           sequence' \in Nat, sequence <= sequence', RangeOf(oid) <= sequence',
           RememberObserved(c, oid), UNCHANGED given
    PROVE  OidInv' /\ \A d \in Client : Has(d)' \subseteq Has(d)
<1> USE DEF OidInv, OidTypeOK, RememberObserved
<1>1. OidTypeOK'
  BY DEF None
<1>2. \A d \in Client : given'[d] = given[d] /\ preallocated'[d] \subseteq preallocated[d]
  OBVIOUS
<1>3. minimum' <= sequence' * RangeSize
  <2>1. oid <= sequence' * RangeSize
    <3>1. RangeOf(oid) \in Nat /\ oid <= RangeOf(oid) * RangeSize
      BY RangeCovers
    <3>2. RangeOf(oid) * RangeSize <= sequence' * RangeSize
      BY <3>1, RangesGrow
    <3>3. RangeOf(oid) * RangeSize \in Nat /\ sequence' * RangeSize \in Nat
      BY <3>1, NextRange
    <3> QED BY <3>1, <3>2, <3>3
  <2>2. minimum <= sequence' * RangeSize
    <3>1. sequence * RangeSize <= sequence' * RangeSize
      BY RangesGrow
    <3>2. sequence * RangeSize \in Nat /\ sequence' * RangeSize \in Nat
      BY NextRange
    <3> QED BY <3>1, <3>2 DEF BelowSequence
  <2> QED BY <2>1, <2>2
<1>4. OidInv'
  BY <1>1, <1>2, <1>3, ForwardInv
<1> QED BY <1>2, <1>4 DEF Has

\* The first statement of set_min_oid.
LEMMA SetMinOidInv ==
    ASSUME OidInv, NEW c \in Client, NEW oid \in Nat, SetMinOid(c, oid)
    PROVE  OidInv' /\ \A d \in Client : Has(d)' \subseteq Has(d)
<1>1. sequence \in Nat /\ RangeOf(oid) \in Nat /\ UNCHANGED given
  BY RangeCovers DEF OidInv, OidTypeOK, SetMinOid
<1>2. CASE SeesEnough(RangeOf(oid)) /\ UNCHANGED sequence /\ RememberObserved(c, oid)
  BY <1>1, <1>2, RememberObservedInv DEF SeesEnough
<1>3. LookAtSequence => sequence' \in Nat /\ sequence <= sequence'
  BY <1>1 DEF LookAtSequence
<1>4. CASE LookAtSequence /\ RangeOf(oid) <= sequence' /\ RememberObserved(c, oid)
  BY <1>1, <1>3, <1>4, RememberObservedInv
<1>5. CASE /\ LookAtSequence
           /\ observed' = [observed EXCEPT ![c] = oid]
           /\ UNCHANGED <<preallocated, max_allocated, minimum>>
  <2>1. OidTypeOK'
    BY <1>1, <1>3, <1>5 DEF OidInv, OidTypeOK
  <2>2. minimum' <= sequence' * RangeSize
    <3>1. sequence * RangeSize <= sequence' * RangeSize
      BY <1>1, <1>3, <1>5, RangesGrow
    <3>2. sequence * RangeSize \in Nat /\ sequence' * RangeSize \in Nat
      BY <1>1, <1>3, <1>5, NextRange
    <3> QED BY <1>5, <3>1, <3>2 DEF OidInv, OidTypeOK, BelowSequence
  <2>3. OidInv'
    BY <1>1, <1>3, <1>5, <2>1, <2>2, ForwardInv
  <2> QED BY <1>1, <1>5, <2>3 DEF Has
<1> QED BY <1>2, <1>4, <1>5 DEF SetMinOid

\* The second one, where the sequence cannot go back.
LEMMA RaiseSequenceInv ==
    ASSUME Backend # "postgresql", OidInv, NEW c \in Client, RaiseSequence(c)
    PROVE  OidInv' /\ \A d \in Client : Has(d)' \subseteq Has(d)
<1>1. observed[c] \in Nat /\ sequence \in Nat
  BY DEF OidInv, OidTypeOK
<1>2. RangeOf(observed[c]) \in Nat
  BY <1>1, RangeCovers
<1>3. sequence' \in Nat /\ sequence <= sequence' /\ RangeOf(observed[c]) <= sequence'
  BY <1>1, <1>2 DEF RaiseSequence, Raised
<1>4. RememberObserved(c, observed[c]) /\ UNCHANGED given
  BY DEF RaiseSequence
<1> QED BY <1>1, <1>3, <1>4, RememberObservedInv

\* A failed set_min_oid, or a new instance in place of another.
LEMMA ForgetInv ==
    ASSUME OidInv, NEW c \in Client, SetMinOidFails(c) \/ NewInstance(c)
    PROVE  OidInv' /\ \A d \in Client : Has(d)' \subseteq Has(d)
<1>1. OidTypeOK'
  BY DEF OidInv, OidTypeOK, SetMinOidFails, NewInstance, None
<1>2. /\ \A d \in Client : given'[d] = given[d] /\ preallocated'[d] \subseteq preallocated[d]
      /\ sequence' = sequence /\ minimum' = minimum
  BY DEF OidInv, OidTypeOK, SetMinOidFails, NewInstance
<1>3. OidInv'
  BY <1>1, <1>2, ForwardInv DEF OidInv, OidTypeOK, BelowSequence
<1> QED BY <1>2, <1>3 DEF Has

\* A new database has no oids.
LEMMA OidInit == Init => OidInv
<1> SUFFICES ASSUME Init PROVE OidInv
  OBVIOUS
<1>1. OidTypeOK
  BY DEF Init, OidTypeOK, None
<1>2. BelowSequence
  BY NextRange DEF Init, BelowSequence, Has
<1>3. UniqueOids
  BY DEF Init, UniqueOids, Has
<1> QED BY <1>1, <1>2, <1>3 DEF OidInv

\* A step keeps the invariant, and what an instance gets is above the minimum.
LEMMA OidStep ==
    ASSUME Backend # "postgresql", OidInv, [Next]_vars
    PROVE  OidInv' /\ \A d \in Client : \A o \in Has(d)' \ Has(d) : o > minimum
<1>1. CASE UNCHANGED vars
  <2>1. \A d \in Client : Has(d)' = Has(d)
    BY <1>1 DEF vars, Has
  <2>2. OidInv'
    BY <1>1, <2>1 DEF vars, OidInv, OidTypeOK, BelowSequence, UniqueOids
  <2> QED BY <2>1, <2>2
<1>2. ASSUME NEW c \in Client, Step(c)
      PROVE  OidInv' /\ \A d \in Client : \A o \in Has(d)' \ Has(d) : o > minimum
  <2>1. CASE NewOid(c)
    BY <2>1, NewOidInv
  <2>2. CASE NewOids(c) \/ NewOidsFails(c)
    BY <2>2, NewOidsInv
  <2>3. ASSUME NEW oid \in Stored, SetMinOid(c, oid)
        PROVE  OidInv' /\ \A d \in Client : Has(d)' \subseteq Has(d)
    <3>1. oid \in Nat
      BY OidAssumption DEF Stored, OidInv, OidTypeOK
    <3> QED BY <2>3, <3>1, SetMinOidInv
  <2>4. CASE RaiseSequence(c)
    BY <2>4, RaiseSequenceInv
  <2>5. CASE SetMinOidFails(c) \/ NewInstance(c)
    BY <2>5, ForgetInv
  <2> QED BY <1>2, <2>1, <2>2, <2>3, <2>4, <2>5 DEF Step
<1> QED BY <1>1, <1>2 DEF Next

-----------------------------------------------------------------------------
(* Theorems. *)

\* Where the sequence never goes back no oid is ever given out twice, for
\* any number of instances and any oids that are copied from elsewhere.
THEOREM OidsAreUnique == Backend # "postgresql" => (Spec => []UniqueOids)
<1> SUFFICES ASSUME Backend # "postgresql" PROVE Spec => []UniqueOids
  OBVIOUS
<1>1. OidInv /\ [Next]_vars => OidInv'
  BY OidStep
<1>2. OidInv => UniqueOids
  BY DEF OidInv
<1> QED BY <1>1, <1>2, OidInit, PTL DEF Spec

\* ... and new ranges lie above every minimum that was set.
THEOREM RangesAreGreater == Backend # "postgresql" => (Spec => NewRangesAreGreater)
<1> SUFFICES ASSUME Backend # "postgresql" PROVE Spec => NewRangesAreGreater
  OBVIOUS
<1>1. OidInv /\ [Next]_vars => OidInv'
  BY OidStep
<1>2. OidInv /\ [Next]_vars =>
        [\A c \in Client : \A o \in Has(c)' \ Has(c) : o > minimum]_vars
  BY OidStep
<1> QED BY <1>1, <1>2, OidInit, PTL DEF Spec, NewRangesAreGreater
=============================================================================
