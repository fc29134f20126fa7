----------------------- MODULE HistoryFreePack_proofs -----------------------
(***************************************************************************)
(* Proofs about HistoryFreePack: what the marker computes, for any graph,  *)
(* and that packing beside transactions removes no object that the root    *)
(* reaches and removes all that was garbage when it began.                 *)
(***************************************************************************)
EXTENDS HistoryFreePack, FiniteSetTheorems, TLAPS

-----------------------------------------------------------------------------
(* Numbers.  A least counterexample takes the place of induction. *)

\* A set of numbers that is not empty has a least one.
LEMMA LeastNumber ==
    ASSUME NEW S, S \subseteq Nat, S # {}
    PROVE  \E m \in S : \A k \in S : m <= k
<1>1. PICK m \in S : \A k \in S : ~ (<<k, m>> \in OpToRel(<, Nat))
  BY NatLessThanWellFounded, WFMin
<1>2. \A k \in S : ~ (k < m)
  BY <1>1 DEF OpToRel
<1> QED BY <1>2

\* What holds of 0 and, with n, of n + 1, holds of all numbers.
LEMMA NumbersAll ==
    ASSUME NEW P, 0 \in P, \A n \in Nat : n \in P => n + 1 \in P
    PROVE  Nat \subseteq P
<1> SUFFICES ASSUME Nat \ P # {} PROVE FALSE
  OBVIOUS
<1>1. PICK m \in Nat \ P : \A k \in Nat \ P : m <= k
  BY LeastNumber
<1>2. m # 0 /\ m \in Nat
  BY <1>1
<1>3. m - 1 \in Nat /\ m - 1 + 1 = m
  BY <1>2
<1>4. m - 1 \in P
  BY <1>1, <1>3
<1> QED BY <1>1, <1>3, <1>4

\* A function can be iterated.
LEMMA Iteration ==
    ASSUME NEW D, NEW x \in D, NEW step \in [D -> D]
    PROVE  \E f \in [Nat -> D] : f[0] = x /\ \A n \in Nat : f[n + 1] = step[f[n]]
<1> DEFINE Part(n) == {g \in [0..n -> D] :
                 g[0] = x /\ \A m \in 0..n : m + 1 \in 0..n => g[m + 1] = step[g[m]]}
           P == {n \in Nat : Part(n) # {}}
<1>1. Nat \subseteq P
  <2>1. 0 \in P
    <3>1. [m \in 0..0 |-> x] \in Part(0)
      OBVIOUS
    <3> QED BY <3>1
  <2>2. ASSUME NEW n \in Nat, n \in P PROVE n + 1 \in P
    <3>1. PICK g \in Part(n) : TRUE
      BY <2>2
    <3> DEFINE h == [m \in 0..(n + 1) |-> IF m = n + 1 THEN step[g[n]] ELSE g[m]]
    <3>2. n \in 0..n /\ 0 \in 0..n /\ \A m \in 0..(n + 1) : m # n + 1 => m \in 0..n
      OBVIOUS
    <3>3. h \in [0..(n + 1) -> D]
      BY <3>1, <3>2
    <3>4. h[0] = x
      BY <3>1, <3>2
    <3>5. ASSUME NEW m \in 0..(n + 1), m + 1 \in 0..(n + 1) PROVE h[m + 1] = step[h[m]]
      <4>1. CASE m = n
        BY <3>2, <4>1
      <4>2. CASE m # n
        <5>1. m \in 0..n /\ m + 1 \in 0..n /\ m # n + 1 /\ m + 1 # n + 1
          BY <3>5, <4>2
        <5>2. g[m + 1] = step[g[m]]
          BY <3>1, <5>1
        <5> QED BY <3>5, <5>1, <5>2
      <4> QED BY <4>1, <4>2
    <3>6. h \in Part(n + 1)
      <4> HIDE DEF h
      <4> QED BY <3>3, <3>4, <3>5
    <3> HIDE DEF Part, h
    <3> QED BY <3>6
  <2> HIDE DEF P
  <2> QED BY <2>1, <2>2, NumbersAll
<1>2. ASSUME NEW n \in Nat, NEW g \in Part(n), NEW h \in Part(n + 1)
      PROVE  g[n] = h[n]
  <2> DEFINE Q == {m \in Nat : m \in 0..n => g[m] = h[m]}
  <2>1. 0 \in Q
    BY <1>2
  <2>2. ASSUME NEW m \in Nat, m \in Q PROVE m + 1 \in Q
    <3> SUFFICES ASSUME m + 1 \in 0..n PROVE g[m + 1] = h[m + 1]
      OBVIOUS
    <3>1. m \in 0..n /\ m \in 0..(n + 1) /\ m + 1 \in 0..(n + 1)
      OBVIOUS
    <3>2. g[m + 1] = step[g[m]] /\ h[m + 1] = step[h[m]] /\ g[m] = h[m]
      BY <1>2, <2>2, <3>1
    <3> QED BY <3>2
  <2>3. Nat \subseteq Q
    <3> HIDE DEF Q
    <3> QED BY <2>1, <2>2, NumbersAll
  <2> QED BY <2>3
<1> DEFINE pick == [n \in Nat |-> CHOOSE g \in Part(n) : TRUE]
           f == [n \in Nat |-> pick[n][n]]
<1>3. ASSUME NEW n \in Nat
      PROVE  /\ pick[n] \in Part(n) /\ pick[n] \in [0..n -> D] /\ pick[n][0] = x
             /\ \A m \in 0..n : m + 1 \in 0..n => pick[n][m + 1] = step[pick[n][m]]
  <2>1. pick[n] \in Part(n)
    <3> HIDE DEF Part
    <3> QED BY <1>1
  <2> HIDE DEF pick
  <2> QED BY <2>1
<1>4. f \in [Nat -> D] /\ f[0] = x
  <2> HIDE DEF pick, Part
  <2>1. \A n \in Nat : n \in 0..n
    OBVIOUS
  <2> QED BY <1>3, <2>1
<1>5. ASSUME NEW n \in Nat PROVE f[n + 1] = step[f[n]]
  <2> HIDE DEF pick, Part
  <2>1. pick[n][n] = pick[n + 1][n]
    BY <1>2, <1>3
  <2>2. n \in 0..(n + 1) /\ n + 1 \in 0..(n + 1)
    OBVIOUS
  <2>3. pick[n + 1][n + 1] = step[pick[n + 1][n]]
    BY <1>3, <2>2
  <2> QED BY <2>1, <2>3
<1> HIDE DEF f
<1> QED BY <1>4, <1>5
-----------------------------------------------------------------------------
(* TreeMarker. *)

Graph == [Oid -> SUBSET Oid]

\* One pass of the marker: what the objects of X refer to is added.
Pass(refs) == [X \in SUBSET Oid |-> X \cup UNION {refs[o] : o \in X}]

\* The passes of the marker, one after the other.
Passes(roots, refs) ==
    {pass \in [Nat -> SUBSET Oid] :
        pass[0] = roots /\ \A n \in Nat : pass[n + 1] = Pass(refs)[pass[n]]}

\* A pass over a set of objects is a set of objects.
LEMMA PassType ==
    ASSUME NEW refs \in Graph
    PROVE  Pass(refs) \in [SUBSET Oid -> SUBSET Oid]
BY DEF Pass, Graph

\* The marker's result is the last of its passes.
LEMMA MarkIsLastPass ==
    ASSUME NEW roots \in SUBSET Oid, NEW refs \in Graph
    PROVE  \E pass \in Passes(roots, refs) : Mark(roots, refs) = pass[Cardinality(Oid)]
<1> DEFINE Def(f) == [n \in Nat |-> IF n = 0 THEN roots
                                    ELSE f[n - 1] \cup UNION {refs[o] : o \in f[n - 1]}]
           pass == CHOOSE f : f = Def(f)
<1>1. Mark(roots, refs) = pass[Cardinality(Oid)]
  BY DEF Mark
<1>2. PICK f \in Passes(roots, refs) : TRUE
  <2> DEFINE D == SUBSET Oid
  <2>1. Pass(refs) \in [D -> D] /\ roots \in D
    BY PassType
  <2>2. \E f \in [Nat -> D] : f[0] = roots /\ \A n \in Nat : f[n + 1] = Pass(refs)[f[n]]
    <3> HIDE DEF D
    <3> QED BY <2>1, Iteration
  <2> QED BY <2>2 DEF Passes
<1>3. f = Def(f)
  <2>1. ASSUME NEW n \in Nat PROVE f[n] = Def(f)[n]
    <3>1. CASE n = 0
      BY <1>2, <3>1 DEF Passes
    <3>2. CASE n # 0
      <4>1. n - 1 \in Nat /\ n - 1 + 1 = n
        BY <3>2
      <4>2. f[n] = Pass(refs)[f[n - 1]] /\ f[n - 1] \in SUBSET Oid
        BY <1>2, <4>1 DEF Passes
      <4> QED BY <3>2, <4>2 DEF Pass
    <3> QED BY <3>1, <3>2
  <2> QED BY <1>2, <2>1 DEF Passes
<1>4. pass = Def(pass)
  <2> HIDE DEF Def
  <2> QED BY <1>3
<1> HIDE DEF pass
<1>5. pass[0] = roots
  BY <1>4
<1>6. ASSUME NEW n \in Nat
      PROVE  pass[n + 1] = pass[n] \cup UNION {refs[o] : o \in pass[n]}
  <2>1. n + 1 \in Nat /\ n + 1 # 0 /\ n + 1 - 1 = n
    OBVIOUS
  <2>2. pass[n + 1] = Def(pass)[n + 1]
    BY <1>4
  <2>3. Def(pass)[n + 1] = pass[n + 1 - 1] \cup UNION {refs[o] : o \in pass[n + 1 - 1]}
    BY <2>1
  <2> QED BY <2>1, <2>2, <2>3
<1>7. \A n \in Nat : pass[n] \in SUBSET Oid
  <2> DEFINE P == {n \in Nat : pass[n] \in SUBSET Oid}
  <2>1. 0 \in P
    BY <1>5
  <2>2. \A n \in Nat : n \in P => n + 1 \in P
    BY <1>6 DEF Graph
  <2>3. Nat \subseteq P
    <3> HIDE DEF P
    <3> QED BY <2>1, <2>2, NumbersAll
  <2> QED BY <2>3
<1>8. pass \in [Nat -> SUBSET Oid]
  BY <1>4, <1>7
<1>9. pass \in Passes(roots, refs)
  BY <1>5, <1>6, <1>7, <1>8 DEF Passes, Pass
<1> QED BY <1>1, <1>9

\* A pass that finds nothing new comes at the latest when all objects can be
\* marked: the last pass is closed under references.
LEMMA LastPassIsClosed ==
    ASSUME NEW roots \in SUBSET Oid, NEW refs \in Graph, NEW pass \in Passes(roots, refs)
    PROVE  pass[Cardinality(Oid) + 1] = pass[Cardinality(Oid)]
<1> DEFINE size == Cardinality(Oid)
           P == {n \in Nat : Cardinality(pass[n]) >= n \/ pass[n + 1] = pass[n]}
<1>1. IsFiniteSet(Oid) /\ size \in Nat
  BY PackAssumption, FS_CardinalityType
<1>2. \A n \in Nat : /\ pass[n] \in SUBSET Oid
                     /\ pass[n + 1] = Pass(refs)[pass[n]]
                     /\ pass[n] \subseteq pass[n + 1]
  BY DEF Passes, Pass
<1>3. \A n \in Nat : IsFiniteSet(pass[n]) /\ Cardinality(pass[n]) \in Nat
  BY <1>1, <1>2, FS_Subset, FS_CardinalityType
<1>4. Nat \subseteq P
  <2>1. 0 \in P
    BY <1>3
  <2>2. ASSUME NEW n \in Nat, n \in P PROVE n + 1 \in P
    <3>1. CASE pass[n + 1] = pass[n]
      BY <1>2, <3>1
    <3>2. CASE pass[n + 1] # pass[n]
      <4>1. Cardinality(pass[n]) >= n
        BY <2>2, <3>2
      <4>2. Cardinality(pass[n]) <= Cardinality(pass[n + 1])
            /\ Cardinality(pass[n]) # Cardinality(pass[n + 1])
        BY <1>2, <1>3, <3>2, FS_Subset
      <4>3. Cardinality(pass[n + 1]) >= n + 1
        BY <1>3, <4>1, <4>2
      <4> QED BY <4>3
    <3> QED BY <3>1, <3>2
  <2> HIDE DEF P
  <2> QED BY <2>1, <2>2, NumbersAll
<1>5. CASE Cardinality(pass[size]) >= size
  <2>1. Cardinality(pass[size]) <= size
    BY <1>1, <1>2, FS_Subset
  <2>2. pass[size] = Oid
    BY <1>1, <1>2, <1>3, <1>5, <2>1, FS_Subset
  <2>3. pass[size] \subseteq pass[size + 1] /\ pass[size + 1] \in SUBSET Oid
    BY <1>1, <1>2
  <2> QED BY <2>2, <2>3
<1> QED BY <1>1, <1>4, <1>5

\* What the marker computes: the least set of objects with the roots that is
\* closed under references.
LEMMA MarkReaches ==
    ASSUME NEW roots \in SUBSET Oid, NEW refs \in Graph
    PROVE  /\ roots \subseteq Mark(roots, refs)
           /\ Mark(roots, refs) \subseteq Oid
           /\ \A o \in Mark(roots, refs) : refs[o] \subseteq Mark(roots, refs)
<1>1. PICK pass \in Passes(roots, refs) : Mark(roots, refs) = pass[Cardinality(Oid)]
  BY MarkIsLastPass
<1>2. Cardinality(Oid) \in Nat
  BY PackAssumption, FS_CardinalityType
<1>3. pass[Cardinality(Oid) + 1] = pass[Cardinality(Oid)]
  BY LastPassIsClosed
<1>4. \A n \in Nat : roots \subseteq pass[n]
  <2> DEFINE P == {n \in Nat : roots \subseteq pass[n]}
  <2>0. \A n \in Nat : pass[n] \in SUBSET Oid /\ pass[n + 1] = Pass(refs)[pass[n]]
    BY DEF Passes
  <2>a. \A X \in SUBSET Oid : X \subseteq Pass(refs)[X]
    BY DEF Pass
  <2>1. 0 \in P /\ \A n \in Nat : n \in P => n + 1 \in P
    BY <2>0, <2>a DEF Passes
  <2>2. Nat \subseteq P
    <3> HIDE DEF P
    <3> QED BY <2>1, NumbersAll
  <2> QED BY <2>2
<1>5. Pass(refs)[pass[Cardinality(Oid)]] = pass[Cardinality(Oid)]
  BY <1>2, <1>3 DEF Passes
<1>6. pass[Cardinality(Oid)] \in SUBSET Oid
  BY <1>2 DEF Passes
<1>7. \A o \in pass[Cardinality(Oid)] : refs[o] \subseteq pass[Cardinality(Oid)]
  BY <1>5, <1>6 DEF Pass
<1> QED BY <1>1, <1>2, <1>4, <1>6, <1>7

\* ... and no set that is closed has less.
LEMMA MarkIsLeast ==
    ASSUME NEW roots \in SUBSET Oid, NEW refs \in Graph,
           NEW C, roots \subseteq C, \A o \in C \cap Oid : refs[o] \subseteq C
    PROVE  Mark(roots, refs) \subseteq C
<1>1. PICK pass \in Passes(roots, refs) : Mark(roots, refs) = pass[Cardinality(Oid)]
  BY MarkIsLastPass
<1>2. Cardinality(Oid) \in Nat
  BY PackAssumption, FS_CardinalityType
<1> DEFINE P == {n \in Nat : pass[n] \subseteq C}
<1>3. 0 \in P
  BY DEF Passes
<1>4. ASSUME NEW n \in Nat, n \in P PROVE n + 1 \in P
  <2>1. pass[n] \in SUBSET Oid /\ pass[n + 1] = Pass(refs)[pass[n]]
    BY DEF Passes
  <2> QED BY <1>4, <2>1 DEF Pass
<1>5. Nat \subseteq P
  <2> HIDE DEF P
  <2> QED BY <1>3, <1>4, NumbersAll
<1> QED BY <1>1, <1>2, <1>5

-----------------------------------------------------------------------------
(* The inductive invariant of SpecAssumed. *)

Kept == {o \in Packed : pack_object[o].keep}
Doomed == {o \in Packed : ~ pack_object[o].keep}

\* The references among the objects in pack_object.
PackedRefs(states) == [o \in Oid |-> IF o \in Packed THEN states[o].refs ELSE {}]

\* A tid names one state of an object, in whichever table it is found.
SameState(a, b) == b.tid # 0 /\ a.tid = b.tid => a = b

\* Rows belong to oids that were allocated and to tids that were committed.
TablesInv ==
    /\ Exists(object_state) \subseteq used
    /\ Packed \subseteq used
    /\ garbage \subseteq Packed
    /\ \A o \in Oid :
          /\ object_state[o].tid <= dbTid
          /\ object_ref[o].tid <= dbTid
          /\ snapshot[o].tid <= dbTid
          /\ SameState(object_ref[o], object_state[o])
          /\ SameState(snapshot[o], object_state[o])

\* What a complete pre-pack left: nothing that the root reaches is to be
\* removed, and all the garbage is.
PrePackInv ==
    /\ prepacked => Doomed \cap Reachable = {} /\ garbage \subseteq Doomed
    /\ pc \in {"prepacked", "remove"} => prepacked
    /\ pc \in {"filled", "examine", "mark"} => ~ prepacked
    /\ pc = "remove" => oids \subseteq Doomed /\ garbage \cap Exists(object_state) \subseteq oids

\* pack_object was filled, and no snapshot was taken yet.
FilledInv ==
    pc = "filled" =>
        /\ Root \in Kept
        /\ Kept \cap garbage = {}
        /\ \A o \in Packed : object_state[o].tid >= pack_object[o].keep_tid
        /\ OldStaysReferenced
        /\ Reachable \cap garbage = {}
        /\ \A o \in Packed \ garbage : object_state[o].refs \cap garbage = {}

\* The snapshot is analysed: what is in pack_object and still reached was
\* reached in the snapshot, through objects of pack_object.
ExamineInv ==
    pc = "examine" =>
        /\ Root \in Kept
        /\ Kept \cap garbage = {}
        /\ \A o \in Packed : snapshot[o].tid >= pack_object[o].keep_tid
        /\ \A o \in Packed : o \in oids \/ object_ref[o] = snapshot[o]
        /\ Reachable \cap Packed \subseteq Mark({Root}, PackedRefs(snapshot))
        /\ \A o \in Packed \ garbage : snapshot[o].refs \cap garbage = {}

\* The objects to mark are on their way to pack_object.
MarkInv ==
    pc = "mark" =>
        /\ Reachable \cap Packed \subseteq oids \cup Kept
        /\ (oids \cup Kept) \cap garbage = {}

IInv ==
    /\ TypeOK
    /\ NoDanglingReferences
    /\ TablesInv
    /\ PrePackInv
    /\ FilledInv
    /\ ExamineInv
    /\ MarkInv

-----------------------------------------------------------------------------
(* The operators of the packer. *)

\* The graph of a table of states.
LEMMA ReferencesType ==
    ASSUME NEW states \in [Oid -> States]
    PROVE  References(states) \in Graph /\ \A o \in Oid : References(states)[o] = states[o].refs
BY DEF References, Graph, States

\* The root reaches itself and what the objects it reaches refer to.
LEMMA ReachableClosed ==
    ASSUME TypeOK
    PROVE  /\ Root \in Reachable /\ Reachable \subseteq Oid
           /\ \A o \in Reachable : object_state[o].refs \subseteq Reachable
<1>1. References(object_state) \in Graph /\ {Root} \in SUBSET Oid
  BY ReferencesType, PackAssumption DEF TypeOK
<1>2. /\ {Root} \subseteq Reachable /\ Reachable \subseteq Oid
      /\ \A o \in Reachable : References(object_state)[o] \subseteq Reachable
  BY <1>1, MarkReaches DEF Reachable
<1> QED BY <1>2, ReferencesType DEF TypeOK

\* It reaches no more than any set with the root that is closed.
LEMMA ReachesNoMore ==
    ASSUME NEW states \in [Oid -> States], NEW C, Root \in C,
           \A o \in C \cap Oid : states[o].refs \subseteq C
    PROVE  Mark({Root}, References(states)) \subseteq C
<1>1. References(states) \in Graph /\ {Root} \in SUBSET Oid /\ {Root} \subseteq C
  BY ReferencesType, PackAssumption
<1>2. \A o \in C \cap Oid : References(states)[o] \subseteq C
  BY ReferencesType
<1> QED BY <1>1, <1>2, MarkIsLeast

\* Objects are taken from a set in the order of their oids.
LEMMA MinOfOids ==
    ASSUME NEW S, S \subseteq Oid, S # {}
    PROVE  Min(S) \in S
<1>1. \E m \in S : \A k \in S : m <= k
  BY PackAssumption, LeastNumber
<1> QED BY <1>1 DEF Min

\* The pack transaction is that of a row.
LEMMA ChosenTidType ==
    ASSUME TypeOK, TablesInv, NEW t \in Nat,
           \E o \in Exists(object_state) : object_state[o].tid <= t
    PROVE  ChosenTid(t) \in 0..dbTid
<1> DEFINE S == {object_state[o].tid : o \in {x \in Exists(object_state) : object_state[x].tid <= t}}
           up == {n \in Nat : \A u \in S : u <= n}
<1>0. dbTid \in Nat
  BY DEF TypeOK
<1>1. S \subseteq 0..dbTid /\ S # {}
  <2>1. MaxTid \in Nat
    BY PackAssumption
  <2>2. ASSUME NEW o \in Oid PROVE object_state[o].tid \in 0..dbTid
    <3>1. object_state[o].tid \in 0..MaxTid
      BY DEF TypeOK, States
    <3>2. object_state[o].tid <= dbTid
      BY DEF TablesInv
    <3> QED BY <1>0, <2>1, <3>1, <3>2
  <2> QED BY <2>2 DEF Exists
<1> HIDE DEF S
<1>2. dbTid \in up
  BY <1>0, <1>1
<1>3. PICK m \in up : \A k \in up : m <= k
  <2>1. up \subseteq Nat /\ up # {}
    BY <1>2
  <2> HIDE DEF up
  <2> QED BY <2>1, LeastNumber
<1>4. m \in S
  <2> SUFFICES ASSUME m \notin S PROVE FALSE
    OBVIOUS
  <2>1. ASSUME NEW u \in S PROVE u \in Nat /\ m \in Nat /\ u < m
    <3>1. u \in Nat /\ m \in Nat /\ u <= m /\ u # m
      BY <1>0, <1>1, <1>3
    <3> QED BY <3>1
  <2>2. PICK u \in S : TRUE
    BY <1>1
  <2>3. m - 1 \in Nat
    BY <2>1, <2>2
  <2>4. \A v \in S : v <= m - 1
    BY <2>1
  <2>5. m - 1 \in up
    BY <2>3, <2>4
  <2> QED BY <1>3, <2>1, <2>2, <2>5
<1>5. \E x \in S : \A y \in S : x >= y
  BY <1>0, <1>1, <1>3, <1>4
<1>6. Max(S) \in S
  BY <1>5 DEF Max
<1> QED BY <1>1, <1>6 DEF ChosenTid, S

-----------------------------------------------------------------------------
(* Transactions. *)

\* A transaction refers to what it reaches and to its new objects: nothing
\* else comes into reach, and everything in reach exists.
LEMMA CommitInv ==
    ASSUME IInv, OldStaysReferenced', dbTid < MaxTid,
           NEW o \in Reachable, NEW refs, refs \subseteq Reachable,
           NEW new, new \subseteq Oid \ used, NEW newRefs, newRefs \subseteq Reachable,
           Commit(o, refs, new, newRefs)
    PROVE  IInv'
<1>0. TypeOK /\ NoDanglingReferences /\ TablesInv /\ PrePackInv /\ FilledInv /\ ExamineInv /\ MarkInv
  BY DEF IInv
<1>1. /\ Root \in Reachable /\ Reachable \subseteq Oid
      /\ \A x \in Reachable : object_state[x].refs \subseteq Reachable
  BY <1>0, ReachableClosed
<1>2. UNCHANGED <<pack_object, object_ref, prepacked, pc, pack_tid, snapshot, oids, garbage>>
  BY DEF Commit, tables, packer
<1>3. Packed' = Packed /\ Kept' = Kept /\ Doomed' = Doomed
  BY <1>2 DEF Packed, Kept, Doomed
<1>4. dbTid' = dbTid + 1 /\ used' = used \cup new
  BY DEF Commit
<1>5. o \in Oid /\ o \notin new
  BY <1>0, <1>1 DEF NoDanglingReferences, TablesInv
<1>6. /\ object_state'[o] = [tid |-> dbTid + 1, refs |-> refs \cup new]
      /\ \A x \in new : object_state'[x] = [tid |-> dbTid + 1, refs |-> newRefs]
      /\ \A x \in Oid : x # o /\ x \notin new => object_state'[x] = object_state[x]
  BY <1>5 DEF Commit
<1>7. dbTid \in Nat /\ dbTid + 1 \in 1..MaxTid /\ dbTid + 1 # 0
  BY <1>0, PackAssumption DEF TypeOK
<1>8. refs \cup new \subseteq Oid /\ newRefs \subseteq Oid
  BY <1>1
<1>9. object_state' \in [Oid -> States]
  <2>1. [tid |-> dbTid + 1, refs |-> refs \cup new] \in States
        /\ [tid |-> dbTid + 1, refs |-> newRefs] \in States
    BY <1>7, <1>8 DEF States
  <2> QED BY <1>0, <2>1 DEF Commit, TypeOK
<1>10. TypeOK'
  BY <1>0, <1>2, <1>4, <1>7, <1>9 DEF TypeOK
<1>11. Reachable' \subseteq Reachable \cup new
  <2>1. \A x \in (Reachable \cup new) \cap Oid : object_state'[x].refs \subseteq Reachable \cup new
    BY <1>1, <1>5, <1>6
  <2>2. Mark({Root}, References(object_state')) \subseteq Reachable \cup new
    BY <1>1, <1>9, <2>1, ReachesNoMore
  <2> QED BY <2>2 DEF Reachable, References
<1>12. Exists(object_state)' = Exists(object_state) \cup new
  <2>1. \A x \in Oid : x \in Exists(object_state)' <=> object_state'[x].tid # 0
    BY DEF Exists
  <2>2. \A x \in Oid : x \in Exists(object_state) <=> object_state[x].tid # 0
    BY DEF Exists
  <2>3. o \in Exists(object_state)
    BY <1>0 DEF NoDanglingReferences
  <2>4. \A x \in Oid : x \in Exists(object_state)' <=> x \in Exists(object_state) \cup new
    BY <1>5, <1>6, <1>7, <2>1, <2>2, <2>3
  <2> QED BY <2>4 DEF Exists
<1>13. NoDanglingReferences'
  BY <1>0, <1>11, <1>12 DEF NoDanglingReferences
<1>14. new \cap Packed = {} /\ new \cap garbage = {} /\ garbage \subseteq Packed
  BY <1>0 DEF TablesInv
<1>15. TablesInv'
  <2>1. ASSUME NEW x \in Oid
        PROVE  /\ object_state'[x].tid <= dbTid + 1
               /\ object_ref[x].tid <= dbTid + 1
               /\ snapshot[x].tid <= dbTid + 1
               /\ SameState(object_ref[x], object_state'[x])
               /\ SameState(snapshot[x], object_state'[x])
    <3>1. /\ object_state[x].tid \in Nat /\ object_ref[x].tid \in Nat /\ snapshot[x].tid \in Nat
          /\ object_state[x].tid <= dbTid /\ object_ref[x].tid <= dbTid /\ snapshot[x].tid <= dbTid
          /\ SameState(object_ref[x], object_state[x]) /\ SameState(snapshot[x], object_state[x])
      BY <1>0, PackAssumption DEF TypeOK, States, TablesInv
    <3>2. CASE object_state'[x] = object_state[x]
      BY <1>7, <3>1, <3>2
    <3>3. CASE object_state'[x].tid = dbTid + 1
      BY <1>7, <3>1, <3>3 DEF SameState
    <3> QED BY <1>6, <3>2, <3>3
  <2> QED BY <1>0, <1>2, <1>3, <1>4, <1>12, <2>1 DEF TablesInv
<1>16. PrePackInv'
  <2>1. prepacked' => Doomed' \cap Reachable' = {} /\ garbage' \subseteq Doomed'
    BY <1>0, <1>2, <1>3, <1>11, <1>14 DEF PrePackInv, Doomed
  <2>2. pc' = "remove" => oids' \subseteq Doomed'
                          /\ garbage' \cap Exists(object_state)' \subseteq oids'
    BY <1>0, <1>2, <1>3, <1>12, <1>14 DEF PrePackInv
  <2> QED BY <1>0, <1>2, <2>1, <2>2 DEF PrePackInv
<1>17. FilledInv'
  <2> SUFFICES ASSUME pc = "filled"
      PROVE  /\ \A x \in Packed : object_state'[x].tid >= pack_object[x].keep_tid
             /\ Reachable' \cap garbage = {}
             /\ \A x \in Packed \ garbage : object_state'[x].refs \cap garbage = {}
    BY <1>0, <1>2, <1>3 DEF FilledInv
  <2>1. /\ \A x \in Packed : object_state[x].tid >= pack_object[x].keep_tid
        /\ Reachable \cap garbage = {}
        /\ \A x \in Packed \ garbage : object_state[x].refs \cap garbage = {}
    BY <1>0 DEF FilledInv
  <2>2. ASSUME NEW x \in Packed PROVE object_state'[x].tid >= pack_object[x].keep_tid
    <3>1. /\ x \in Oid /\ x \notin new /\ object_state[x].tid \in Nat
          /\ pack_object[x].keep_tid \in Nat /\ object_state[x].tid <= dbTid
      BY <1>0, <1>14, PackAssumption DEF Packed, TypeOK, States, TablesInv
    <3> QED BY <1>6, <1>7, <2>1, <3>1
  <2>3. ASSUME NEW x \in Packed \ garbage PROVE object_state'[x].refs \cap garbage = {}
    <3>1. x \in Oid /\ x \notin new
      BY <1>14 DEF Packed
    <3>2. CASE x = o
      BY <1>6, <1>14, <2>1, <3>2
    <3> QED BY <1>6, <2>1, <3>1, <3>2
  <2> QED BY <1>11, <1>14, <2>1, <2>2, <2>3
<1>18. ExamineInv'
  <2> SUFFICES ASSUME pc = "examine"
      PROVE  Reachable' \cap Packed \subseteq Mark({Root}, PackedRefs(snapshot)')
    BY <1>0, <1>2, <1>3 DEF ExamineInv
  <2>1. PackedRefs(snapshot)' = PackedRefs(snapshot)
    BY <1>2, <1>3 DEF PackedRefs
  <2> QED BY <1>0, <1>11, <1>14, <2>1 DEF ExamineInv
<1>19. MarkInv'
  BY <1>0, <1>2, <1>3, <1>11, <1>14 DEF MarkInv
<1> QED BY <1>10, <1>13, <1>15, <1>16, <1>17, <1>18, <1>19 DEF IInv

\* Transactions that keep to what pre_pack assumes.
LEMMA TransactionInv ==
    ASSUME IInv, Transaction, OldStaysReferenced'
    PROVE  IInv'
<1>1. dbTid < MaxTid
  BY DEF Transaction
<1>2. PICK o \in Reachable, refs \in SUBSET (Reachable \ {Root}) :
         \/ Commit(o, refs, {}, {})
         \/ \E n \in Oid \ used, newRefs \in SUBSET (Reachable \ {Root}) : Commit(o, refs, {n}, newRefs)
  BY DEF Transaction
<1>3. CASE Commit(o, refs, {}, {})
  BY <1>1, <1>3, CommitInv
<1>4. ASSUME NEW n \in Oid \ used, NEW newRefs \in SUBSET (Reachable \ {Root}),
             Commit(o, refs, {n}, newRefs)
      PROVE  IInv'
  <2>1. refs \subseteq Reachable /\ newRefs \subseteq Reachable /\ {n} \subseteq Oid \ used
    OBVIOUS
  <2> QED BY <1>1, <1>4, <2>1, CommitInv
<1> QED BY <1>2, <1>3, <1>4

-----------------------------------------------------------------------------
(* The packer. *)

\* A step of the packer that leaves the objects alone.
LEMMA SameObjects ==
    ASSUME UNCHANGED database
    PROVE  /\ Reachable' = Reachable /\ Exists(object_state)' = Exists(object_state)
           /\ UNCHANGED <<object_state, dbTid, used>>
BY DEF database, Reachable, References, Exists

\* ... and the table pack_object.
LEMMA SamePacked ==
    ASSUME UNCHANGED pack_object
    PROVE  Packed' = Packed /\ Kept' = Kept /\ Doomed' = Doomed
BY DEF Packed, Kept, Doomed

\* The pack transaction is chosen; a pack starts with what an earlier
\* pre-pack left; it ends, complete or not.
LEMMA ControlInv ==
    ASSUME IInv, UNCHANGED <<database, pack_object, object_ref, garbage>>,
           \/ pc' \in {"idle", "chosen"} /\ prepacked' = prepacked
           \/ pc' = "prepacked" /\ prepacked /\ prepacked',
           pack_tid' \in 0..dbTid, snapshot' \in {snapshot, NoStates}, oids' \in {oids, {}}
    PROVE  IInv'
<1>0. TypeOK /\ NoDanglingReferences /\ TablesInv /\ PrePackInv
  BY DEF IInv
<1>1. /\ Reachable' = Reachable /\ Exists(object_state)' = Exists(object_state)
      /\ UNCHANGED <<object_state, dbTid, used, pack_object, object_ref, garbage>>
  BY SameObjects DEF database
<1>2. Packed' = Packed /\ Kept' = Kept /\ Doomed' = Doomed
  BY SamePacked
<1>3. NoStates \in [Oid -> States] /\ \A o \in Oid : NoStates[o] = NoState
  BY PackAssumption DEF NoStates, NoState, States
<1>4. TypeOK'
  BY <1>0, <1>1, <1>3 DEF TypeOK
<1>5. TablesInv'
  <2>1. ASSUME NEW o \in Oid
        PROVE  snapshot'[o].tid <= dbTid /\ SameState(snapshot'[o], object_state[o])
    <3>1. CASE snapshot' = snapshot
      BY <1>0, <3>1 DEF TablesInv
    <3>2. CASE snapshot' = NoStates
      BY <1>0, <1>3, <3>2 DEF TypeOK, NoState, SameState
    <3> QED BY <3>1, <3>2
  <2> QED BY <1>0, <1>1, <1>2, <2>1 DEF TablesInv
<1>6. PrePackInv'
  BY <1>0, <1>1, <1>2 DEF PrePackInv
<1>7. FilledInv' /\ ExamineInv' /\ MarkInv'
  BY DEF FilledInv, ExamineInv, MarkInv
<1>8. NoDanglingReferences'
  BY <1>0, <1>1 DEF NoDanglingReferences
<1> QED BY <1>4, <1>5, <1>6, <1>7, <1>8 DEF IInv

\* A row of pack_object.
LEMMA PackRow ==
    ASSUME NEW b \in BOOLEAN, NEW t \in 0..MaxTid
    PROVE  [keep |-> b, keep_tid |-> t] \in [keep : BOOLEAN, keep_tid : 0..MaxTid]
OBVIOUS

\* pack_object gets a row for every object; the root reaches nothing else,
\* and what is garbage is not referred to by the rest.
LEMMA FillPackObjectInv ==
    ASSUME IInv, FillPackObject
    PROVE  IInv'
<1>0. TypeOK /\ NoDanglingReferences /\ TablesInv
  BY DEF IInv
<1> DEFINE E == Exists(object_state)
           roots == {Root} \cup {o \in Oid : object_state[o].tid > pack_tid}
           M == Mark(roots, References(object_state))
<1>1. /\ pc = "chosen" /\ pc' = "filled" /\ prepacked' = FALSE
      /\ UNCHANGED <<object_state, dbTid, used, object_ref, pack_tid, snapshot, oids>>
      /\ garbage' = E \ M
  BY DEF FillPackObject, Goto, database
<1>2. /\ Root \in Reachable /\ Reachable \subseteq Oid
      /\ \A o \in Reachable : object_state[o].refs \subseteq Reachable
  BY <1>0, ReachableClosed
<1>3. Reachable' = Reachable /\ Exists(object_state)' = E
  BY <1>1, SameObjects DEF database
<1>4. /\ roots \subseteq M /\ M \subseteq Oid
      /\ \A o \in M : object_state[o].refs \subseteq M
  <2>1. roots \in SUBSET Oid /\ References(object_state) \in Graph
    BY <1>0, <1>2, ReferencesType DEF TypeOK
  <2> HIDE DEF roots
  <2> QED BY <1>0, <2>1, MarkReaches, ReferencesType DEF TypeOK
<1>5. Reachable \subseteq M
  <2>1. Mark({Root}, References(object_state)) \subseteq M
    <3> HIDE DEF M
    <3> QED BY <1>0, <1>4, ReachesNoMore DEF TypeOK
  <2> QED BY <2>1 DEF Reachable
<1>6. ASSUME NEW o \in Oid
      PROVE  /\ o \in E => /\ pack_object'[o] = [keep |-> Keep(o), keep_tid |-> object_state[o].tid]
                           /\ pack_object'[o].keep = Keep(o)
                           /\ pack_object'[o].keep_tid = object_state[o].tid
             /\ o \notin E => /\ pack_object'[o] = [keep |-> FALSE, keep_tid |-> 0]
                              /\ pack_object'[o].keep_tid = 0
             /\ Keep(o) \in BOOLEAN
  <2>1. o \in E => pack_object'[o] = [keep |-> Keep(o), keep_tid |-> object_state[o].tid]
    BY DEF FillPackObject
  <2>2. o \notin E => pack_object'[o] = [keep |-> FALSE, keep_tid |-> 0]
    BY DEF FillPackObject, NotPacked
  <2>3. Keep(o) \in BOOLEAN
    BY DEF Keep
  <2> QED BY <2>1, <2>2, <2>3
<1>7. \A o \in Oid : (o \in E <=> object_state[o].tid # 0) /\ object_state[o].tid \in 0..MaxTid
  BY <1>0 DEF Exists, TypeOK, States
<1>8. pack_object' \in [Oid -> [keep : BOOLEAN, keep_tid : 0..MaxTid]]
  <2>1. DOMAIN pack_object' = Oid /\ pack_object' = [o \in Oid |-> pack_object'[o]]
    BY DEF FillPackObject
  <2>2. ASSUME NEW o \in Oid PROVE pack_object'[o] \in [keep : BOOLEAN, keep_tid : 0..MaxTid]
    <3>1. CASE o \in E
      <4>1. Keep(o) \in BOOLEAN /\ object_state[o].tid \in 0..MaxTid
        BY <1>6, <1>7
      <4>2. [keep |-> Keep(o), keep_tid |-> object_state[o].tid]
                \in [keep : BOOLEAN, keep_tid : 0..MaxTid]
        BY <4>1, PackRow
      <4> QED BY <1>6, <3>1, <4>2
    <3>2. CASE o \notin E
      <4>1. [keep |-> FALSE, keep_tid |-> 0] \in [keep : BOOLEAN, keep_tid : 0..MaxTid]
        BY PackAssumption, PackRow
      <4> QED BY <1>6, <3>2, <4>1
    <3> QED BY <3>1, <3>2
  <2> QED BY <2>1, <2>2
<1>9. Packed' = E /\ \A o \in E : /\ pack_object'[o].keep_tid = object_state[o].tid
                                  /\ pack_object'[o].keep = Keep(o)
  <2>1. E \subseteq Oid
    BY DEF Exists
  <2>2. \A o \in Oid : o \in Packed' <=> pack_object'[o].keep_tid # 0
    BY DEF Packed
  <2>4. \A o \in Oid : o \in Packed' <=> o \in E
    BY <1>6, <1>7, <2>2
  <2>5. Packed' \subseteq Oid
    BY DEF Packed
  <2> QED BY <1>6, <2>1, <2>4, <2>5
<1>10. Kept' = {o \in E : Keep(o)}
  BY <1>9 DEF Kept
<1>11. TypeOK'
  BY <1>0, <1>1, <1>8 DEF TypeOK, Exists
<1>12. NoDanglingReferences'
  BY <1>0, <1>3 DEF NoDanglingReferences
<1>13. TablesInv'
  BY <1>0, <1>1, <1>3, <1>9 DEF TablesInv
<1>14. PrePackInv' /\ ExamineInv' /\ MarkInv'
  BY <1>1 DEF PrePackInv, ExamineInv, MarkInv
<1>15. FilledInv'
  <2>1. Root \in Kept'
    BY <1>0, <1>2, <1>10 DEF NoDanglingReferences, Keep
  <2>2. Kept' \cap garbage' = {}
    <3>1. ASSUME NEW o \in Kept' PROVE o \in M
      <4>1. o \in Oid /\ Keep(o)
        BY <1>10, <3>1 DEF Exists
      <4>2. o \in roots
        BY <4>1 DEF Keep
      <4> QED BY <1>4, <4>2
    <3> QED BY <1>1, <3>1
  <2>3. \A o \in Packed' : object_state'[o].tid >= pack_object'[o].keep_tid
    BY <1>1, <1>7, <1>9, PackAssumption DEF Exists
  <2>4. OldStaysReferenced'
    <3> DEFINE refs == [o \in Oid |-> IF o \in E THEN object_state[o].refs ELSE {}]
               C == Mark({Root}, refs)
    <3>1. refs \in Graph /\ {Root} \in SUBSET Oid
      BY <1>0, <1>2 DEF TypeOK, States, Graph
    <3>2. Root \in C /\ \A o \in C : refs[o] \subseteq C
      <4> HIDE DEF refs
      <4> QED BY <3>1, MarkReaches
    <3>3. Reachable \subseteq C
      <4>1. Root \in Reachable \cap C
        BY <1>2, <3>2
      <4>2. ASSUME NEW o \in (Reachable \cap C) \cap Oid
            PROVE  object_state[o].refs \subseteq Reachable \cap C
        <5>1. o \in E
          BY <1>0 DEF NoDanglingReferences
        <5>2. refs[o] = object_state[o].refs
          BY <5>1
        <5> HIDE DEF C, refs
        <5> QED BY <1>2, <3>2, <5>2
      <4>3. Mark({Root}, References(object_state)) \subseteq Reachable \cap C
        <5> DEFINE D == Reachable \cap C
        <5> HIDE DEF D
        <5>1. Root \in D /\ \A o \in D \cap Oid : object_state[o].refs \subseteq D
          BY <4>1, <4>2 DEF D
        <5>2. Mark({Root}, References(object_state)) \subseteq D
          BY <1>0, <5>1, ReachesNoMore DEF TypeOK
        <5> QED BY <5>2 DEF D
      <4> QED BY <4>3 DEF Reachable
    <3>4. [o \in Oid |-> IF o \in Packed THEN object_state[o].refs ELSE {}]' = refs
      BY <1>1, <1>9
    <3> HIDE DEF refs
    <3> QED BY <1>3, <3>3, <3>4 DEF OldStaysReferenced
  <2>5. Reachable' \cap garbage' = {}
    BY <1>1, <1>3, <1>5
  <2>6. \A o \in Packed' \ garbage' : object_state'[o].refs \cap garbage' = {}
    BY <1>1, <1>4, <1>9
  <2> QED BY <2>1, <2>2, <2>3, <2>4, <2>5, <2>6 DEF FilledInv
<1> QED BY <1>11, <1>12, <1>13, <1>14, <1>15 DEF IInv

\* The references that the packer follows are a graph.
LEMMA PackedRefsType ==
    ASSUME NEW states \in [Oid -> States]
    PROVE  PackedRefs(states) \in Graph
BY DEF PackedRefs, Graph, States

\* The snapshot begins: what was analysed before and was not written since
\* is what the snapshot has.
LEMMA CollectObjectsInv ==
    ASSUME IInv, CollectObjects
    PROVE  IInv'
<1>0. TypeOK /\ NoDanglingReferences /\ TablesInv /\ PrePackInv /\ FilledInv
  BY DEF IInv
<1>1. /\ pc = "filled" /\ pc' = "examine" /\ snapshot' = object_state /\ oids' = ToExamine
      /\ UNCHANGED <<object_state, dbTid, used, pack_object, object_ref, prepacked, pack_tid, garbage>>
  BY DEF CollectObjects, Goto, database, tables
<1>2. Reachable' = Reachable /\ Exists(object_state)' = Exists(object_state)
  BY <1>1, SameObjects DEF database
<1>3. Packed' = Packed /\ Kept' = Kept /\ Doomed' = Doomed
  BY <1>1, SamePacked
<1>4. TypeOK'
  <2>1. ToExamine \subseteq Oid
    BY DEF ToExamine, Packed
  <2> QED BY <1>0, <1>1, <2>1 DEF TypeOK
<1>5. TablesInv'
  <2>1. \A o \in Oid : SameState(object_state[o], object_state[o])
    BY DEF SameState
  <2> QED BY <1>0, <1>1, <1>2, <1>3, <2>1 DEF TablesInv
<1>6. NoDanglingReferences' /\ PrePackInv' /\ FilledInv' /\ MarkInv'
  BY <1>0, <1>1, <1>2, <1>3 DEF NoDanglingReferences, PrePackInv, FilledInv, MarkInv
<1>7. ASSUME NEW o \in Packed PROVE o \in ToExamine \/ object_ref[o] = object_state[o]
  <2>1. /\ o \in Oid /\ object_state[o].tid >= pack_object[o].keep_tid
        /\ pack_object[o].keep_tid # 0 /\ pack_object[o].keep_tid \in Nat
        /\ object_state[o].tid \in Nat /\ SameState(object_ref[o], object_state[o])
    BY <1>0, <1>1, PackAssumption DEF Packed, FilledInv, TypeOK, States, TablesInv
  <2>2. object_state[o].tid # 0
    BY <2>1
  <2> QED BY <2>1, <2>2 DEF ToExamine, Exists, SameState
<1>8. Reachable \cap Packed \subseteq Mark({Root}, PackedRefs(object_state))
  BY <1>0, <1>1 DEF FilledInv, OldStaysReferenced, PackedRefs
<1>9. PackedRefs(snapshot)' = PackedRefs(object_state)
  BY <1>1, <1>3 DEF PackedRefs
<1>10. ExamineInv'
  BY <1>0, <1>1, <1>2, <1>3, <1>7, <1>8, <1>9 DEF FilledInv, ExamineInv
<1> QED BY <1>4, <1>5, <1>6, <1>10 DEF IInv

\* One object of the snapshot is analysed.
LEMMA AddRefsInv ==
    ASSUME IInv, AddRefs
    PROVE  IInv'
<1>0. TypeOK /\ NoDanglingReferences /\ TablesInv /\ PrePackInv /\ ExamineInv
  BY DEF IInv
<1> DEFINE m == Min(oids)
<1>1. /\ pc = "examine" /\ oids # {} /\ oids' = oids \ {m}
      /\ object_ref' = [object_ref EXCEPT ![m] = snapshot[m]]
      /\ UNCHANGED <<object_state, dbTid, used, pack_object, prepacked, pc, pack_tid, snapshot, garbage>>
  BY DEF AddRefs, database
<1>2. m \in oids /\ m \in Oid
  BY <1>0, <1>1, MinOfOids DEF TypeOK
<1> HIDE DEF m
<1>3. Reachable' = Reachable /\ Exists(object_state)' = Exists(object_state)
  BY <1>1, SameObjects DEF database
<1>4. Packed' = Packed /\ Kept' = Kept /\ Doomed' = Doomed
  BY <1>1, SamePacked
<1>5. object_ref' \in [Oid -> States]
  BY <1>0, <1>1, <1>2 DEF TypeOK
<1>6. \A o \in Oid : object_ref'[o] = IF o = m THEN snapshot[o] ELSE object_ref[o]
  BY <1>0, <1>1 DEF TypeOK
<1>7. TypeOK'
  BY <1>0, <1>1, <1>5 DEF TypeOK
<1>8. TablesInv'
  <2>1. \A o \in Oid : object_ref'[o].tid <= dbTid /\ SameState(object_ref'[o], object_state[o])
    BY <1>0, <1>6 DEF TablesInv
  <2> QED BY <1>0, <1>1, <1>3, <1>4, <2>1 DEF TablesInv
<1>9. NoDanglingReferences' /\ PrePackInv' /\ FilledInv' /\ MarkInv'
  BY <1>0, <1>1, <1>3, <1>4 DEF NoDanglingReferences, PrePackInv, FilledInv, MarkInv
<1>10. \A o \in Packed : o \in oids' \/ object_ref'[o] = snapshot[o]
  BY <1>0, <1>1, <1>6 DEF ExamineInv, Packed
<1>11. PackedRefs(snapshot)' = PackedRefs(snapshot)
  BY <1>1, <1>4 DEF PackedRefs
<1>12. ExamineInv'
  BY <1>0, <1>1, <1>3, <1>4, <1>10, <1>11 DEF ExamineInv
<1> QED BY <1>7, <1>8, <1>9, <1>12 DEF IInv

\* The marker gets from the objects to keep to all that the root reaches in
\* the snapshot, and to no garbage.
LEMMA TraverseGraphInv ==
    ASSUME IInv, TraverseGraph
    PROVE  IInv'
<1>0. TypeOK /\ NoDanglingReferences /\ TablesInv /\ PrePackInv /\ ExamineInv
  BY DEF IInv
<1> DEFINE G == PackedRefs(snapshot)
           M == Mark(Kept, CurrentRefs)
<1>1. /\ pc = "examine" /\ oids = {} /\ pc' = "mark" /\ snapshot' = NoStates /\ oids' = M
      /\ UNCHANGED <<object_state, dbTid, used, pack_object, object_ref, prepacked, pack_tid, garbage>>
  BY DEF TraverseGraph, Goto, database, tables, Kept
<1>2. Reachable' = Reachable /\ Exists(object_state)' = Exists(object_state)
  BY <1>1, SameObjects DEF database
<1>3. Packed' = Packed /\ Kept' = Kept /\ Doomed' = Doomed
  BY <1>1, SamePacked
<1>4. CurrentRefs = G
  <2>1. \A o \in Packed : object_ref[o] = snapshot[o] /\ object_ref[o].tid >= pack_object[o].keep_tid
    BY <1>0, <1>1 DEF ExamineInv
  <2> QED BY <2>1 DEF CurrentRefs, PackedRefs
<1>5. G \in Graph /\ Kept \in SUBSET Oid /\ Root \in Oid
  BY <1>0, PackAssumption, PackedRefsType DEF TypeOK, Kept, Packed
<1>6. Kept \subseteq M /\ M \subseteq Oid /\ \A o \in M : G[o] \subseteq M
  <2> HIDE DEF G
  <2> QED BY <1>4, <1>5, MarkReaches
<1>7. Mark({Root}, G) \subseteq M
  <2>1. {Root} \subseteq M
    BY <1>0, <1>1, <1>6 DEF ExamineInv
  <2>2. \A o \in M \cap Oid : G[o] \subseteq M
    BY <1>6
  <2> HIDE DEF M, G
  <2> QED BY <1>5, <2>1, <2>2, MarkIsLeast
<1>8. M \cap garbage = {}
  <2> DEFINE C == Oid \ garbage
  <2>1. Kept \subseteq C
    BY <1>0, <1>1, <1>5 DEF ExamineInv
  <2>2. ASSUME NEW o \in C \cap Oid PROVE G[o] \subseteq C
    <3>1. G[o] \subseteq Oid
      BY <1>5 DEF Graph
    <3>2. G[o] \cap garbage = {}
      BY <1>0, <1>1 DEF ExamineInv, PackedRefs
    <3> QED BY <3>1, <3>2
  <2>3. Mark(Kept, G) \subseteq C
    <3> HIDE DEF C, G
    <3> QED BY <1>5, <2>1, <2>2, MarkIsLeast
  <2> QED BY <1>4, <2>3
<1>9. MarkInv'
  <2>1. Reachable \cap Packed \subseteq M
    BY <1>0, <1>1, <1>7 DEF ExamineInv
  <2>2. Kept \cap garbage = {}
    BY <1>0, <1>1 DEF ExamineInv
  <2> HIDE DEF M
  <2> QED BY <1>1, <1>2, <1>3, <1>8, <2>1, <2>2 DEF MarkInv
<1> HIDE DEF M
<1>10. NoStates \in [Oid -> States] /\ \A o \in Oid : NoStates[o] = NoState
  BY PackAssumption DEF NoStates, NoState, States
<1>11. TypeOK'
  BY <1>0, <1>1, <1>6, <1>10 DEF TypeOK
<1>12. TablesInv'
  <2>1. \A o \in Oid : snapshot'[o].tid <= dbTid /\ SameState(snapshot'[o], object_state[o])
    BY <1>0, <1>1, <1>10 DEF TypeOK, NoState, SameState
  <2> QED BY <1>0, <1>1, <1>2, <1>3, <2>1 DEF TablesInv
<1>13. NoDanglingReferences' /\ PrePackInv' /\ FilledInv' /\ ExamineInv'
  BY <1>0, <1>1, <1>2, <1>3 DEF NoDanglingReferences, PrePackInv, FilledInv, ExamineInv
<1> QED BY <1>9, <1>11, <1>12, <1>13 DEF IInv

\* One keep flag is uploaded.
LEMMA MarkReachableInv ==
    ASSUME IInv, NEW o \in Oid, MarkReachable(o)
    PROVE  IInv'
<1>0. TypeOK /\ NoDanglingReferences /\ TablesInv /\ PrePackInv /\ MarkInv
  BY DEF IInv
<1>1. /\ pc = "mark" /\ o \in oids /\ oids' = oids \ {o}
      /\ pack_object' = [pack_object EXCEPT ![o].keep = o \in Packed]
      /\ UNCHANGED <<object_state, dbTid, used, object_ref, prepacked, pc, pack_tid, snapshot, garbage>>
  BY DEF MarkReachable, database
<1>2. Reachable' = Reachable /\ Exists(object_state)' = Exists(object_state)
  BY <1>1, SameObjects DEF database
<1>3. \A x \in Oid : /\ pack_object'[x].keep_tid = pack_object[x].keep_tid
                     /\ x # o => pack_object'[x] = pack_object[x]
  BY <1>0, <1>1 DEF TypeOK
<1>4. pack_object'[o].keep = (o \in Packed)
  BY <1>0, <1>1 DEF TypeOK
<1>5. Packed' = Packed
  BY <1>3 DEF Packed
<1>6. Kept' = Kept \cup ({o} \cap Packed)
  <2>1. ASSUME NEW x \in Packed PROVE x \in Kept' <=> (x \in Kept \/ x = o)
    <3>1. x \in Oid
      BY DEF Packed
    <3>2. CASE x = o
      BY <1>4, <1>5, <3>2 DEF Kept
    <3>3. CASE x # o
      BY <1>3, <1>5, <3>1, <3>3 DEF Kept
    <3> QED BY <3>2, <3>3
  <2>2. Kept' \subseteq Packed /\ Kept \subseteq Packed
    BY <1>5 DEF Kept
  <2> QED BY <2>1, <2>2
<1>7. pack_object' \in [Oid -> [keep : BOOLEAN, keep_tid : 0..MaxTid]]
  <2>1. DOMAIN pack_object' = Oid /\ pack_object' = [x \in Oid |-> pack_object'[x]]
    BY <1>0, <1>1 DEF TypeOK
  <2>2. ASSUME NEW x \in Oid PROVE pack_object'[x] \in [keep : BOOLEAN, keep_tid : 0..MaxTid]
    <3>1. CASE x = o
      <4>1. pack_object[o] \in [keep : BOOLEAN, keep_tid : 0..MaxTid]
        BY <1>0 DEF TypeOK
      <4>2. pack_object'[o] = [keep |-> o \in Packed, keep_tid |-> pack_object[o].keep_tid]
        BY <1>0, <1>1, <4>1 DEF TypeOK
      <4>3. pack_object[o].keep_tid \in 0..MaxTid /\ (o \in Packed) \in BOOLEAN
        BY <4>1
      <4>4. [keep |-> o \in Packed, keep_tid |-> pack_object[o].keep_tid]
                \in [keep : BOOLEAN, keep_tid : 0..MaxTid]
        BY <4>3, PackRow
      <4> QED BY <3>1, <4>2, <4>4
    <3>2. CASE x # o
      BY <1>0, <1>3, <3>2 DEF TypeOK
    <3> QED BY <3>1, <3>2
  <2> QED BY <2>1, <2>2
<1>8. TypeOK'
  BY <1>0, <1>1, <1>7 DEF TypeOK
<1>9. TablesInv'
  BY <1>0, <1>1, <1>2, <1>5 DEF TablesInv
<1>10. NoDanglingReferences' /\ PrePackInv' /\ FilledInv' /\ ExamineInv'
  BY <1>0, <1>1, <1>2 DEF NoDanglingReferences, PrePackInv, FilledInv, ExamineInv
<1>11. MarkInv'
  BY <1>0, <1>1, <1>2, <1>5, <1>6 DEF MarkInv
<1> QED BY <1>8, <1>9, <1>10, <1>11 DEF IInv

\* All flags are there: what is left to remove is out of the root's reach.
LEMMA FinishPrePackInv ==
    ASSUME IInv, FinishPrePack
    PROVE  IInv'
<1>0. TypeOK /\ NoDanglingReferences /\ TablesInv /\ PrePackInv /\ MarkInv
  BY DEF IInv
<1>1. /\ pc = "mark" /\ oids = {} /\ prepacked' = TRUE /\ pack_tid' = 0
      /\ pc' \in {"prepacked", "idle"}
      /\ UNCHANGED <<object_state, dbTid, used, pack_object, object_ref, snapshot, oids, garbage>>
  BY DEF FinishPrePack, Goto, database
<1>2. Reachable' = Reachable /\ Exists(object_state)' = Exists(object_state)
  BY <1>1, SameObjects DEF database
<1>3. Packed' = Packed /\ Kept' = Kept /\ Doomed' = Doomed
  BY <1>1, SamePacked
<1>4. TypeOK'
  BY <1>0, <1>1, PackAssumption DEF TypeOK
<1>5. TablesInv'
  BY <1>0, <1>1, <1>2, <1>3 DEF TablesInv
<1>6. Doomed \cap Reachable = {} /\ garbage \subseteq Doomed
  BY <1>0, <1>1 DEF MarkInv, TablesInv, Kept, Doomed
<1>7. PrePackInv'
  BY <1>1, <1>2, <1>3, <1>6 DEF PrePackInv
<1>8. NoDanglingReferences' /\ FilledInv' /\ ExamineInv' /\ MarkInv'
  BY <1>0, <1>1, <1>2 DEF NoDanglingReferences, FilledInv, ExamineInv, MarkInv
<1> QED BY <1>4, <1>5, <1>7, <1>8 DEF IInv

\* The objects to remove are those that the flags leave.
LEMMA FetchObjectsToRemoveInv ==
    ASSUME IInv, FetchObjectsToRemove
    PROVE  IInv'
<1>0. TypeOK /\ NoDanglingReferences /\ TablesInv /\ PrePackInv
  BY DEF IInv
<1>1. /\ pc = "prepacked" /\ pc' = "remove" /\ oids' = Doomed
      /\ UNCHANGED <<object_state, dbTid, used, pack_object, object_ref, prepacked, pack_tid,
                     snapshot, garbage>>
  BY DEF FetchObjectsToRemove, Goto, database, tables, Doomed
<1>2. Reachable' = Reachable /\ Exists(object_state)' = Exists(object_state)
  BY <1>1, SameObjects DEF database
<1>3. Packed' = Packed /\ Kept' = Kept /\ Doomed' = Doomed
  BY <1>1, SamePacked
<1>4. Doomed \subseteq Oid
  BY DEF Doomed, Packed
<1>5. TypeOK'
  BY <1>0, <1>1, <1>4 DEF TypeOK
<1>6. TablesInv'
  BY <1>0, <1>1, <1>2, <1>3 DEF TablesInv
<1>7. PrePackInv'
  BY <1>0, <1>1, <1>2, <1>3 DEF PrePackInv
<1>8. NoDanglingReferences' /\ FilledInv' /\ ExamineInv' /\ MarkInv'
  BY <1>0, <1>1, <1>2 DEF NoDanglingReferences, FilledInv, ExamineInv, MarkInv
<1> QED BY <1>5, <1>6, <1>7, <1>8 DEF IInv

\* One object is removed, which the root does not reach.
LEMMA RemoveInv ==
    ASSUME IInv, Remove
    PROVE  IInv'
<1>0. TypeOK /\ NoDanglingReferences /\ TablesInv /\ PrePackInv
  BY DEF IInv
<1> DEFINE m == Min(oids)
<1>1. /\ pc = "remove" /\ oids # {} /\ oids' = oids \ {m}
      /\ object_state' = [object_state EXCEPT ![m] = NoState]
      /\ UNCHANGED <<dbTid, used, pack_object, object_ref, prepacked, pc, pack_tid, snapshot, garbage>>
  BY DEF Remove, tables
<1>2. m \in oids /\ m \in Oid
  BY <1>0, <1>1, MinOfOids DEF TypeOK
<1> HIDE DEF m
<1>3. Packed' = Packed /\ Kept' = Kept /\ Doomed' = Doomed
  BY <1>1, SamePacked
<1>4. /\ Root \in Reachable /\ Reachable \subseteq Oid
      /\ \A o \in Reachable : object_state[o].refs \subseteq Reachable
  BY <1>0, ReachableClosed
<1>5. m \notin Reachable
  BY <1>0, <1>1, <1>2 DEF PrePackInv
<1>6. NoState \in States /\ NoState.tid = 0
  BY PackAssumption DEF NoState, States
<1>7. object_state' \in [Oid -> States]
  BY <1>0, <1>1, <1>6 DEF TypeOK
<1>8. \A o \in Oid : object_state'[o] = IF o = m THEN NoState ELSE object_state[o]
  BY <1>0, <1>1 DEF TypeOK
<1>9. Reachable' \subseteq Reachable
  <2>1. \A o \in Reachable \cap Oid : object_state'[o].refs \subseteq Reachable
    BY <1>4, <1>5, <1>8
  <2>2. Mark({Root}, References(object_state')) \subseteq Reachable
    BY <1>4, <1>7, <2>1, ReachesNoMore
  <2> QED BY <2>2 DEF Reachable, References
<1>10. Exists(object_state)' = Exists(object_state) \ {m}
  BY <1>6, <1>8 DEF Exists
<1>11. TypeOK'
  BY <1>0, <1>1, <1>7 DEF TypeOK
<1>12. NoDanglingReferences'
  BY <1>0, <1>5, <1>9, <1>10 DEF NoDanglingReferences
<1>13. TablesInv'
  <2>1. ASSUME NEW o \in Oid
        PROVE  /\ object_state'[o].tid <= dbTid
               /\ SameState(object_ref[o], object_state'[o])
               /\ SameState(snapshot[o], object_state'[o])
    <3>1. CASE o = m
      BY <1>0, <1>6, <1>8, <3>1 DEF TypeOK, SameState
    <3>2. CASE o # m
      BY <1>0, <1>8, <3>2 DEF TablesInv
    <3> QED BY <3>1, <3>2
  <2> QED BY <1>0, <1>1, <1>3, <1>10, <2>1 DEF TablesInv
<1>14. PrePackInv'
  BY <1>0, <1>1, <1>3, <1>9, <1>10 DEF PrePackInv
<1>15. FilledInv' /\ ExamineInv' /\ MarkInv'
  BY <1>1 DEF FilledInv, ExamineInv, MarkInv
<1> QED BY <1>11, <1>12, <1>13, <1>14, <1>15 DEF IInv

\* The tables of the packer are emptied.
LEMMA PackCleanupInv ==
    ASSUME IInv, PackCleanup
    PROVE  IInv'
<1>0. TypeOK /\ NoDanglingReferences /\ TablesInv /\ PrePackInv
  BY DEF IInv
<1>1. /\ pc = "remove" /\ oids = {} /\ pc' = "idle" /\ pack_object' = NotPacked /\ garbage' = {}
      /\ UNCHANGED <<object_state, dbTid, used, prepacked, pack_tid, snapshot, oids>>
  BY DEF PackCleanup, Goto, database
<1>2. Reachable' = Reachable /\ Exists(object_state)' = Exists(object_state)
  BY <1>1, SameObjects DEF database
<1>3. NoState \in States /\ NoState.tid = 0
  BY PackAssumption DEF NoState, States
<1>4. /\ object_ref' \in [Oid -> States]
      /\ \A o \in Oid : object_ref'[o] = NoState \/ object_ref'[o] = object_ref[o]
  BY <1>0, <1>3 DEF PackCleanup, TypeOK
<1>5. NotPacked \in [Oid -> [keep : BOOLEAN, keep_tid : 0..MaxTid]]
  <2>1. [keep |-> FALSE, keep_tid |-> 0] \in [keep : BOOLEAN, keep_tid : 0..MaxTid]
    BY PackAssumption, PackRow
  <2> QED BY <2>1 DEF NotPacked
<1>6. Packed' = {} /\ Doomed' = {}
  BY <1>1 DEF Packed, Doomed, NotPacked
<1>7. TypeOK'
  BY <1>0, <1>1, <1>4, <1>5 DEF TypeOK
<1>8. TablesInv'
  <2>1. ASSUME NEW o \in Oid
        PROVE  object_ref'[o].tid <= dbTid /\ SameState(object_ref'[o], object_state[o])
    <3>1. CASE object_ref'[o] = NoState
      BY <1>0, <1>3, <3>1 DEF TypeOK, SameState
    <3>2. CASE object_ref'[o] = object_ref[o]
      BY <1>0, <3>2 DEF TablesInv
    <3> QED BY <1>4, <3>1, <3>2
  <2> QED BY <1>0, <1>1, <1>2, <1>6, <2>1 DEF TablesInv
<1>9. PrePackInv'
  BY <1>1, <1>6 DEF PrePackInv
<1>10. NoDanglingReferences' /\ FilledInv' /\ ExamineInv' /\ MarkInv'
  BY <1>0, <1>1, <1>2 DEF NoDanglingReferences, FilledInv, ExamineInv, MarkInv
<1> QED BY <1>7, <1>8, <1>9, <1>10 DEF IInv

-----------------------------------------------------------------------------
(* The invariant is inductive. *)

\* It holds of any database that has its root and no dangling reference.
LEMMA InitInv ==
    ASSUME Init
    PROVE  IInv
<1>1. PICK g \in InitGraphs :
         object_state = [o \in Oid |-> IF o \in InitOids THEN [tid |-> InitTid, refs |-> g[o]]
                                       ELSE NoState]
  BY DEF Init
<1>2. /\ dbTid = 1 /\ used = InitOids /\ pack_object = NotPacked /\ object_ref = NoStates
      /\ prepacked = TRUE /\ pc = "idle" /\ pack_tid = 0 /\ snapshot = NoStates
      /\ oids = {} /\ garbage = {}
  BY DEF Init, InitTid
<1>3. /\ Root \in InitOids /\ InitOids \subseteq Oid /\ MaxTid \in Nat \ {0}
      /\ \A o \in Oid : g[o] \subseteq InitOids
  BY PackAssumption
<1>4. NoState \in States /\ NoState.tid = 0 /\ NoState.refs = {}
  BY <1>3 DEF NoState, States
<1>5. ASSUME NEW o \in Oid
      PROVE  /\ o \in InitOids => object_state[o].tid = 1 /\ object_state[o].refs \subseteq InitOids
             /\ o \notin InitOids => object_state[o].tid = 0
             /\ object_state[o] \in States
  <2>1. CASE o \in InitOids
    <3>1. object_state[o] = [tid |-> 1, refs |-> g[o]]
      BY <1>1, <2>1 DEF InitTid
    <3>2. [tid |-> 1, refs |-> g[o]] \in States
      BY <1>3 DEF States
    <3> QED BY <1>3, <2>1, <3>1, <3>2
  <2>2. CASE o \notin InitOids
    BY <1>1, <1>4, <2>2
  <2> QED BY <2>1, <2>2
<1>6. object_state \in [Oid -> States]
  BY <1>1, <1>5
<1>7. NoStates \in [Oid -> States] /\ \A o \in Oid : NoStates[o] = NoState
  BY <1>4 DEF NoStates
<1>8. NotPacked \in [Oid -> [keep : BOOLEAN, keep_tid : 0..MaxTid]]
  <2>1. [keep |-> FALSE, keep_tid |-> 0] \in [keep : BOOLEAN, keep_tid : 0..MaxTid]
    BY PackAssumption, PackRow
  <2> QED BY <2>1 DEF NotPacked
<1>9. TypeOK
  BY <1>2, <1>3, <1>6, <1>7, <1>8 DEF TypeOK
<1>10. Exists(object_state) = InitOids
  BY <1>3, <1>4, <1>5 DEF Exists
<1>11. NoDanglingReferences
  <2>1. \A o \in InitOids \cap Oid : object_state[o].refs \subseteq InitOids
    BY <1>3, <1>5
  <2>2. Mark({Root}, References(object_state)) \subseteq InitOids
    BY <1>3, <1>6, <2>1, ReachesNoMore
  <2> QED BY <1>10, <2>2 DEF NoDanglingReferences, Reachable
<1>12. Packed = {} /\ Doomed = {}
  BY <1>2 DEF Packed, Doomed, NotPacked
<1>13. TablesInv
  <2>1. ASSUME NEW o \in Oid
        PROVE  /\ object_state[o].tid <= dbTid
               /\ object_ref[o] = NoState /\ snapshot[o] = NoState
               /\ object_state[o].tid \in {0, 1}
    BY <1>2, <1>4, <1>5, <1>7
  <2> QED BY <1>2, <1>4, <1>10, <1>12, <2>1 DEF TablesInv, SameState
<1>14. PrePackInv /\ FilledInv /\ ExamineInv /\ MarkInv
  BY <1>2, <1>12 DEF PrePackInv, FilledInv, ExamineInv, MarkInv
<1> QED BY <1>9, <1>11, <1>13, <1>14 DEF IInv

\* Every step of the packer keeps it.
LEMMA PackStepInv ==
    ASSUME IInv, PackStep
    PROVE  IInv'
<1>0. TypeOK /\ TablesInv
  BY DEF IInv
<1>1. ASSUME NEW t \in InitTid..MaxTid + 1, ChoosePackTransaction(t) PROVE IInv'
  <2>1. t \in Nat
    BY PackAssumption DEF InitTid
  <2>2. ChosenTid(t) \in 0..dbTid
    BY <1>0, <1>1, <2>1, ChosenTidType DEF ChoosePackTransaction
  <2> QED BY <1>1, <2>2, ControlInv DEF ChoosePackTransaction, Goto, tables
<1>2. CASE SkipPrePack /\ CompletePrePack
  <2>1. pack_tid \in 0..dbTid
    BY <1>0 DEF TypeOK
  <2> QED BY <1>2, <2>1, ControlInv DEF SkipPrePack, CompletePrePack, Goto, tables
<1>3. CASE FillPackObject
  BY <1>3, FillPackObjectInv
<1>4. CASE CollectObjects
  BY <1>4, CollectObjectsInv
<1>5. CASE TraverseGraph
  BY <1>5, TraverseGraphInv
<1>6. CASE FinishPrePack
  BY <1>6, FinishPrePackInv
<1>7. CASE FetchObjectsToRemove
  BY <1>7, FetchObjectsToRemoveInv
<1>8. CASE PackCleanup
  BY <1>8, PackCleanupInv
<1>9. CASE AddRefs
  BY <1>9, AddRefsInv
<1>10. ASSUME NEW o \in Oid, MarkReachable(o) PROVE IInv'
  BY <1>10, MarkReachableInv
<1>11. CASE Remove
  BY <1>11, RemoveInv
<1> QED BY <1>1, <1>2, <1>3, <1>4, <1>5, <1>6, <1>7, <1>8, <1>9, <1>10, <1>11 DEF PackStep

\* So do a crash of the packer and the transactions of applications.
LEMMA NextInv ==
    ASSUME IInv, [NextAssumed]_vars
    PROVE  IInv'
<1>1. CASE PackStep
  BY <1>1, PackStepInv
<1>2. CASE Crash
  <2>1. 0 \in 0..dbTid
    BY DEF IInv, TypeOK
  <2> QED BY <1>2, <2>1, ControlInv DEF Crash, Goto, tables
<1>3. CASE Transaction /\ OldStaysReferenced'
  BY <1>3, TransactionInv
<1>4. CASE UNCHANGED vars
  <2>1. UNCHANGED <<object_state, dbTid, used, pack_object, object_ref, prepacked, pc, pack_tid,
                    snapshot, oids, garbage>>
    BY <1>4 DEF vars, database, tables, packer
  <2>2. Reachable' = Reachable /\ Exists(object_state)' = Exists(object_state)
    BY <2>1, SameObjects DEF database
  <2>3. Packed' = Packed /\ Kept' = Kept /\ Doomed' = Doomed
    BY <2>1, SamePacked
  <2>4. TypeOK' /\ NoDanglingReferences' /\ TablesInv' /\ PrePackInv' /\ MarkInv'
    BY <2>1, <2>2, <2>3 DEF IInv, TypeOK, NoDanglingReferences, TablesInv, PrePackInv, MarkInv
  <2>5. OldStaysReferenced' = OldStaysReferenced /\ PackedRefs(snapshot)' = PackedRefs(snapshot)
    BY <2>1, <2>2, <2>3 DEF OldStaysReferenced, PackedRefs
  <2>6. FilledInv' /\ ExamineInv'
    BY <2>1, <2>2, <2>3, <2>5 DEF IInv, FilledInv, ExamineInv
  <2> QED BY <2>4, <2>6 DEF IInv
<1> QED BY <1>1, <1>2, <1>3, <1>4 DEF NextAssumed

\* The tables of the database and of the packer, and the packer's variables,
\* keep their types in every behaviour.
THEOREM PackTypes == SpecAssumed => []TypeOK
<1>1. Init => IInv
  BY InitInv
<1>2. IInv /\ [NextAssumed]_vars => IInv'
  BY NextInv
<1>3. IInv => TypeOK
  BY DEF IInv
<1> QED BY <1>1, <1>2, <1>3, PTL DEF SpecAssumed

\* No object that the root reaches is removed: for any number of objects and
\* any graph, wherever transactions commit between the steps of the packer
\* and wherever it crashes.
THEOREM PackRemovesNoReachable == SpecAssumed => []NoDanglingReferences
<1>1. Init => IInv
  BY InitInv
<1>2. IInv /\ [NextAssumed]_vars => IInv'
  BY NextInv
<1>3. IInv => NoDanglingReferences
  BY DEF IInv
<1> QED BY <1>1, <1>2, <1>3, PTL DEF SpecAssumed

\* When a pack has nothing left to remove, all that was garbage when
\* pack_object was filled is gone, even where the references of an earlier
\* pack were used.
THEOREM PackCollectsGarbage == SpecAssumed => []CollectsGarbage
<1>1. Init => IInv
  BY InitInv
<1>2. IInv /\ [NextAssumed]_vars => IInv'
  BY NextInv
<1>3. IInv => CollectsGarbage
  BY DEF IInv, PrePackInv, CollectsGarbage
<1> QED BY <1>1, <1>2, <1>3, PTL DEF SpecAssumed
=============================================================================
