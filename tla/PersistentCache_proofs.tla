------------------------ MODULE PersistentCache_proofs ------------------------
(***************************************************************************)
(* Proofs about PersistentCache, for any processes, objects and number of  *)
(* transactions.  That reads are current is proved where the file was      *)
(* saved before and polls do not time out: README.md says what happens     *)
(* otherwise.                                                              *)
(***************************************************************************)
EXTENDS PersistentCache, CachedValues_proofs

(* The inductive invariant. *)

\* The database keeps the first state of every object and no tid that was not
\* committed; the file was saved by a process that had seen no later one.
DatabaseInv ==
    /\ \A o \in Oid : InitTid \in history[o] /\ \A t \in history[o] : t <= dbTid
    /\ checkpoint <= dbTid
    /\ checkpoint # None

\* What a process knows, by where it is.
ProcessInv(p) ==
    /\ hvt[p] <= dbTid
    /\ pc[p] = "down" => hvt[p] = None
    /\ pc[p] \in {"rows", "poll", "remove"} => hvt[p] # None
    /\ pc[p] \in {"down", "rows", "poll", "remove"} => ~ open[p]
    /\ open[p] => hvt[p] # None
    /\ \A o \in Oid :
          /\ ~ open[p] => index[p][o] = None
          /\ hvt[p] = None \/ pc[p] = "rows" => cache[p][o] = {}
          /\ pc[p] = "poll" => \A e, f \in cache[p][o] : e = f

\* After the poll of what was restored, an object of the index has the tid of
\* the snapshot, and the frozen values of the others are the snapshot's or
\* from its future.
SnapshotInv(p, o) ==
    /\ \A e \in cache[p][o] : e.tid \in history[o]
    /\ index[p][o] # None => index[p][o] = TidAt(o, hvt[p])
    /\ index[p][o] = None =>
          \A e \in cache[p][o] : e.frozen /\ e.tid <= hvt[p] => e.tid = TidAt(o, hvt[p])

CacheInv ==
    /\ DatabaseInv
    /\ \A p \in Process :
          /\ ProcessInv(p)
          /\ pc[p] \notin {"rows", "poll"} => \A o \in Oid : SnapshotInv(p, o)

-----------------------------------------------------------------------------
(* Operators. *)

\* The last state of an object in a snapshot that is not empty.
LEMMA TidAtSnapshot ==
    ASSUME TypeOK, NEW o \in Oid, InitTid \in history[o], NEW s \in 1..MaxTid
    PROVE  /\ TidAt(o, s) \in history[o] /\ TidAt(o, s) \in 1..MaxTid /\ TidAt(o, s) <= s
           /\ \A t \in history[o] : t <= s => t <= TidAt(o, s)
<1> DEFINE S == {t \in history[o] : t <= s}
<1>1. S \subseteq 1..MaxTid /\ InitTid \in S
  BY DEF TypeOK, InitTid
<1>2. S \subseteq Nat /\ S # {} /\ s \in Nat /\ \A t \in S : t <= s
  BY <1>1, PersistentAssumption DEF TypeOK
<1>3. Max(S) \in S /\ \A t \in S : t <= Max(S)
  <2> HIDE DEF S
  <2> QED BY <1>2, MaxOfTids
<1> QED BY <1>1, <1>3 DEF TidAt

\* The newest of the values of a cached object is one of them.
LEMMA NewestValueCached ==
    ASSUME TypeOK, NEW p \in Process, NEW o \in Cached(p)
    PROVE  NewestValue(p, o) \in Tids(cache[p][o]) /\ NewestValue(p, o) \in 1..MaxTid
<1> DEFINE S == Tids(cache[p][o])
<1>1. S \subseteq 1..MaxTid /\ S # {}
  BY DEF TypeOK, Cached, Tids
<1>2. S \subseteq Nat /\ MaxTid \in Nat /\ \A t \in S : t <= MaxTid
  BY <1>1, PersistentAssumption
<1>3. Max(S) \in S
  <2> HIDE DEF S
  <2> QED BY <1>1, <1>2, MaxOfTids
<1> QED BY <1>1, <1>3 DEF NewestValue

-----------------------------------------------------------------------------
(* Types. *)

\* The types need that there is always a state to read, and that the tries
\* are not used up.
TypeInv ==
    /\ TypeOK
    /\ \A o \in Oid : InitTid \in history[o]
    /\ \A p \in Process :
          /\ open[p] => hvt[p] # None
          /\ pc[p] \in {"down", "rows", "poll", "remove"} => ~ open[p]
          /\ pc[p] = "remove" => tries[p] # 0

\* A file that was saved or not, and no process that runs.
LEMMA InitTypes ==
    Init => TypeInv
BY PersistentAssumption DEF Init, TypeInv, TypeOK, NoTids, NoValues, Tid, None, InitTid, RemoveTries

\* Restoring keeps the types.
LEMMA RestoreTypes ==
    ASSUME TypeInv, NEW p \in Process, CannotOpen(p) \/ ReadCheckpoint(p) \/ RestoreStep(p)
    PROVE  TypeInv'
<1> USE DEF TypeInv, TypeOK, database, file, memory, call, Goto, Tid
<1>1. CASE CannotOpen(p)
  BY <1>1 DEF CannotOpen
<1>2. CASE ReadCheckpoint(p)
  BY <1>2 DEF ReadCheckpoint
<1>3. ASSUME NEW oids \in SUBSET Oid, ReadRows(p, oids) PROVE TypeInv'
  <2>1. [o \in Oid |-> IF o \in oids THEN {[tid |-> rows[o], frozen |-> TRUE]} ELSE {}]
           \in [Oid -> SUBSET [tid : 1..MaxTid, frozen : BOOLEAN]]
    BY <1>3, PersistentAssumption DEF ReadRows, Stored, None
  <2> QED BY <1>3, <2>1 DEF ReadRows
<1>4. ASSUME NEW found \in SUBSET Oid, PollOldOids(p, found) PROVE TypeInv'
  <2>1. Incorrect(p, found) \subseteq Oid
    BY DEF Incorrect, Cached
  <2>2. [o \in Oid |-> IF o \in Incorrect(p, found) THEN {} ELSE cache[p][o]]
           \in [Oid -> SUBSET [tid : 1..MaxTid, frozen : BOOLEAN]]
    OBVIOUS
  <2> HIDE DEF Incorrect
  <2> QED BY <1>4, <2>1, <2>2 DEF PollOldOids, RemoveTries
<1>5. CASE RemoveInvalid(p)
  BY <1>5, PersistentAssumption DEF RemoveInvalid, Removed, None, RemoveTries
<1>6. CASE FailToRemove(p)
  <2>1. tries[p] \in 1..3 /\ tries' = [tries EXCEPT ![p] = tries[p] - 1]
    BY <1>6 DEF FailToRemove, RemoveTries
  <2>2. tries' \in [Process -> 0..RemoveTries]
    BY <2>1 DEF RemoveTries
  <2>3. CASE tries[p] = 1
    BY <1>6, <2>2, <2>3 DEF FailToRemove, Removed
  <2>4. CASE tries[p] # 1
    BY <1>6, <2>1, <2>2, <2>4 DEF FailToRemove
  <2> QED BY <2>3, <2>4
<1> QED BY <1>1, <1>2, <1>3, <1>4, <1>5, <1>6 DEF RestoreStep

\* Work keeps the types.
LEMMA WorkTypes ==
    ASSUME TypeInv, NEW p \in Process, WorkStep(p)
    PROVE  TypeInv'
<1> DEFINE Values == [tid : 1..MaxTid, frozen : BOOLEAN]
<1>1. \A o \in Oid : cache[p][o] \in SUBSET Values
  BY DEF TypeInv, TypeOK
<1>2. \A v \in SUBSET Values : \A t \in 1..MaxTid : AddingValue(v, t) \in SUBSET Values
  <2>1. \A t \in 1..MaxTid : Value(t) \in Values
    BY DEF Value
  <2> HIDE DEF Values
  <2> QED BY <2>1 DEF AddingValue
<1>3. \A o \in Oid : \A s \in 1..MaxTid : TidAt(o, s) \in 1..MaxTid
  BY TidAtSnapshot DEF TypeInv
<1> HIDE DEF Values
<1>4. ASSUME NEW s \in InitTid..MaxTid, Poll(p, s) PROVE TypeInv'
  <2>1. s \in 1..MaxTid /\ s \in Tid /\ s # None /\ pc[p] = "up"
    BY <1>4, PersistentAssumption DEF Poll, InitTid, Tid, None
  <2>2. CASE hvt[p] \in {None, s}
    BY <1>4, <2>1, <2>2 DEF Poll, TypeInv, TypeOK, database, file, call
  <2>3. CASE hvt[p] \notin {None, s}
    <3> DEFINE new == ChangesAfter(hvt[p], s)
    <3>1. new \in [Oid -> Tid]
      BY <1>3, <2>1, PersistentAssumption DEF ChangesAfter, Tid, None
    <3>2. Vacuumed(p, new) \in [Oid -> SUBSET Values]
      <4>1. \A v \in SUBSET Values : \A t \in Tid :
               /\ DiscardingTidsBefore(v, t) \in SUBSET Values
               /\ FreezeToTid(v, t) \in SUBSET Values
        BY DEF DiscardingTidsBefore, FreezeToTid, Values
      <4>2. index[p] \in [Oid -> Tid]
        BY DEF TypeInv, TypeOK
      <4> HIDE DEF new
      <4> QED BY <1>1, <4>1, <4>2 DEF Vacuumed
    <3> HIDE DEF new
    <3>3. index' = [index EXCEPT ![p] = new] /\ cache' = [cache EXCEPT ![p] = Vacuumed(p, new)]
      BY <1>4, <2>3 DEF Poll, new
    <3> QED BY <1>4, <2>1, <3>1, <3>2, <3>3
            DEF Poll, TypeInv, TypeOK, database, file, call, Values
  <2> QED BY <2>2, <2>3
<1>5. ASSUME NEW o \in Oid, Load(p, o) PROVE TypeInv'
  <2>1. hvt[p] \in 1..MaxTid
    BY <1>5, PersistentAssumption DEF Load, TypeInv, TypeOK, Tid, None
  <2>2. TidAt(o, hvt[p]) \in 1..MaxTid /\ TidAt(o, hvt[p]) \in Tid
    BY <1>3, <2>1, PersistentAssumption DEF Tid
  <2>3. AddingValue(cache[p][o], TidAt(o, hvt[p])) \in SUBSET Values
    BY <1>1, <1>2, <2>2
  <2> QED BY <1>5, <2>2, <2>3 DEF Load, TypeInv, TypeOK, database, file, call, Values
<1>6. ASSUME NEW o \in Oid, Evict(p, o) PROVE TypeInv'
  BY <1>6 DEF Evict, TypeInv, TypeOK, database, file, call
<1>7. ASSUME NEW oids \in SUBSET Oid, Commit(p, oids) PROVE TypeInv'
  <2>1. dbTid + 1 \in 1..MaxTid /\ dbTid' = dbTid + 1
    BY <1>7, PersistentAssumption DEF Commit, Write, TypeInv, TypeOK
  <2>2. history' \in [Oid -> SUBSET (1..MaxTid)] /\ \A o \in Oid : InitTid \in history'[o]
    BY <1>7, <2>1 DEF Commit, Write, TypeInv, TypeOK
  <2>3. [o \in Oid |-> IF o \in oids THEN AddingValue(cache[p][o], dbTid + 1) ELSE cache[p][o]]
           \in [Oid -> SUBSET Values]
    BY <1>1, <1>2, <2>1
  <2> QED BY <1>7, <2>1, <2>2, <2>3 DEF Commit, TypeInv, TypeOK, file, call, Values
<1> QED BY <1>4, <1>5, <1>6, <1>7 DEF WorkStep

\* So does saving, and the end of the process.
LEMMA SaveTypes ==
    ASSUME TypeInv, NEW p \in Process, SaveStep(p) \/ Crash(p)
    PROVE  TypeInv'
<1> USE DEF TypeInv, TypeOK, database, file, memory, call, Goto, Tid
<1>1. CASE StoreTemp(p)
  <2>1. ItemsToWrite(p) \in [Oid -> Tid]
    BY NewestValueCached, PersistentAssumption DEF ItemsToWrite, None
  <2> QED BY <1>1, <2>1 DEF StoreTemp
<1>2. CASE BeginImmediate(p)
  BY <1>2 DEF BeginImmediate
<1>3. NoTids \in [Oid -> Tid] /\ NoValues \in [Oid -> SUBSET [tid : 1..MaxTid, frozen : BOOLEAN]]
  BY PersistentAssumption DEF NoTids, NoValues, None
<1>4. CASE CommitSave(p)
  BY <1>3, <1>4 DEF CommitSave, MoveFromTemp, UpdateCheckpoints
<1>5. ASSUME Exit(p), rows' \in [Oid -> Tid], lock' \in Process \cup {NoProcess},
             UNCHANGED <<database, checkpoint>>
      PROVE  TypeInv'
  <2>1. None \in Tid /\ 0 \in 0..RemoveTries
    BY PersistentAssumption DEF None, RemoveTries
  <2> QED BY <1>3, <1>5, <2>1 DEF Exit
<1>6. CASE Trim(p)
  <2>1. rows' \in [Oid -> Tid]
    BY SMTT(30), <1>6, PersistentAssumption DEF Trim, None
  <2> QED BY <1>5, <1>6, <2>1 DEF Trim
<1>7. CASE Crash(p)
  BY <1>5, <1>7 DEF Crash
<1> QED BY <1>1, <1>2, <1>4, <1>6, <1>7 DEF SaveStep

\* Every step keeps the types.
LEMMA NextTypes ==
    TypeInv /\ [Next]_vars => TypeInv'
<1> SUFFICES ASSUME TypeInv, [Next]_vars PROVE TypeInv'
  OBVIOUS
<1>1. ASSUME NEW oids \in SUBSET Oid, ExternalCommit(oids) PROVE TypeInv'
  BY <1>1, PersistentAssumption DEF ExternalCommit, Write, TypeInv, TypeOK, file, memory, call
<1>2. CASE UNCHANGED vars
  BY <1>2 DEF vars, TypeInv, TypeOK, database, file, memory, call
<1> QED BY <1>1, <1>2, RestoreTypes, WorkTypes, SaveTypes DEF Next

-----------------------------------------------------------------------------
(* Reads are current. *)

Inv == TypeInv /\ CacheInv

\* What an earlier process saved is current at the checkpoint.
LEMMA InitInv ==
    ASSUME Saved = TRUE
    PROVE  Init => Inv
<1> SUFFICES ASSUME Init PROVE CacheInv
  BY InitTypes DEF Inv
<1>1. DatabaseInv
  BY DEF Init, DatabaseInv, InitTid, None
<1>2. ASSUME NEW p \in Process PROVE ProcessInv(p)
  BY DEF Init, ProcessInv, NoTids, NoValues, InitTid, None
<1>3. ASSUME NEW p \in Process, NEW o \in Oid PROVE SnapshotInv(p, o)
  BY DEF Init, SnapshotInv, NoTids, NoValues
<1> QED BY <1>1, <1>2, <1>3 DEF CacheInv

\* A step of one process that writes nothing into the database leaves the
\* others alone.
LEMMA OneProcess ==
    ASSUME Inv, TypeInv', NEW p \in Process, UNCHANGED database,
           checkpoint' <= dbTid, checkpoint' # None,
           \A q \in Process \ {p} : /\ pc'[q] = pc[q] /\ hvt'[q] = hvt[q] /\ open'[q] = open[q]
                                    /\ index'[q] = index[q] /\ cache'[q] = cache[q],
           ProcessInv(p)',
           pc'[p] \notin {"rows", "poll"} => \A o \in Oid : SnapshotInv(p, o)'
    PROVE  Inv'
<1> USE DEF Inv, CacheInv
<1>1. DatabaseInv'
  BY DEF DatabaseInv, database
<1>2. ASSUME NEW q \in Process \ {p} PROVE ProcessInv(q)'
  BY DEF ProcessInv, database
<1>3. ASSUME NEW q \in Process \ {p}, NEW o \in Oid, pc[q] \notin {"rows", "poll"}
      PROVE  SnapshotInv(q, o)'
  <2>1. TidAt(o, hvt[q])' = TidAt(o, hvt[q])
    BY DEF TidAt, database
  <2>2. SnapshotInv(q, o) /\ history' = history
    BY <1>3 DEF database
  <2> QED BY <2>1, <2>2 DEF SnapshotInv
<1> QED BY <1>1, <1>2, <1>3

\* What a process restores is not used before it was checked: what the poll
\* leaves in the cache is what the database has now, so it is from the
\* snapshot of the checkpoint or from its future.
LEMMA RestoreInv ==
    ASSUME PollTimeout = FALSE, Inv, NEW p \in Process,
           CannotOpen(p) \/ ReadCheckpoint(p) \/ RestoreStep(p)
    PROVE  Inv'
<1>0. TypeInv'
  BY RestoreTypes DEF Inv
<1>1. /\ TypeInv /\ TypeOK /\ DatabaseInv /\ ProcessInv(p)
      /\ pc[p] \notin {"rows", "poll"} => \A o \in Oid : SnapshotInv(p, o)
  BY DEF Inv, CacheInv, TypeInv
<1> USE DEF database, file, memory, call, Goto
<1>2. CASE CannotOpen(p)
  <2>1. ProcessInv(p)' /\ \A o \in Oid : SnapshotInv(p, o)'
    BY <1>1, <1>2 DEF CannotOpen, TypeOK, ProcessInv, SnapshotInv, TidAt
  <2> QED BY <1>0, <1>1, <1>2, <2>1, OneProcess DEF CannotOpen, TypeOK, DatabaseInv
<1>3. CASE ReadCheckpoint(p)
  <2>1. ProcessInv(p)'
    BY <1>1, <1>3 DEF ReadCheckpoint, TypeOK, ProcessInv, DatabaseInv
  <2>2. pc'[p] = "rows"
    BY <1>1, <1>3 DEF ReadCheckpoint, TypeOK
  <2> QED BY <1>0, <1>1, <1>3, <2>1, <2>2, OneProcess DEF ReadCheckpoint, TypeOK, DatabaseInv
<1>4. ASSUME NEW oids \in SUBSET Oid, ReadRows(p, oids) PROVE Inv'
  <2>1. pc'[p] = "poll"
    BY <1>1, <1>4 DEF ReadRows, TypeOK, ProcessInv
  <2>2. ProcessInv(p)'
    BY <1>1, <1>4, <2>1 DEF ReadRows, TypeOK, ProcessInv
  <2> QED BY <1>0, <1>1, <1>4, <2>1, <2>2, OneProcess DEF ReadRows, TypeOK, DatabaseInv
<1>5. ASSUME NEW found \in SUBSET Oid, PollOldOids(p, found) PROVE Inv'
  <2> DEFINE invalid == Incorrect(p, found)
  <2>1. /\ pc[p] = "poll" /\ found = Cached(p) /\ hvt[p] # None
        /\ pc'[p] \in {"up", "remove"}
        /\ \A o \in Oid : cache'[p][o] = IF o \in invalid THEN {} ELSE cache[p][o]
        /\ UNCHANGED <<database, file, hvt, open, index, temp>>
    BY <1>1, <1>5 DEF PollOldOids, TypeOK, ProcessInv
  <2>2. ProcessInv(p)'
    <3> HIDE DEF invalid
    <3> QED BY <1>1, <2>1 DEF ProcessInv
  <2>3. ASSUME NEW o \in Oid PROVE SnapshotInv(p, o)'
    <3>1. InitTid \in history[o] /\ hvt[p] \in 1..MaxTid /\ dbTid \in 1..MaxTid /\ hvt[p] <= dbTid
      BY <1>1, <2>1, PersistentAssumption DEF TypeOK, Tid, None, ProcessInv, DatabaseInv
    <3>2. /\ TidAt(o, dbTid) \in history[o] /\ TidAt(o, dbTid) \in 1..MaxTid
          /\ TidAt(o, dbTid) <= dbTid
          /\ \A t \in history[o] : t <= dbTid => t <= TidAt(o, dbTid)
      BY <1>1, <3>1, TidAtSnapshot
    <3>3. /\ TidAt(o, hvt[p]) \in history[o] /\ TidAt(o, hvt[p]) \in 1..MaxTid
          /\ TidAt(o, hvt[p]) <= hvt[p]
          /\ \A t \in history[o] : t <= hvt[p] => t <= TidAt(o, hvt[p])
      BY <1>1, <3>1, TidAtSnapshot
    <3>4. TidAt(o, hvt[p])' = TidAt(o, hvt[p]) /\ history' = history /\ hvt' = hvt
      BY <2>1 DEF TidAt
    <3>5. index'[p][o] = None
      BY <1>1, <2>1 DEF ProcessInv
    <3>6. ASSUME NEW e \in cache'[p][o] PROVE e.tid = TidAt(o, dbTid)
      <4>1. e \in cache[p][o] /\ o \in Cached(p) /\ o \notin invalid
        BY <2>1, <3>6 DEF Cached
      <4>2. MatchingTid(cache[p][o], TidAt(o, dbTid)) # {}
        BY <2>1, <4>1 DEF Incorrect
      <4>3. TidAt(o, dbTid) # None
        BY <3>2 DEF None
      <4>4. TidAt(o, dbTid) \in Tids(cache[p][o])
        <5> HIDE DEF invalid
        <5> QED BY <4>2, <4>3 DEF MatchingTid
      <4> QED BY <1>1, <2>1, <4>1, <4>4 DEF ProcessInv, Tids
    <3>7. \A e \in cache'[p][o] : e.tid \in history[o]
                                  /\ (e.tid <= hvt[p] => e.tid = TidAt(o, hvt[p]))
      <4>1. TidAt(o, dbTid) <= hvt[p] => TidAt(o, dbTid) = TidAt(o, hvt[p])
        BY <3>1, <3>2, <3>3
      <4> QED BY <3>2, <3>6, <4>1
    <3> QED BY <3>4, <3>5, <3>7 DEF SnapshotInv
  <2>4. \A q \in Process \ {p} : /\ pc'[q] = pc[q] /\ hvt'[q] = hvt[q] /\ open'[q] = open[q]
                                 /\ index'[q] = index[q] /\ cache'[q] = cache[q]
    BY <1>1, <1>5 DEF PollOldOids, TypeOK
  <2> QED BY <1>0, <1>1, <2>1, <2>2, <2>3, <2>4, OneProcess DEF DatabaseInv
<1>6. ASSUME UNCHANGED <<database, checkpoint, memory>>, pc[p] = "remove",
             pc' = [pc EXCEPT ![p] = "up"] \/ UNCHANGED pc
      PROVE  Inv'
  <2>0. pc'[p] \in {"remove", "up"}
    BY <1>1, <1>6 DEF TypeOK
  <2>1. ProcessInv(p)' /\ \A o \in Oid : SnapshotInv(p, o)'
    <3>1. ProcessInv(p)'
      BY <1>1, <1>6, <2>0 DEF ProcessInv
    <3>2. \A o \in Oid : SnapshotInv(p, o)'
      BY <1>1, <1>6 DEF SnapshotInv, TidAt
    <3> QED BY <3>1, <3>2
  <2>2. \A q \in Process \ {p} : pc'[q] = pc[q]
    BY <1>1, <1>6 DEF TypeOK
  <2> QED BY <1>0, <1>1, <1>6, <2>1, <2>2, OneProcess DEF DatabaseInv
<1>7. CASE RemoveInvalid(p) \/ FailToRemove(p)
  BY <1>6, <1>7 DEF RemoveInvalid, FailToRemove, Removed
<1> QED BY <1>2, <1>3, <1>4, <1>5, <1>7 DEF RestoreStep

\* A commit adds a tid that no snapshot shows yet.
LEMMA WriteKeepsSnapshots ==
    ASSUME Inv, TypeInv', NEW oids \in SUBSET Oid, Write(oids), UNCHANGED <<checkpoint, hvt>>
    PROVE  /\ DatabaseInv'
           /\ \A o \in Oid : history[o] \subseteq history'[o]
           /\ \A o \in oids : dbTid + 1 \in history'[o]
           /\ \A o \in Oid, p \in Process : TidAt(o, hvt[p])' = TidAt(o, hvt[p])
<1> USE DEF Inv, CacheInv, TypeInv, TypeOK, Write
<1>1. DatabaseInv'
  BY DEF DatabaseInv, Tid
<1>2. ASSUME NEW o \in Oid, NEW p \in Process
      PROVE  TidAt(o, hvt[p])' = TidAt(o, hvt[p])
  <2>1. hvt[p] <= dbTid /\ hvt[p] \in Int
    BY DEF ProcessInv, Tid
  <2>2. {t \in history'[o] : t <= hvt'[p]} = {t \in history[o] : t <= hvt[p]}
    BY <2>1
  <2> QED BY <2>2 DEF TidAt
<1> QED BY <1>1, <1>2

\* A step that commits and adds to the cache of one process what it wrote, or
\* leaves the caches alone.
LEMMA CommitInv ==
    ASSUME Inv, TypeInv', NEW oids \in SUBSET Oid, Write(oids), NEW p \in Process,
           UNCHANGED <<file, pc, hvt, open, index, call>>,
           \/ UNCHANGED cache
           \/ /\ pc[p] = "up" /\ open[p]
              /\ cache' = [cache EXCEPT ![p] = [o \in Oid |->
                    IF o \in oids THEN AddingValue(@[o], dbTid + 1) ELSE @[o]]]
    PROVE  Inv'
<1> USE DEF file
<1>1. /\ DatabaseInv'
      /\ \A o \in Oid : history[o] \subseteq history'[o]
      /\ \A o \in oids : dbTid + 1 \in history'[o]
      /\ \A o \in Oid, q \in Process : TidAt(o, hvt[q])' = TidAt(o, hvt[q])
  BY WriteKeepsSnapshots
<1>2. \A q \in Process, o \in Oid :
         \/ cache'[q][o] = cache[q][o]
         \/ /\ pc[q] = "up" /\ open[q] /\ o \in oids
            /\ cache'[q][o] = AddingValue(cache[q][o], dbTid + 1)
  <2>1. CASE UNCHANGED cache
    BY <2>1
  <2>2. CASE /\ pc[p] = "up" /\ open[p]
             /\ cache' = [cache EXCEPT ![p] = [o \in Oid |->
                   IF o \in oids THEN AddingValue(@[o], dbTid + 1) ELSE @[o]]]
    BY <2>2 DEF Inv, TypeInv, TypeOK
  <2> QED BY <2>1, <2>2
<1>3. ASSUME NEW q \in Process PROVE ProcessInv(q)'
  <2>1. ProcessInv(q) /\ hvt[q] <= dbTid' /\ dbTid \in Int /\ hvt[q] \in Int
    BY DEF Inv, CacheInv, TypeInv, TypeOK, Tid, ProcessInv, Write
  <2>2. \A o \in Oid : hvt[q] = None \/ pc[q] \in {"rows", "poll"} => cache'[q][o] = cache[q][o]
    BY <1>2, <2>1 DEF ProcessInv
  <2> QED BY <2>1, <2>2 DEF ProcessInv
<1>4. ASSUME NEW q \in Process, pc[q] \notin {"rows", "poll"}, NEW o \in Oid
      PROVE  SnapshotInv(q, o)'
  <2>1. SnapshotInv(q, o) /\ TidAt(o, hvt[q])' = TidAt(o, hvt[q]) /\ history[o] \subseteq history'[o]
    BY <1>1, <1>4 DEF Inv, CacheInv
  <2>2. CASE cache'[q][o] = cache[q][o]
    BY <2>1, <2>2 DEF SnapshotInv
  <2>3. CASE o \in oids /\ cache'[q][o] = AddingValue(cache[q][o], dbTid + 1)
    <3>1. ASSUME NEW e \in cache'[q][o]
          PROVE  e \in cache[q][o] \/ (e.tid = dbTid + 1 /\ e.frozen = FALSE)
      <4>1. e \in AddingValue(cache[q][o], dbTid + 1)
        BY <2>3, <3>1
      <4>2. e \in cache[q][o] \/ e = Value(dbTid + 1)
        BY <4>1, AddingValueAdds
      <4> QED BY <4>2 DEF Value
    <3> QED BY <1>1, <2>1, <2>3, <3>1 DEF SnapshotInv
  <2> QED BY <1>2, <2>2, <2>3
<1> QED BY <1>1, <1>3, <1>4 DEF Inv, CacheInv

\* The viewer polls.  An object without an entry in the new index did not
\* change since the old one, which froze what it had.
LEMMA PollInv ==
    ASSUME Inv, TypeInv', NEW p \in Process, NEW s \in InitTid..MaxTid, Poll(p, s)
    PROVE  Inv'
<1>1. /\ TypeOK /\ DatabaseInv /\ ProcessInv(p) /\ \A o \in Oid : SnapshotInv(p, o)
  BY DEF Inv, CacheInv, TypeInv, Poll
<1>2. /\ pc[p] = "up" /\ s \in 1..MaxTid /\ s \in Int /\ s <= dbTid /\ s # None /\ hvt[p] <= s
      /\ hvt'[p] = s /\ open'[p] = TRUE
      /\ UNCHANGED <<history, dbTid, checkpoint, pc>>
  BY <1>1, PersistentAssumption DEF Poll, TypeOK, Tid, InitTid, None, database, file
<1>3. \A q \in Process \ {p} : /\ pc'[q] = pc[q] /\ hvt'[q] = hvt[q] /\ open'[q] = open[q]
                               /\ index'[q] = index[q] /\ cache'[q] = cache[q]
  <2>1. CASE hvt[p] \in {None, s}
    BY <1>1, <2>1 DEF Poll, TypeOK
  <2>2. CASE hvt[p] \notin {None, s}
    <3>1. PICK new, values : /\ index' = [index EXCEPT ![p] = new]
                             /\ cache' = [cache EXCEPT ![p] = values]
                             /\ hvt' = [hvt EXCEPT ![p] = s]
                             /\ open' = [open EXCEPT ![p] = TRUE]
                             /\ pc' = pc
      BY <2>2 DEF Poll
    <3> QED BY <1>1, <3>1 DEF TypeOK
  <2> QED BY <2>1, <2>2
<1>4. ProcessInv(p)'
  BY <1>2 DEF ProcessInv
<1>5. ASSUME NEW o \in Oid PROVE SnapshotInv(p, o)'
  <2> DEFINE T == TidAt(o, s)
             i == index[p][o]
  <2>1. SnapshotInv(p, o) /\ InitTid \in history[o] /\ TidAt(o, hvt[p])' = T
    BY <1>1, <1>2 DEF DatabaseInv, TidAt
  <2>2. T \in history[o] /\ T \in 1..MaxTid /\ T <= s /\ \A t \in history[o] : t <= s => t <= T
    BY <1>1, <1>2, <2>1, TidAtSnapshot
  <2>3. CASE hvt[p] = None
    <3>1. index'[p][o] = None /\ cache'[p][o] = {}
      BY <1>1, <2>3 DEF Poll, ProcessInv, TypeOK
    <3> QED BY <3>1 DEF SnapshotInv
  <2>4. CASE hvt[p] = s
    <3>1. index' = index /\ cache' = cache /\ TidAt(o, hvt[p]) = T /\ hvt'[p] = hvt[p]
      BY <1>2, <2>4 DEF Poll
    <3> QED BY <1>2, <2>1, <3>1 DEF SnapshotInv
  <2>5. CASE hvt[p] \notin {None, s}
    <3> DEFINE T0 == TidAt(o, hvt[p])
               new == IF T > hvt[p] THEN T ELSE None
    <3>1. hvt[p] \in 1..MaxTid
      BY <1>1, <2>5, PersistentAssumption DEF TypeOK, Tid, None
    <3>2. T0 \in history[o] /\ T0 \in 1..MaxTid /\ T0 <= hvt[p]
          /\ \A t \in history[o] : t <= hvt[p] => t <= T0
      BY <1>1, <2>1, <3>1, TidAtSnapshot
    <3>3. /\ index'[p][o] = new
          /\ cache'[p][o] = IF i = None THEN cache[p][o]
                            ELSE IF new \notin {None, i} THEN DiscardingTidsBefore(cache[p][o], i)
                                 ELSE FreezeToTid(cache[p][o], i)
      <4>1. /\ index' = [index EXCEPT ![p] = ChangesAfter(hvt[p], s)]
            /\ cache' = [cache EXCEPT ![p] = Vacuumed(p, ChangesAfter(hvt[p], s))]
        BY <2>5 DEF Poll
      <4>2. ChangesAfter(hvt[p], s)[o] = new
        BY DEF ChangesAfter
      <4> QED BY <1>1, <4>1, <4>2 DEF TypeOK, Vacuumed
    <3>4. cache[p][o] \subseteq [tid : 1..MaxTid, frozen : BOOLEAN]
      BY <1>1 DEF TypeOK
    <3>5. ASSUME NEW x \in cache'[p][o] PROVE \E e \in cache[p][o] : x.tid = e.tid
      <4>1. CASE x \in cache[p][o]
        BY <4>1
      <4>2. CASE x \in DiscardingTidsBefore(cache[p][o], i)
        BY <4>1, <4>2, DiscardingKeeps
      <4>3. CASE x \in FreezeToTid(cache[p][o], i)
        BY <3>4, <4>3, FreezeToTidKeeps
      <4> HIDE DEF new, i
      <4> QED BY <3>3, <3>5, <4>1, <4>2, <4>3
    <3>6. T <= hvt[p] => T = T0
      <4>1. T0 <= T
        BY <1>2, <2>2, <3>1, <3>2
      <4>2. T <= hvt[p] => T <= T0
        BY <2>2, <3>2
      <4> HIDE DEF T, T0
      <4> QED BY <2>2, <3>2, <4>1, <4>2
    <3>7. \A x \in cache'[p][o] : x.tid \in history'[o] /\ x.tid \in 1..MaxTid
      BY <1>2, <2>1, <3>4, <3>5 DEF SnapshotInv
    <3>8. index'[p][o] # None => index'[p][o] = T
      BY <3>3
    <3>9. ASSUME index'[p][o] = None, NEW x \in cache'[p][o], x.frozen, x.tid <= s
          PROVE  x.tid = T
      <4>1. T <= hvt[p] /\ new = None
        BY <2>2, <3>1, <3>3, <3>9 DEF None
      <4>2. x.tid <= T
        BY <1>2, <2>2, <3>7, <3>9
      <4>3. CASE i = None
        <5>1. x \in cache[p][o] /\ x.tid <= hvt[p]
          BY <2>2, <3>1, <3>3, <3>7, <3>9, <4>1, <4>2, <4>3
        <5> QED BY <2>1, <3>6, <3>9, <4>1, <4>3, <5>1 DEF SnapshotInv
      <4>4. CASE i # None
        <5>1. x \in FreezeToTid(cache[p][o], i) /\ i = T
          BY <2>1, <3>3, <3>6, <4>1, <4>4 DEF SnapshotInv
        <5>2. PICK e \in cache[p][o] : x.tid = e.tid /\ e.tid >= i
          BY <3>4, <5>1, FreezeToTidKeeps
        <5>3. x.tid >= T
          BY <5>1, <5>2
        <5> HIDE DEF T
        <5> QED BY <2>2, <3>7, <4>2, <5>3
      <4> QED BY <4>3, <4>4
    <3> HIDE DEF T, T0, i, new
    <3> QED BY <1>2, <2>1, <3>7, <3>8, <3>9 DEF SnapshotInv
  <2> QED BY <2>3, <2>4, <2>5
<1> QED BY <1>1, <1>2, <1>3, <1>4, <1>5, OneProcess DEF DatabaseInv, database

\* A load that misses reads the database in the snapshot.
LEMMA LoadInv ==
    ASSUME Inv, TypeInv', NEW p \in Process, NEW o \in Oid, Load(p, o) \/ Evict(p, o)
    PROVE  Inv'
<1>1. /\ TypeOK /\ DatabaseInv /\ ProcessInv(p) /\ \A u \in Oid : SnapshotInv(p, u)
  BY DEF Inv, CacheInv, TypeInv, Load, Evict
<1>2. /\ pc[p] = "up" /\ UNCHANGED <<database, checkpoint, pc, hvt, open>>
      /\ \A q \in Process \ {p} : index'[q] = index[q] /\ cache'[q] = cache[q]
      /\ \A u \in Oid \ {o} : index'[p][u] = index[p][u] /\ cache'[p][u] = cache[p][u]
  BY <1>1 DEF Load, Evict, TypeOK, file
<1>3. \A u \in Oid : TidAt(u, hvt[p])' = TidAt(u, hvt[p])
  BY <1>2 DEF TidAt, database
<1>4. CASE Load(p, o)
  <2> DEFINE T == TidAt(o, hvt[p])
  <2>1. open[p] /\ index'[p][o] = T /\ cache'[p][o] = AddingValue(cache[p][o], T)
    BY <1>1, <1>4 DEF Load, TypeOK
  <2>2. hvt[p] \in 1..MaxTid /\ InitTid \in history[o] /\ hvt[p] # None
    BY <1>1, <2>1, PersistentAssumption DEF ProcessInv, TypeOK, Tid, None, DatabaseInv
  <2>3. T \in history[o] /\ T # None
    BY <1>1, <2>2, TidAtSnapshot DEF None
  <2>4. ASSUME NEW e \in cache'[p][o] PROVE e.tid \in history[o]
    <3>1. e \in AddingValue(cache[p][o], T)
      BY <2>1, <2>4
    <3>2. e \in cache[p][o] \/ e = Value(T)
      BY <3>1, AddingValueAdds
    <3> QED BY <1>1, <2>3, <3>2 DEF SnapshotInv, Value
  <2>5. SnapshotInv(p, o)'
    BY <1>2, <1>3, <2>1, <2>3, <2>4 DEF SnapshotInv, database
  <2>6. ASSUME NEW u \in Oid \ {o} PROVE SnapshotInv(p, u)'
    BY <1>1, <1>2, <1>3 DEF SnapshotInv, database
  <2>7. ProcessInv(p)'
    BY <1>1, <1>2, <2>1, <2>2 DEF ProcessInv, database
  <2> QED BY <1>1, <1>2, <2>5, <2>6, <2>7, OneProcess DEF DatabaseInv
<1>5. CASE Evict(p, o)
  <2>1. index' = index /\ cache'[p][o] = {}
    BY <1>1, <1>5 DEF Evict, TypeOK
  <2>2. \A u \in Oid : SnapshotInv(p, u)'
    BY <1>1, <1>2, <1>3, <2>1 DEF SnapshotInv, database
  <2>3. ProcessInv(p)'
    BY <1>1, <1>2, <2>1 DEF ProcessInv, database
  <2> QED BY <1>1, <1>2, <2>2, <2>3, OneProcess DEF DatabaseInv
<1> QED BY <1>4, <1>5

\* Saving leaves the memory of the process as it is, until it ends.
LEMMA SaveInv ==
    ASSUME Inv, NEW p \in Process, SaveStep(p) \/ Crash(p)
    PROVE  Inv'
<1>0. TypeInv'
  BY SaveTypes DEF Inv
<1>1. /\ TypeOK /\ DatabaseInv /\ ProcessInv(p)
      /\ pc[p] \notin {"rows", "poll"} => \A o \in Oid : SnapshotInv(p, o)
  BY DEF Inv, CacheInv, TypeInv
<1>2. ASSUME pc[p] \in {"up", "stored", "locked"}, UNCHANGED <<database, memory>>,
             NEW l \in {"stored", "locked", "trim"}, Goto(p, l),
             checkpoint' \in {checkpoint, hvt[p]}, checkpoint' # None
      PROVE  Inv'
  <2>1. \A q \in Process \ {p} : pc'[q] = pc[q]
    BY <1>1, <1>2 DEF Goto, TypeOK
  <2>2. pc'[p] = l
    BY <1>1, <1>2 DEF Goto, TypeOK
  <2>3. ProcessInv(p)'
    BY <1>1, <1>2, <2>2 DEF ProcessInv, memory, database
  <2>4. \A o \in Oid : SnapshotInv(p, o)'
    BY <1>1, <1>2 DEF SnapshotInv, TidAt, memory, database
  <2>5. checkpoint' <= dbTid
    BY <1>1, <1>2 DEF DatabaseInv, ProcessInv
  <2> QED BY <1>0, <1>2, <2>1, <2>3, <2>4, <2>5, OneProcess DEF memory
<1>3. CASE StoreTemp(p)
  BY <1>1, <1>2, <1>3 DEF StoreTemp, file, DatabaseInv
<1>4. CASE BeginImmediate(p)
  BY <1>1, <1>2, <1>4 DEF BeginImmediate, DatabaseInv
<1>5. CASE CommitSave(p)
  <2>1. checkpoint' \in {checkpoint, hvt[p]} /\ checkpoint' # None
    BY <1>1, <1>5 DEF CommitSave, UpdateCheckpoints, DatabaseInv, TypeOK, Tid, None
  <2> QED BY <1>2, <1>5, <2>1 DEF CommitSave
<1>6. ASSUME Exit(p), UNCHANGED <<database, checkpoint>> PROVE Inv'
  <2>1. /\ pc'[p] = "down" /\ hvt'[p] = None /\ open'[p] = FALSE
        /\ \A o \in Oid : index'[p][o] = None /\ cache'[p][o] = {}
        /\ \A q \in Process \ {p} : /\ pc'[q] = pc[q] /\ hvt'[q] = hvt[q] /\ open'[q] = open[q]
                                    /\ index'[q] = index[q] /\ cache'[q] = cache[q]
    BY <1>1, <1>6 DEF Exit, Goto, TypeOK, NoTids, NoValues
  <2>2. ProcessInv(p)' /\ \A o \in Oid : SnapshotInv(p, o)'
    BY <1>1, <1>6, <2>1, PersistentAssumption DEF ProcessInv, SnapshotInv, TypeOK, None, database
  <2> QED BY <1>0, <1>1, <1>6, <2>1, <2>2, OneProcess DEF DatabaseInv
<1>7. CASE Trim(p) \/ Crash(p)
  BY <1>6, <1>7 DEF Trim, Crash
<1> QED BY <1>3, <1>4, <1>5, <1>7 DEF SaveStep

\* Every step keeps what the file and the caches say true.
LEMMA NextInv ==
    ASSUME PollTimeout = FALSE
    PROVE  Inv /\ [Next]_vars => Inv'
<1> SUFFICES ASSUME Inv, [Next]_vars PROVE Inv'
  OBVIOUS
<1>1. TypeInv'
  BY NextTypes DEF Inv
<1>2. ASSUME NEW p \in Process, WorkStep(p) PROVE Inv'
  <2>1. ASSUME NEW s \in InitTid..MaxTid, Poll(p, s) PROVE Inv'
    BY <1>1, <2>1, PollInv
  <2>2. ASSUME NEW o \in Oid, Load(p, o) \/ Evict(p, o) PROVE Inv'
    BY <1>1, <2>2, LoadInv
  <2>3. ASSUME NEW oids \in SUBSET Oid, Commit(p, oids) PROVE Inv'
    BY <1>1, <2>3, CommitInv DEF Commit
  <2> QED BY <1>2, <2>1, <2>2, <2>3 DEF WorkStep
<1>3. ASSUME NEW oids \in SUBSET Oid, ExternalCommit(oids) PROVE Inv'
  <2>1. CASE Process = {}
    BY <1>1, <1>3, <2>1, WriteKeepsSnapshots DEF ExternalCommit, Inv, CacheInv, file, memory
  <2>2. CASE Process # {}
    BY <1>1, <1>3, <2>2, CommitInv DEF ExternalCommit, memory
  <2> QED BY <2>1, <2>2
<1>4. CASE UNCHANGED vars
  BY <1>1, <1>4 DEF vars, database, file, memory, call, Inv, CacheInv, DatabaseInv, ProcessInv,
     SnapshotInv, TidAt
<1> QED BY <1>2, <1>3, <1>4, RestoreInv, SaveInv DEF Next

-----------------------------------------------------------------------------
(* The theorems. *)

\* The types and stages hold in every deployment.
LEMMA TypeInvariant ==
    Spec => []TypeInv
BY InitTypes, NextTypes, PTL DEF Spec

\* Every variable keeps its type: no snapshot is empty, and nothing tries
\* more often than it may to clean the file.
THEOREM PersistentTypes == Spec => []TypeOK
<1>1. TypeInv => TypeOK
  BY DEF TypeInv
<1> QED BY <1>1, TypeInvariant, PTL

\* However many processes save, in whatever order and however late, no row of
\* the file is replaced by an older one.
THEOREM RowsNeverGoBack == Spec => RowsMoveForward
<1>1. TypeInv /\ [Next]_vars => [\A o \in Oid : rows'[o] # None => rows'[o] >= rows[o]]_vars
  <2> SUFFICES ASSUME TypeInv, Next, NEW o \in Oid, rows'[o] # None
               PROVE  rows'[o] >= rows[o]
    BY DEF vars
  <2>1. rows[o] \in Nat /\ \A p \in Process : temp[p][o] \in Nat
    BY PersistentAssumption DEF TypeInv, TypeOK, Tid
  <2>2. CASE UNCHANGED rows
    BY <2>1, <2>2
  <2>3. ASSUME NEW p \in Process, CommitSave(p) PROVE rows'[o] >= rows[o]
    BY <2>1, <2>3 DEF CommitSave, MoveFromTemp
  <2>4. ASSUME NEW p \in Process, RemoveInvalid(p) \/ Trim(p) PROVE rows'[o] >= rows[o]
    BY <2>1, <2>4 DEF RemoveInvalid, Trim
  <2>5. UNCHANGED rows \/ \E p \in Process : CommitSave(p) \/ RemoveInvalid(p) \/ Trim(p)
    BY DEF Next, CannotOpen, ReadCheckpoint, RestoreStep, ReadRows, PollOldOids, FailToRemove,
       WorkStep, Poll, Load, Evict, Commit, SaveStep, StoreTemp, BeginImmediate, Crash,
       ExternalCommit, file
  <2> QED BY <2>2, <2>3, <2>4, <2>5
<1> QED BY <1>1, TypeInvariant, PTL DEF Spec, RowsMoveForward

\* The checkpoint from which the next process polls never goes back.
THEOREM CheckpointNeverGoesBack == Spec => CheckpointMovesForward
<1>1. TypeInv /\ [Next]_vars => [checkpoint' >= checkpoint]_vars
  <2> SUFFICES ASSUME TypeInv, Next PROVE checkpoint' >= checkpoint
    BY DEF vars
  <2>1. checkpoint \in Nat /\ \A p \in Process : hvt[p] \in Nat
    BY PersistentAssumption DEF TypeInv, TypeOK, Tid
  <2>2. CASE UNCHANGED checkpoint
    BY <2>1, <2>2
  <2>3. ASSUME NEW p \in Process, CommitSave(p) PROVE checkpoint' >= checkpoint
    BY <2>1, <2>3 DEF CommitSave, UpdateCheckpoints
  <2>4. UNCHANGED checkpoint \/ \E p \in Process : CommitSave(p)
    BY DEF Next, CannotOpen, ReadCheckpoint, RestoreStep, ReadRows, PollOldOids, RemoveInvalid,
       FailToRemove, WorkStep, Poll, Load, Evict, Commit, SaveStep, StoreTemp, BeginImmediate,
       Trim, Crash, ExternalCommit, file
  <2> QED BY <2>2, <2>3, <2>4
<1> QED BY <1>1, TypeInvariant, PTL DEF Spec, CheckpointMovesForward

\* What a viewer gets from a cache that was restored is the state of its
\* snapshot, if the file was saved before and the poll did not time out.
THEOREM RestoredReadsAreCurrent ==
    ASSUME Saved = TRUE, PollTimeout = FALSE
    PROVE  Spec => []ReadsCurrent
<1>1. Spec => []Inv
  <2>1. Init => Inv
    BY InitInv
  <2>2. Inv /\ [Next]_vars => Inv'
    BY NextInv
  <2> QED BY <2>1, <2>2, PTL DEF Spec
<1>2. Inv => ReadsCurrent
  <2> SUFFICES ASSUME Inv, NEW p \in Process, pc[p] = "up", open[p], NEW o \in Oid,
                      NEW t \in Hits(p, o)
               PROVE  t = TidAt(o, hvt[p])
    BY DEF ReadsCurrent
  <2>1. SnapshotInv(p, o) /\ cache[p][o] \subseteq [tid : 1..MaxTid, frozen : BOOLEAN]
    BY DEF Inv, CacheInv, TypeInv, TypeOK
  <2>2. t \in MatchingTid(cache[p][o], index[p][o]) /\ (index[p][o] = None => t <= hvt[p])
    BY DEF Hits
  <2>3. PICK e \in cache[p][o] :
           e.tid = t /\ (IF index[p][o] # None THEN t = index[p][o] ELSE e.frozen)
    BY <2>1, <2>2, MatchingTidFinds, PersistentAssumption
  <2> QED BY <2>1, <2>2, <2>3 DEF SnapshotInv
<1> QED BY <1>1, <1>2, PTL

=============================================================================
