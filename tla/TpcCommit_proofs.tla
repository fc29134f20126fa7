-------------------------- MODULE TpcCommit_proofs --------------------------
(***************************************************************************)
(* Proofs about TpcCommit: type correctness, the order in which tids       *)
(* become visible and the agreement of the tables, for all transactions;   *)
(* no lost update, stable readCurrent() checks, no deadlock of writers and *)
(* the implementation of AtomicCommit, for transactions that store.        *)
(***************************************************************************)
EXTENDS TpcCommit, FiniteSetTheorems, TLAPS

-----------------------------------------------------------------------------
(* The inductive invariant of SpecStores. *)

\* A tid is allocated under the commit lock, and only in its last phases.
TidInv ==
    /\ \A c \in Client : tid[c] # 0 =>
          /\ commitLock = c
          /\ phase[c] \in {"prepared", "moved"}
          /\ tid[c] <= MaxTid
          /\ \A s \in txns : s < tid[c]
    /\ \A c \in Client : phase[c] \in {"prepared", "moved"} => tid[c] # 0

\* The lock table grants no conflicting locks.
LockInv ==
    \A c, d \in Client : c # d => exclusive[c] \cap (exclusive[d] \cup shared[d]) = {}

\* current_object and object_state agree, and belong to committed tids.
TableInv ==
    /\ \A r \in rows : r.tid <= current[r.oid] /\ r.tid # 0
    /\ \A o \in Oid : current[o] # 0 =>
          /\ current[o] \in txns
          /\ \E r \in rows : r.oid = o /\ r.tid = current[o]

\* No transaction uses undo.
UndoInv == \A c \in Client : undone[c] = {} /\ undoing[c] = 0 /\ phase[c] # "undo"

\* What is in a snapshot exists; what is new in the snapshot of the instance
\* that owns its oid is new in the database.
ViewInv ==
    \A c \in Client, o \in Oid :
        /\ view[c][o] # 0 => current[o] # 0
        /\ phase[c] # "idle" /\ view[c][o] = 0 /\ Owner[o] = c => current[o] = 0

\* Stored and readCurrent() objects come from the snapshot.
TempInv ==
    \A c \in Client, o \in Oid :
        /\ temp[c][o] # Unset => phase[c] # "idle"
        /\ temp[c][o] = 0 => view[c][o] = 0 /\ Owner[o] = c
        /\ temp[c][o] # Unset /\ temp[c][o] # 0 => current[o] # 0
        /\ required[c][o] # Unset => current[o] # 0

\* Rows to be modified stay locked from conflict detection on.
ExclusiveInv ==
    \A c \in Client, o \in Oid :
        phase[c] \in Validated \cup {"resolve"} /\ temp[c][o] # Unset /\ temp[c][o] # 0
            => o \in exclusive[c]

\* During conflict resolution the conflicts are the committed tids, and the
\* rest of the stored objects have none.
ConflictInv ==
    \A c \in Client, o \in Oid : phase[c] = "resolve" =>
        /\ conflicts[c][o] # Unset =>
              temp[c][o] # Unset /\ temp[c][o] # 0 /\ conflicts[c][o] = current[o]
        /\ conflicts[c][o] = Unset /\ temp[c][o] # Unset => temp[c][o] = current[o]

\* A validated transaction would replace the current revisions.
ValidInv ==
    \A c \in Client, o \in Oid :
        phase[c] \in Validated /\ temp[c][o] # Unset => temp[c][o] = current[o]

\* readCurrent() objects stay locked, and stay what they were checked to be.
ReadInv ==
    \A c \in Client, o \in Oid : required[c][o] # Unset =>
        /\ phase[c] \in Validated \cup {"recheck", "exclusive", "resolve"} => o \in shared[c]
        /\ phase[c] \in Validated \cup {"exclusive", "resolve"} => current[o] = required[c][o]

IInv ==
    /\ TypeOK
    /\ TidInv
    /\ LockInv
    /\ TableInv
    /\ UndoInv
    /\ ViewInv
    /\ TempInv
    /\ ExclusiveInv
    /\ ConflictInv
    /\ ValidInv
    /\ ReadInv
    /\ NoLostUpdate

\* tpc_begin takes a snapshot: what it holds exists.
LEMMA TpcBeginInv ==
    ASSUME IInv, NEW c \in Client, TpcBegin(c)
    PROVE  IInv'
<1> USE ConstantsAssumption DEF IInv, TypeOK, Unset, Phases, Validated, database, locks,
      local, Goto, TpcBegin
<1>1. TypeOK'
  OBVIOUS
<1>2. ViewInv'
  BY DEF ViewInv
<1>3. TempInv'
  BY DEF TempInv
<1>4. TidInv' /\ LockInv' /\ TableInv' /\ UndoInv' /\ ExclusiveInv' /\ ConflictInv'
      /\ ValidInv' /\ ReadInv' /\ NoLostUpdate'
  BY DEF TidInv, LockInv, TableInv, UndoInv, ExclusiveInv, ConflictInv, ValidInv, ReadInv,
     NoLostUpdate
<1> QED BY <1>1, <1>2, <1>3, <1>4

\* store() records the serial the snapshot gave.
LEMMA StoreInv ==
    ASSUME IInv, NEW c \in Client, NEW o \in Oid, Store(c, o)
    PROVE  IInv'
<1> USE ConstantsAssumption DEF IInv, TypeOK, Unset, Phases, Validated, database, locks,
      local, Goto, Store, Stored, Undone
<1>1. TypeOK'
  OBVIOUS
<1>2. TempInv'
  <2> SUFFICES ASSUME NEW d \in Client, NEW x \in Oid
      PROVE  /\ temp'[d][x] # Unset => phase[d] # "idle"
             /\ temp'[d][x] = 0 => view[d][x] = 0 /\ Owner[x] = d
             /\ temp'[d][x] # Unset /\ temp'[d][x] # 0 => current[x] # 0
             /\ required[d][x] # Unset => current[x] # 0
    BY DEF TempInv
  <2>1. CASE d = c /\ x = o
    BY <2>1 DEF TempInv, ViewInv
  <2>2. CASE ~ (d = c /\ x = o)
    <3>1. temp'[d][x] = temp[d][x]
      BY <2>2
    <3> QED BY <3>1 DEF TempInv
  <2> QED BY <2>1, <2>2
<1>3. ExclusiveInv'
  BY DEF ExclusiveInv
<1>4. ConflictInv'
  BY DEF ConflictInv
<1>5. ValidInv'
  BY DEF ValidInv
<1>6. TidInv' /\ LockInv' /\ TableInv' /\ UndoInv' /\ ViewInv' /\ ReadInv' /\ NoLostUpdate'
  BY DEF TidInv, LockInv, TableInv, UndoInv, ViewInv, ReadInv, NoLostUpdate
<1> QED BY <1>1, <1>2, <1>3, <1>4, <1>5, <1>6

\* readCurrent() records the serial the snapshot gave.
LEMMA CheckCurrentSerialInv ==
    ASSUME IInv, NEW c \in Client, NEW o \in Oid, CheckCurrentSerial(c, o)
    PROVE  IInv'
<1> USE ConstantsAssumption DEF IInv, TypeOK, Unset, Phases, Validated, database, locks,
      local, Goto, CheckCurrentSerial
<1>1. TypeOK'
  OBVIOUS
<1>2. TempInv'
  BY DEF TempInv, ViewInv
<1>3. ReadInv'
  BY DEF ReadInv
<1>4. TidInv' /\ LockInv' /\ TableInv' /\ UndoInv' /\ ViewInv' /\ ExclusiveInv'
      /\ ConflictInv' /\ ValidInv' /\ NoLostUpdate'
  BY DEF TidInv, LockInv, TableInv, UndoInv, ViewInv, ExclusiveInv, ConflictInv, ValidInv,
     NoLostUpdate
<1> QED BY <1>1, <1>2, <1>3, <1>4

\* tpc_vote starts with the readCurrent() objects, if there are any.
LEMMA TpcVoteInv ==
    ASSUME IInv, NEW c \in Client, TpcVote(c)
    PROVE  IInv'
<1> USE ConstantsAssumption DEF IInv, TypeOK, Unset, Phases, Validated, database, locks,
      local, Goto, TpcVote, ReadCurrent
<1>1. TypeOK'
  OBVIOUS
<1>2. ReadInv'
  BY DEF ReadInv
<1>3. TidInv' /\ LockInv' /\ TableInv' /\ UndoInv' /\ ViewInv' /\ TempInv'
      /\ ExclusiveInv' /\ ConflictInv' /\ ValidInv' /\ NoLostUpdate'
  BY DEF TidInv, LockInv, TableInv, UndoInv, ViewInv, TempInv, ExclusiveInv, ConflictInv,
     ValidInv, NoLostUpdate
<1> QED BY <1>1, <1>2, <1>3

\* The check before locking promises nothing yet.
LEMMA PreCheckInv ==
    ASSUME IInv, NEW c \in Client, PreCheck(c)
    PROVE  IInv'
<1> USE ConstantsAssumption DEF IInv, TypeOK, Unset, Phases, Validated, database, locks,
      local, Goto, PreCheck
<1>1. TypeOK'
  OBVIOUS
<1>2. TidInv'
  BY DEF TidInv
<1>3. ViewInv'
  BY DEF ViewInv
<1>4. TempInv'
  BY DEF TempInv
<1>5. ReadInv'
  BY DEF ReadInv
<1>6. LockInv' /\ TableInv' /\ UndoInv' /\ ExclusiveInv' /\ ConflictInv' /\ ValidInv'
      /\ NoLostUpdate'
  BY DEF LockInv, TableInv, UndoInv, ExclusiveInv, ConflictInv, ValidInv, NoLostUpdate
<1> QED BY <1>1, <1>2, <1>3, <1>4, <1>5, <1>6

\* A failed statement gives up the locks of a transaction without a tid.
LEMMA StatementFailsInv ==
    ASSUME IInv, NEW c \in Client, phase[c] \in {"share", "recheck", "exclusive"},
           StatementFails(c), UNCHANGED <<database, packLock, local>>
    PROVE  IInv'
<1> USE ConstantsAssumption DEF IInv, TypeOK, Unset, Phases, Validated, database, local, Goto,
      StatementFails, ReleaseLocks
<1>1. TypeOK'
  OBVIOUS
<1>2. TidInv'
  BY DEF TidInv
<1>3. LockInv'
  BY DEF LockInv
<1>4. ViewInv' /\ TempInv'
  BY DEF ViewInv, TempInv
<1>5. TableInv' /\ UndoInv' /\ ExclusiveInv' /\ NoLostUpdate'
  BY DEF TableInv, UndoInv, ExclusiveInv, NoLostUpdate
<1>6. ConflictInv' /\ ValidInv' /\ ReadInv'
  BY DEF ConflictInv, ValidInv, ReadInv
<1> QED BY <1>1, <1>2, <1>3, <1>4, <1>5, <1>6

\* Without undo() a transaction sees the committed tids.
LEMMA OwnTidIsCurrent ==
    ASSUME IInv, NEW c \in Client
    PROVE  \A o \in Oid : OwnTid(c, o) = current[o]
BY DEF IInv, UndoInv, Undone, OwnTid

\* A shared lock is refused where another session holds an exclusive one.
LEMMA LockShareInv ==
    ASSUME IInv, NEW c \in Client, NEW o \in Oid, LockShare(c, o)
    PROVE  IInv'
<1> USE ConstantsAssumption DEF IInv, TypeOK, Unset, Phases, Validated, database, locks,
      local, Goto
<1>1. CASE ShareRefused(c, o)
  BY <1>1, StatementFailsInv DEF LockShare
<1>2. CASE ~ ShareRefused(c, o)
  <2> DEFINE R == shared[c] \cup {o}
  <2>1. /\ R \in SUBSET Oid
        /\ \A d \in Client \ {c} : o \notin exclusive[d]
    BY <1>2 DEF ShareRefused
  <2>2. PICK p \in {"share", "recheck"} :
           /\ phase[c] = "share" /\ phase' = [phase EXCEPT ![c] = p]
           /\ p = "recheck" => \A x \in Oid : required[c][x] # Unset => x \in R
    BY <1>2 DEF LockShare, ReadCurrent
  <2>3. /\ shared' = [shared EXCEPT ![c] = R]
        /\ UNCHANGED <<exclusive, commitLock, packLock, database, local>>
    BY <1>2 DEF LockShare
  <2>4. LockInv'
    BY <2>1, <2>3 DEF LockInv
  <2> HIDE DEF R
  <2>5. TypeOK'
    BY <2>1, <2>2, <2>3
  <2>6. TidInv' /\ ViewInv' /\ TempInv'
    BY <2>2, <2>3 DEF TidInv, ViewInv, TempInv
  <2>7. ReadInv'
    BY <2>2, <2>3 DEF ReadInv
  <2>8. TableInv' /\ UndoInv' /\ ExclusiveInv' /\ ConflictInv' /\ ValidInv' /\ NoLostUpdate'
    BY <2>2, <2>3 DEF TableInv, UndoInv, ExclusiveInv, ConflictInv, ValidInv, NoLostUpdate
  <2> QED BY <2>4, <2>5, <2>6, <2>7, <2>8
<1> QED BY <1>1, <1>2

\* Under the shared locks the declared serials are the committed ones.
LEMMA ReCheckInv ==
    ASSUME IInv, NEW c \in Client, ReCheck(c)
    PROVE  IInv'
<1>1. CASE Mismatches(c) # {}
  BY <1>1, StatementFailsInv DEF ReCheck
<1>2. CASE Mismatches(c) = {}
  <2>1. /\ phase[c] = "recheck" /\ phase' = [phase EXCEPT ![c] = "exclusive"]
        /\ UNCHANGED <<database, locks, local>>
    BY <1>2 DEF ReCheck, Goto, locks
  <2> USE ConstantsAssumption, <2>1 DEF IInv, TypeOK, Unset, Phases, Validated, database, locks,
        local
  <2>2. TypeOK'
    OBVIOUS
  <2>3. ReadInv'
    BY <1>2, OwnTidIsCurrent DEF ReadInv, TempInv, Mismatches, ReadCurrent
  <2>4. TidInv' /\ LockInv' /\ TableInv' /\ UndoInv' /\ ViewInv' /\ TempInv'
        /\ ExclusiveInv' /\ ConflictInv' /\ ValidInv' /\ NoLostUpdate'
    BY DEF TidInv, LockInv, TableInv, UndoInv, ViewInv, TempInv, ExclusiveInv, ConflictInv,
       ValidInv, NoLostUpdate
  <2> QED BY <2>2, <2>3, <2>4
<1> QED BY <1>1, <1>2

\* An exclusive lock is granted when no other session holds the row.
LEMMA LockExclusiveInv ==
    ASSUME IInv, NEW c \in Client, NEW o \in Oid, LockExclusive(c, o)
    PROVE  IInv'
<1> USE ConstantsAssumption DEF IInv, TypeOK, Unset, Phases, Validated, database, locks,
      local, Goto, LockExclusive, HeldByAnother
<1>1. TypeOK'
  OBVIOUS
<1>2. LockInv'
  BY DEF LockInv
<1>3. ExclusiveInv'
  BY DEF ExclusiveInv
<1>4. TidInv' /\ TableInv' /\ UndoInv' /\ ViewInv' /\ TempInv' /\ ConflictInv'
      /\ ValidInv' /\ ReadInv' /\ NoLostUpdate'
  BY DEF TidInv, TableInv, UndoInv, ViewInv, TempInv, ConflictInv, ValidInv, ReadInv,
     NoLostUpdate
<1> QED BY <1>1, <1>2, <1>3, <1>4

\* The objects without a conflict have their committed serial.
LEMMA DetectConflictsInv ==
    ASSUME IInv, NEW c \in Client, DetectConflicts(c)
    PROVE  IInv'
<1>0. \A o \in Oid : OwnTid(c, o) = current[o]
  BY OwnTidIsCurrent
<1> USE ConstantsAssumption, <1>0 DEF IInv, TypeOK, Unset, Phases, Validated, database, locks,
      local, Goto, DetectConflicts, Conflicting, RowsToLock, Stored
<1>1. TypeOK'
  OBVIOUS
<1>2. ExclusiveInv'
  BY DEF ExclusiveInv, TempInv
<1>3. ConflictInv'
  BY DEF ConflictInv, TempInv, ViewInv
<1>4. ValidInv'
  BY DEF ValidInv, TempInv, ViewInv
<1>5. TidInv' /\ LockInv' /\ TableInv' /\ UndoInv' /\ ViewInv' /\ TempInv' /\ ReadInv'
      /\ NoLostUpdate'
  BY DEF TidInv, LockInv, TableInv, UndoInv, ViewInv, TempInv, ReadInv, NoLostUpdate
<1> QED BY <1>1, <1>2, <1>3, <1>4, <1>5

\* A merged object gets the serial it was merged with.
LEMMA ResolveConflictsInv ==
    ASSUME IInv, NEW c \in Client, ResolveConflicts(c)
    PROVE  IInv'
<1> USE ConstantsAssumption DEF IInv, TypeOK, Unset, Phases, Validated, database, locks,
      local, Goto, ResolveConflicts
<1>1. TypeOK'
  OBVIOUS
<1>2. TempInv'
  BY DEF TempInv, ConflictInv
<1>3. ExclusiveInv'
  BY DEF ExclusiveInv, ConflictInv
<1>4. ValidInv'
  BY DEF ValidInv, ConflictInv
<1>5. TidInv' /\ LockInv' /\ TableInv' /\ UndoInv' /\ ViewInv' /\ ConflictInv' /\ ReadInv'
      /\ NoLostUpdate'
  BY DEF TidInv, LockInv, TableInv, UndoInv, ViewInv, ConflictInv, ReadInv, NoLostUpdate
<1> QED BY <1>1, <1>2, <1>3, <1>4, <1>5

\* A conflict that cannot be merged fails the vote.
LEMMA CannotResolveInv ==
    ASSUME IInv, NEW c \in Client, CannotResolve(c)
    PROVE  IInv'
<1> USE ConstantsAssumption DEF IInv, TypeOK, Unset, Phases, Validated, database, locks,
      local, Goto, CannotResolve
<1>1. TypeOK'
  OBVIOUS
<1>2. TidInv' /\ LockInv' /\ TableInv' /\ UndoInv' /\ ViewInv' /\ TempInv'
      /\ ExclusiveInv' /\ ConflictInv' /\ ValidInv' /\ ReadInv' /\ NoLostUpdate'
  BY DEF TidInv, LockInv, TableInv, UndoInv, ViewInv, TempInv, ExclusiveInv, ConflictInv,
     ValidInv, ReadInv, NoLostUpdate
<1> QED BY <1>1, <1>2

\* The tid is allocated under the commit lock.
LEMMA LockDatabaseAndMoveInv ==
    ASSUME IInv, NEW c \in Client, NEW p \in {"prepared", "moved"}, LockDatabaseAndMove(c, p)
    PROVE  IInv'
<1> USE ConstantsAssumption DEF IInv, TypeOK, Unset, Phases, Validated, database, locks,
      local, Goto, LockDatabaseAndMove, LockDatabaseAndChooseTid
<1>1. TypeOK'
  OBVIOUS
<1>2. TidInv'
  BY DEF TidInv
<1>3. LockInv' /\ TableInv' /\ UndoInv' /\ ViewInv' /\ TempInv' /\ ExclusiveInv'
      /\ ConflictInv' /\ ValidInv' /\ ReadInv' /\ NoLostUpdate'
  BY DEF LockInv, TableInv, UndoInv, ViewInv, TempInv, ExclusiveInv, ConflictInv, ValidInv,
     ReadInv, NoLostUpdate
<1> QED BY <1>1, <1>2, <1>3

\* A lock timeout is a failed statement; there is no undo().
LEMMA LockTimeoutInv ==
    ASSUME IInv, NEW c \in Client, LockTimeout(c)
    PROVE  IInv'
<1>1. phase[c] = "exclusive"
  BY DEF LockTimeout, WaitsForRow, IInv, UndoInv
<1> QED BY <1>1, StatementFailsInv DEF LockTimeout

\* Rollback returns the locks and forgets the transaction.
LEMMA EndTransactionInv ==
    ASSUME IInv, NEW c \in Client, UNCHANGED database, EndTransaction(c),
           UNCHANGED packLock \/ CloseSession(c)
    PROVE  IInv'
<1> USE ConstantsAssumption DEF IInv, TypeOK, Unset, Phases, Validated, database, locks,
      local, Goto, EndTransaction, ReleaseLocks, CloseSession
<1>1. TypeOK'
  OBVIOUS
<1>2. TidInv'
  BY DEF TidInv
<1>3. LockInv'
  BY DEF LockInv
<1>4. TableInv' /\ UndoInv' /\ ViewInv' /\ TempInv' /\ ExclusiveInv' /\ ConflictInv'
      /\ ValidInv' /\ ReadInv' /\ NoLostUpdate'
  BY DEF TableInv, UndoInv, ViewInv, TempInv, ExclusiveInv, ConflictInv, ValidInv, ReadInv,
     NoLostUpdate
<1> QED BY <1>1, <1>2, <1>3, <1>4

\* The fields of a revision.
LEMMA RowFields ==
    ASSUME NEW r \in Row
    PROVE  r.oid \in Oid /\ r.tid \in Nat /\ r.prev \in Nat
BY DEF Row

\* COMMIT: the new revisions replace the current ones, whose rows only this
\* transaction holds; the snapshots of the others keep what they said.
LEMMA CommitPhase2Inv ==
    ASSUME IInv, NEW c \in Client, CommitPhase2(c)
    PROVE  IInv'
<1> DEFINE W == {o \in Oid : temp[c][o] # Unset}
           Moved(o) == [oid |-> o, tid |-> tid[c], prev |-> temp[c][o], data |-> tid[c]]
           new == {Moved(o) : o \in W}
<1> USE ConstantsAssumption DEF Unset, Validated
<1>0. /\ TypeOK /\ TidInv /\ LockInv /\ TableInv /\ UndoInv /\ ViewInv /\ TempInv
      /\ ExclusiveInv /\ ConflictInv /\ ValidInv /\ ReadInv /\ NoLostUpdate
  BY DEF IInv
<1>1. /\ tid[c] # 0 /\ tid[c] \in Nat /\ commitLock = c
      /\ \A s \in txns : s < tid[c]
      /\ \A o \in Oid : current[o] < tid[c]
  BY <1>0 DEF CommitPhase2, TypeOK, TidInv, TableInv
<1>2. Undone(c) = {} /\ UndoneRows(c) = {}
  BY <1>0 DEF UndoInv, Undone, UndoneRows
<1>3. /\ rows' = rows \cup new
      /\ current' = [o \in Oid |-> IF o \in W THEN tid[c] ELSE current[o]]
      /\ txns' = txns \cup {tid[c]}
  BY <1>2 DEF CommitPhase2, MovedRows, Stored
<1>4. \A o \in W : temp[c][o] = current[o] /\ temp[c][o] \in Nat
  BY <1>0 DEF CommitPhase2, TypeOK, ValidInv
<1>5. \A r \in new : /\ r \in Row /\ r.oid \in W /\ r.tid = tid[c]
                     /\ r.prev = current[r.oid]
  <2> SUFFICES ASSUME NEW o \in W
      PROVE  Moved(o) \in Row /\ Moved(o).oid \in W /\ Moved(o).tid = tid[c]
             /\ Moved(o).prev = current[Moved(o).oid]
    OBVIOUS
  <2> QED BY <1>1, <1>4 DEF Row
<1>6. \A o \in W : Moved(o) \in new /\ Moved(o).oid = o /\ Moved(o).tid = tid[c]
  OBVIOUS
<1>a. \A r \in rows \cup new : r \in Row /\ r.oid \in Oid /\ r.tid \in Nat /\ r.prev \in Nat
  BY <1>0, <1>5, RowFields DEF TypeOK
<1>c. /\ \A r \in rows : r.tid <= current[r.oid] /\ r.tid # 0
      /\ \A o \in Oid : current[o] \in Nat
  BY <1>0 DEF TableInv, TypeOK
<1>d. ASSUME NEW r \in rows
      PROVE  r.tid <= current[r.oid] /\ r.tid < tid[c]
  <2>1. r.oid \in Oid /\ r.tid \in Nat
    BY <1>a
  <2>2. r.tid <= current[r.oid]
    BY <1>c
  <2>3. current[r.oid] \in Nat /\ current[r.oid] < tid[c]
    BY <1>1, <1>c, <2>1
  <2> QED BY <1>1, <2>1, <2>2, <2>3
<1>b. W \subseteq Oid
  OBVIOUS
<1> HIDE DEF new, Moved, W
<1>7. \A d \in Client \ {c}, o \in W :
         /\ current[o] # 0 => o \notin exclusive[d] \cup shared[d]
         /\ current[o] = 0 => Owner[o] = c
  BY <1>0, <1>4 DEF CommitPhase2, TypeOK, LockInv, ExclusiveInv, TempInv, W
<1>8. TypeOK'
  <2>1. rows' \subseteq Row /\ current' \in [Oid -> Nat] /\ txns' \subseteq Nat
    BY <1>0, <1>1, <1>3, <1>a DEF TypeOK
  <2> QED BY <1>0, <2>1 DEF TypeOK, Phases, CommitPhase2, EndTransaction, ReleaseLocks
<1>9. TidInv'
  BY <1>0, <1>1, <1>3 DEF CommitPhase2, EndTransaction, ReleaseLocks, TypeOK, TidInv
<1>10. LockInv' /\ UndoInv'
  BY <1>0 DEF CommitPhase2, EndTransaction, ReleaseLocks, TypeOK, LockInv, UndoInv
<1>11. TableInv'
  <2>1. ASSUME NEW r \in rows'
        PROVE  r.tid <= current'[r.oid] /\ r.tid # 0
    <3>1. CASE r \in rows
      <4>1. r.oid \in Oid /\ r.tid \in Nat /\ r.tid # 0
        BY <1>a, <1>c, <3>1
      <4>2. current'[r.oid] = tid[c] \/ current'[r.oid] = current[r.oid]
        BY <1>3, <4>1
      <4> QED BY <1>1, <1>d, <3>1, <4>1, <4>2
    <3>2. CASE r \in new
      BY <1>1, <1>3, <1>5, <1>a, <3>2
    <3> QED BY <1>3, <3>1, <3>2
  <2>2. ASSUME NEW o \in Oid, current'[o] # 0
        PROVE  current'[o] \in txns' /\ \E r \in rows' : r.oid = o /\ r.tid = current'[o]
    BY <1>0, <1>3, <1>6, <2>2 DEF TableInv
  <2> QED BY <2>1, <2>2 DEF TableInv
<1>12. ViewInv'
  BY <1>0, <1>1, <1>3, <1>4, <1>7 DEF CommitPhase2, EndTransaction, TypeOK, ViewInv, TempInv
<1>13. TempInv'
  BY <1>0, <1>1, <1>3 DEF CommitPhase2, EndTransaction, TypeOK, TempInv
<1>14. ExclusiveInv'
  BY <1>0 DEF CommitPhase2, EndTransaction, ReleaseLocks, TypeOK, ExclusiveInv
<1>15. ConflictInv' /\ ValidInv'
  <2>1. ASSUME NEW d \in Client \ {c}, NEW o \in W, phase[d] \in Validated \cup {"resolve"}
        PROVE  temp[d][o] = Unset
    <3>1. CASE temp[d][o] = 0
      <4>1. Owner[o] = d /\ phase[d] # "idle" /\ view[d][o] = 0
        BY <1>0, <1>b, <2>1, <3>1 DEF TempInv
      <4>2. current[o] = 0
        BY <1>0, <1>b, <4>1 DEF ViewInv
      <4> QED BY <1>7, <4>1, <4>2
    <3>2. CASE temp[d][o] # 0 /\ temp[d][o] # Unset
      BY <1>0, <1>7, <1>b, <2>1, <3>2 DEF ExclusiveInv, TempInv
    <3> QED BY <3>1, <3>2
  <2>2. \A d \in Client \ {c} :
           /\ phase'[d] = phase[d] /\ temp'[d] = temp[d] /\ conflicts'[d] = conflicts[d]
    BY <1>0 DEF CommitPhase2, EndTransaction, TypeOK
  <2>3. phase'[c] = "idle"
    BY <1>0 DEF CommitPhase2, EndTransaction, TypeOK
  <2>4. ASSUME NEW d \in Client, NEW o \in Oid, phase'[d] \in Validated \cup {"resolve"},
               temp'[d][o] # Unset
        PROVE  d # c /\ current'[o] = current[o]
    BY <1>3, <2>1, <2>2, <2>3, <2>4
  <2>5. ValidInv'
    BY <1>0, <2>2, <2>4 DEF ValidInv
  <2>6. ConflictInv'
    BY <1>0, <2>2, <2>3, <2>4 DEF ConflictInv
  <2> QED BY <2>5, <2>6
<1>16. ReadInv'
  BY <1>0, <1>3, <1>7 DEF CommitPhase2, EndTransaction, ReleaseLocks, TypeOK, ReadInv, TempInv
<1>17. NoLostUpdate'
  <2> SUFFICES ASSUME NEW r \in rows'
      PROVE  /\ r.prev < r.tid
             /\ r.prev # 0 => \E s \in rows' : s.oid = r.oid /\ s.tid = r.prev
             /\ \A s \in rows' : s.oid = r.oid => ~ (r.prev < s.tid /\ s.tid < r.tid)
    BY DEF NoLostUpdate
  <2>1. \A s \in rows : s.tid <= current[s.oid] /\ s.tid < tid[c]
    BY <1>d
  <2>2. CASE r \in rows
    <3>1. \A s \in new : ~ (s.tid < r.tid)
      BY <1>1, <1>5, <1>a, <2>1, <2>2
    <3> QED BY <1>0, <1>3, <2>2, <3>1 DEF NoLostUpdate
  <2>3. CASE r \in new
    <3>1. r.oid \in Oid /\ r.prev = current[r.oid] /\ r.tid = tid[c]
      BY <1>5, <1>a, <2>3
    <3>2. r.prev # 0 => \E s \in rows : s.oid = r.oid /\ s.tid = r.prev
      BY ZenonT(30), <1>0, <3>1 DEF TableInv
    <3>3. \A s \in rows : s.oid = r.oid => ~ (r.prev < s.tid)
      <4> SUFFICES ASSUME NEW s \in rows, s.oid = r.oid
          PROVE  ~ (r.prev < s.tid)
        OBVIOUS
      <4>1. s.tid \in Nat /\ r.prev \in Nat /\ s.tid <= r.prev
        BY <1>a, <2>1, <2>3, <3>1
      <4> QED BY <4>1
    <3>4. \A s \in new : ~ (s.tid < r.tid)
      BY <1>1, <1>5, <3>1
    <3> QED BY <1>1, <1>3, <3>1, <3>2, <3>3, <3>4
  <2> QED BY <1>3, <2>2, <2>3
<1> QED BY <1>8, <1>9, <1>10, <1>11, <1>12, <1>13, <1>14, <1>15, <1>16, <1>17 DEF IInv

-----------------------------------------------------------------------------
(* The theorems about SpecStores. *)

\* The new database satisfies the invariant.
LEMMA InitInv == Init => IInv
<1> SUFFICES ASSUME Init PROVE IInv
  OBVIOUS
<1> USE ConstantsAssumption DEF Init, Unset, InitTid, Phases, Validated
<1>1. TypeOK
  BY DEF TypeOK, Row
<1>2. TableInv
  <2>1. \A r \in rows : r.oid \in InitOids /\ r.tid = 1
    OBVIOUS
  <2>2. ASSUME NEW o \in Oid, current[o] # 0
        PROVE  current[o] \in txns /\ \E r \in rows : r.oid = o /\ r.tid = current[o]
    <3>1. o \in InitOids /\ current[o] = 1
      BY <2>2
    <3>2. [oid |-> o, tid |-> 1, prev |-> 0, data |-> 1] \in rows
      BY <3>1
    <3> QED BY <3>1, <3>2
  <2> QED BY <2>1, <2>2 DEF TableInv
<1>3. NoLostUpdate
  BY DEF NoLostUpdate
<1>4. TidInv /\ LockInv /\ UndoInv
  BY DEF TidInv, LockInv, UndoInv
<1>5. ViewInv /\ TempInv /\ ExclusiveInv /\ ConflictInv /\ ValidInv /\ ReadInv
  BY DEF ViewInv, TempInv, ExclusiveInv, ConflictInv, ValidInv, ReadInv
<1> QED BY <1>1, <1>2, <1>3, <1>4, <1>5 DEF IInv

\* A step that changes nothing keeps the invariant.
LEMMA StutterInv == IInv /\ UNCHANGED vars => IInv'
<1> SUFFICES ASSUME IInv, UNCHANGED vars PROVE IInv'
  OBVIOUS
<1> USE DEF vars, database, locks, local, IInv
<1>1. TypeOK' /\ TidInv' /\ LockInv' /\ TableInv' /\ UndoInv' /\ NoLostUpdate'
  BY DEF TypeOK, TidInv, LockInv, TableInv, UndoInv, NoLostUpdate
<1>2. ViewInv' /\ TempInv' /\ ExclusiveInv' /\ ConflictInv' /\ ValidInv' /\ ReadInv'
  BY DEF ViewInv, TempInv, ExclusiveInv, ConflictInv, ValidInv, ReadInv
<1> QED BY <1>1, <1>2

\* Every step of storing transactions keeps the invariant.
LEMMA NextInv == IInv /\ [NextStores]_vars => IInv'
<1> SUFFICES ASSUME IInv, NextStores PROVE IInv'
  BY StutterInv
<1>1. PICK c \in Client : WriteStep(c) \/ ReadCurrentStep(c) \/ DatabaseStep(c)
  BY DEF NextStores
<1>2. CASE WriteStep(c)
  <2>1. CASE TpcBegin(c)
    BY <2>1, TpcBeginInv
  <2>2. CASE \E o \in Oid : Store(c, o)
    BY <2>2, StoreInv
  <2>3. CASE TpcVote(c)
    BY <2>3, TpcVoteInv
  <2>4. CASE \E o \in Oid : LockExclusive(c, o)
    BY <2>4, LockExclusiveInv
  <2>5. CASE DetectConflicts(c)
    BY <2>5, DetectConflictsInv
  <2>6. CASE ResolveConflicts(c)
    BY <2>6, ResolveConflictsInv
  <2>7. CASE CannotResolve(c)
    BY <2>7, CannotResolveInv
  <2>8. CASE LockDatabaseAndMove(c, "prepared") \/ LockDatabaseAndMove(c, "moved")
    BY <2>8, LockDatabaseAndMoveInv
  <2>9. CASE CommitPhase2(c)
    BY <2>9, CommitPhase2Inv
  <2>10. CASE AbortFailed(c) \/ TpcAbort(c)
    BY <2>10, EndTransactionInv DEF AbortFailed, TpcAbort
  <2> QED BY <1>2, <2>1, <2>2, <2>3, <2>4, <2>5, <2>6, <2>7, <2>8, <2>9, <2>10 DEF WriteStep
<1>3. CASE ReadCurrentStep(c)
  BY <1>3, CheckCurrentSerialInv, PreCheckInv, LockShareInv, ReCheckInv DEF ReadCurrentStep
<1>4. CASE DatabaseStep(c)
  BY <1>4, LockTimeoutInv, EndTransactionInv DEF DatabaseStep, CommitLockTimeout, Disconnect
<1> QED BY <1>1, <1>2, <1>3, <1>4

\* The inductive invariant holds in every execution of storing transactions.
THEOREM StoresInductive == SpecStores => []IInv
BY InitInv, NextInv, PTL DEF SpecStores

\* Type correctness of two-phase commit, for any number of instances,
\* objects and transactions.
THEOREM StoresTypeOK == SpecStores => []TypeOK
<1>1. IInv => TypeOK
  BY DEF IInv
<1> QED BY <1>1, StoresInductive, PTL

\* A committed revision always replaced the revision it was computed from or
\* merged with (vote.py's locks, conflict detection and resolution).
THEOREM StoresNoLostUpdate == SpecStores => []NoLostUpdate
<1>1. IInv => NoLostUpdate
  BY DEF IInv
<1> QED BY <1>1, StoresInductive, PTL

\* What the vote checked for readCurrent() stays true until the end of the
\* transaction.
THEOREM StoresReadCurrentHolds == SpecStores => []ReadCurrentHolds
<1>1. IInv => ReadCurrentHolds
  BY DEF IInv, ReadInv, ReadCurrentHolds, ReadCurrent, Validated
<1> QED BY <1>1, StoresInductive, PTL

-----------------------------------------------------------------------------
(* Deadlocks of storing transactions. *)

\* The rows a transaction modifies.
Modified(c) == {o \in Oid : temp[c][o] # Unset /\ temp[c][o] # 0}

\* Rows are locked in the order of their oids, by the statement in tpc_vote
\* only; the commit lock comes with the tid.
LockOrderInv ==
    /\ \A c \in Client :
          phase[c] \in {"idle", "begin", "precheck", "share", "recheck"} => exclusive[c] = {}
    /\ \A c \in Client : phase[c] = "exclusive" =>
          /\ exclusive[c] \subseteq Modified(c)
          /\ \A o \in exclusive[c], p \in Modified(c) \ exclusive[c] : o < p
    /\ \A c \in Client : commitLock = c => tid[c] # 0

\* The objects a transaction modifies exist: FOR UPDATE names all of them.
LEMMA RowsToLockModified ==
    ASSUME IInv, NEW c \in Client
    PROVE  RowsToLock(c) = Modified(c)
BY DEF IInv, TempInv, RowsToLock, Stored, Modified, Unset

\* The ordered statement takes the least row that is missing.
LEMMA LockExclusiveOrder ==
    ASSUME IInv, LockOrderInv, NEW c \in Client, NEW o \in Oid, LockExclusive(c, o)
    PROVE  LockOrderInv'
<1>1. /\ phase[c] = "exclusive" /\ o \in Modified(c) \ exclusive[c]
      /\ \A p \in Modified(c) \ exclusive[c] : o <= p
      /\ exclusive' = [exclusive EXCEPT ![c] = @ \cup {o}]
      /\ UNCHANGED <<phase, temp, tid, commitLock>>
  BY RowsToLockModified DEF LockExclusive, IsNextRow, local
<1>2. \A d \in Client : Modified(d)' = Modified(d) /\ Modified(d) \subseteq Nat
  BY <1>1, ConstantsAssumption DEF Modified
<1>3. \A d \in Client : d # c => exclusive'[d] = exclusive[d]
  BY <1>1 DEF IInv, TypeOK
<1>4. exclusive'[c] = exclusive[c] \cup {o}
  BY <1>1 DEF IInv, TypeOK
<1>5. \A p \in exclusive'[c], q \in Modified(c) \ exclusive'[c] : p < q
  BY <1>1, <1>2, <1>4 DEF LockOrderInv
<1> QED BY <1>1, <1>2, <1>3, <1>4, <1>5 DEF LockOrderInv

\* A step of c that leaves the locks of c alone, or gives all of them up.
LEMMA KeepLockOrder ==
    ASSUME IInv, LockOrderInv, NEW c \in Client, NEW p \in Phases,
           phase' = [phase EXCEPT ![c] = p],
           \A d \in Client \ {c} : temp'[d] = temp[d] /\ exclusive'[d] = exclusive[d],
           \A d \in Client \ {c} : tid'[d] = tid[d],
           \/ exclusive'[c] = {}
           \/ p = "begin" /\ phase[c] \in {"idle", "begin"} /\ exclusive'[c] = exclusive[c]
           \/ /\ p \notin {"idle", "begin", "precheck", "share", "recheck", "exclusive"}
              /\ exclusive'[c] = exclusive[c],
           \A d \in Client \ {c} : commitLock' = d => commitLock = d,
           commitLock' = c => tid'[c] # 0
    PROVE  LockOrderInv'
<1>1. phase'[c] = p /\ \A d \in Client \ {c} : phase'[d] = phase[d]
  BY DEF IInv, TypeOK
<1>2. \A d \in Client \ {c} : Modified(d)' = Modified(d)
  BY DEF Modified
<1>3. phase'[c] \in {"idle", "begin", "precheck", "share", "recheck"} => exclusive'[c] = {}
  BY <1>1 DEF LockOrderInv
<1>4. phase'[c] = "exclusive" => exclusive'[c] = {}
  BY <1>1
<1> QED BY <1>1, <1>2, <1>3, <1>4 DEF LockOrderInv

\* Every step of storing transactions keeps the order of the locks.
LEMMA NextLockOrder == IInv /\ LockOrderInv /\ [NextStores]_vars => LockOrderInv'
<1> SUFFICES ASSUME IInv, LockOrderInv, [NextStores]_vars PROVE LockOrderInv'
  OBVIOUS
<1>1. CASE UNCHANGED vars
  BY <1>1 DEF vars, database, locks, local, LockOrderInv, Modified
<1>2. CASE NextStores
  <2>1. PICK c \in Client : WriteStep(c) \/ ReadCurrentStep(c) \/ DatabaseStep(c)
    BY <1>2 DEF NextStores
  <2> USE DEF IInv, TypeOK, Goto, Phases, database, locks, local
  <2>2. CASE \/ TpcBegin(c) \/ \E o \in Oid : Store(c, o)
             \/ \E o \in Oid : CheckCurrentSerial(c, o)
    <3>1. /\ phase' = [phase EXCEPT ![c] = "begin"] /\ phase[c] \in {"idle", "begin"}
          /\ UNCHANGED <<exclusive, commitLock, tid>>
          /\ \A d \in Client \ {c} : temp'[d] = temp[d]
      BY <2>2 DEF TpcBegin, Store, CheckCurrentSerial
    <3> QED BY <3>1, KeepLockOrder DEF LockOrderInv
  <2>3. CASE TpcVote(c) \/ PreCheck(c) \/ (\E o \in Oid : LockShare(c, o)) \/ ReCheck(c)
    <3>1. /\ \E p \in Phases : phase' = [phase EXCEPT ![c] = p]
          /\ phase[c] \in {"begin", "precheck", "share", "recheck"}
          /\ exclusive' = exclusive \/ exclusive' = [exclusive EXCEPT ![c] = {}]
          /\ commitLock' = commitLock \/ commitLock' = NoClient
          /\ UNCHANGED <<temp, tid>>
      BY <2>3 DEF TpcVote, PreCheck, LockShare, ReCheck, StatementFails, ReleaseLocks
    <3>2. exclusive'[c] = {}
      BY <3>1 DEF LockOrderInv
    <3>3. /\ \A d \in Client \ {c} : tid'[d] = tid[d] /\ temp'[d] = temp[d]
          /\ \A d \in Client \ {c} : exclusive'[d] = exclusive[d]
          /\ \A d \in Client : commitLock' = d => commitLock = d
      BY <3>1, ConstantsAssumption
    <3>4. commitLock' = c => tid'[c] # 0
      BY <3>1, <3>3 DEF LockOrderInv
    <3> HIDE DEF IInv, Phases
    <3> QED BY ZenonT(30), <3>1, <3>2, <3>3, <3>4, KeepLockOrder
  <2>4. CASE \E o \in Oid : LockExclusive(c, o)
    BY <2>4, LockExclusiveOrder
  <2>5. CASE DetectConflicts(c) \/ ResolveConflicts(c) \/ CannotResolve(c)
    <3>1. /\ \E p \in {"voted", "resolve", "failed"} : phase' = [phase EXCEPT ![c] = p]
          /\ UNCHANGED <<exclusive, commitLock, tid>>
          /\ \A d \in Client \ {c} : temp'[d] = temp[d]
      BY <2>5 DEF DetectConflicts, ResolveConflicts, CannotResolve
    <3> QED BY <3>1, KeepLockOrder DEF LockOrderInv
  <2>6. CASE LockDatabaseAndMove(c, "prepared") \/ LockDatabaseAndMove(c, "moved")
    <3>1. /\ \E p \in {"prepared", "moved"} : phase' = [phase EXCEPT ![c] = p]
          /\ UNCHANGED <<exclusive, temp>>
          /\ commitLock' \in {c, commitLock}
          /\ \A d \in Client \ {c} : tid'[d] = tid[d]
          /\ tid'[c] # 0
      BY <2>6 DEF LockDatabaseAndMove, LockDatabaseAndChooseTid
    <3> QED BY <3>1, KeepLockOrder
  <2>7. CASE EndTransaction(c)
    <3>1. /\ phase' = [phase EXCEPT ![c] = "idle"] /\ exclusive'[c] = {}
          /\ \A d \in Client \ {c} :
                tid'[d] = tid[d] /\ temp'[d] = temp[d] /\ exclusive'[d] = exclusive[d]
          /\ commitLock' # c /\ \A d \in Client \ {c} : commitLock' = d => commitLock = d
      BY <2>7, ConstantsAssumption DEF EndTransaction, ReleaseLocks
    <3> QED BY <3>1, KeepLockOrder
  <2>8. CASE LockTimeout(c)
    <3>1. /\ phase' = [phase EXCEPT ![c] = "failed"] /\ exclusive'[c] = {}
          /\ UNCHANGED <<temp, tid>>
          /\ \A d \in Client \ {c} : exclusive'[d] = exclusive[d]
          /\ commitLock' # c /\ \A d \in Client \ {c} : commitLock' = d => commitLock = d
      BY <2>8, ConstantsAssumption DEF LockTimeout, StatementFails, ReleaseLocks
    <3> QED BY <3>1, KeepLockOrder
  <2> QED BY <2>1, <2>2, <2>3, <2>4, <2>5, <2>6, <2>7, <2>8
      DEF WriteStep, ReadCurrentStep, DatabaseStep, CommitPhase2, AbortFailed, TpcAbort,
          CommitLockTimeout, Disconnect
<1> QED BY <1>1, <1>2

\* A finite set in which every member is before another, in an order that
\* is transitive and irreflexive, is empty.
LEMMA FiniteOrder ==
    ASSUME NEW S, IsFiniteSet(S), S # {}, NEW R, R \subseteq S \X S,
           \A x \in S : <<x, x>> \notin R,
           \A x, y, z \in S : <<x, y>> \in R /\ <<y, z>> \in R => <<x, z>> \in R
    PROVE  \E x \in S : \A y \in S : <<x, y>> \notin R
<1> DEFINE above == [x \in S |-> {y \in S : <<x, y>> \in R}]
           family == {above[x] : x \in S}
           order == StrictSubsetOrdering(S)
<1>1. IsWellFoundedOn(order, SUBSET S)
  <2>1. IsWellFoundedOn(order, FiniteSubsetsOf(S))
    BY FS_StrictSubsetOrderingWellFounded
  <2>2. FiniteSubsetsOf(S) = SUBSET S
    BY FS_FiniteSubsetsOfFinite
  <2> QED BY <2>1, <2>2
<1>2. family \subseteq SUBSET S /\ family # {}
  <2>1. \A x \in S : above[x] \in SUBSET S
    OBVIOUS
  <2> HIDE DEF above
  <2> QED BY <2>1
<1>3. PICK U \in family : \A V \in family : <<V, U>> \notin order
  <2> HIDE DEF family, order
  <2> QED BY <1>1, <1>2, WFMin
<1>4. PICK x \in S : U = above[x]
  BY <1>3
<1>5. ASSUME NEW y \in S, <<x, y>> \in R PROVE FALSE
  <2>1. above[y] \subseteq above[x] /\ y \in above[x] /\ y \notin above[y]
    BY <1>5
  <2>2. above[y] \in SUBSET S /\ above[x] \in SUBSET S /\ above[y] \in family
    OBVIOUS
  <2>3. <<above[y], above[x]>> \in order
    <3> HIDE DEF above
    <3> QED BY <2>1, <2>2 DEF StrictSubsetOrdering
  <2> QED BY <1>3, <1>4, <2>2, <2>3
<1> QED BY <1>5

\* The holder of the commit lock waits for nothing, and along row locks the
\* oids grow: a finite set of waiting writers cannot close the circle.
LEMMA NoCircle ==
    ASSUME IInv, LockOrderInv, NEW S \in SUBSET Client, S # {},
           \A c \in S : shared[c] = {}
    PROVE  \E c \in S : \A d \in S \ {c} : ~ WaitsFor(c, d)
<1> DEFINE R == {p \in S \X S : \E i, j \in Oid :
                     IsNextRow(p[1], i) /\ IsNextRow(p[2], j) /\ i < j}
<1>1. CASE \E c \in S : WaitsForCommitLock(c) /\ commitLock \in S
  <2>1. commitLock \in Client /\ tid[commitLock] # 0
    BY <1>1 DEF LockOrderInv
  <2>2. phase[commitLock] \in {"prepared", "moved"}
    BY <2>1 DEF IInv, TidInv
  <2>3. \A d \in S : ~ WaitsFor(commitLock, d)
    BY <2>2 DEF WaitsFor, WaitsForCommitLock
  <2> QED BY <1>1, <2>3
<1>2. CASE ~ \E c \in S : WaitsForCommitLock(c) /\ commitLock \in S
  <2>1. SUFFICES ASSUME \A c \in S : \E d \in S \ {c} : WaitsFor(c, d)
        PROVE  FALSE
    OBVIOUS
  <2>2. ASSUME NEW c \in S
        PROVE  /\ phase[c] = "exclusive"
               /\ \E d \in S, i \in Oid : i \in exclusive[d] /\ IsNextRow(c, i)
    <3>1. PICK d \in S \ {c} : WaitsFor(c, d)
      BY <2>1
    <3>2. phase[c] = "exclusive" /\ \E i \in shared[d] \cup exclusive[d] : IsNextRow(c, i)
      BY <1>2, <3>1 DEF WaitsFor
    <3> QED BY <3>2 DEF IInv, TypeOK
  <2>3. \A c \in S, i, j \in Oid : IsNextRow(c, i) /\ IsNextRow(c, j) => i = j
    BY ConstantsAssumption DEF IsNextRow
  <2>4. \A c \in S : \E d \in S : <<c, d>> \in R
    <3> SUFFICES ASSUME NEW c \in S PROVE \E d \in S : <<c, d>> \in R
      OBVIOUS
    <3>1. PICK d \in S, i \in Oid : i \in exclusive[d] /\ IsNextRow(c, i)
      BY <2>2
    <3>2. PICK j \in Oid : IsNextRow(d, j)
      BY <2>2
    <3>3. phase[d] = "exclusive" /\ j \in Modified(d) \ exclusive[d]
      BY <2>2, <3>2, RowsToLockModified DEF IsNextRow
    <3>4. i < j
      BY <3>1, <3>3 DEF LockOrderInv
    <3> QED BY <3>1, <3>2, <3>4
  <2>5. \A c \in S : <<c, c>> \notin R
    BY <2>3, ConstantsAssumption
  <2>6. \A c, d, e \in S : <<c, d>> \in R /\ <<d, e>> \in R => <<c, e>> \in R
    <3> SUFFICES ASSUME NEW c \in S, NEW d \in S, NEW e \in S, <<c, d>> \in R, <<d, e>> \in R
        PROVE  <<c, e>> \in R
      OBVIOUS
    <3>1. PICK i \in Oid, j \in Oid : IsNextRow(c, i) /\ IsNextRow(d, j) /\ i < j
      OBVIOUS
    <3>2. PICK k \in Oid, l \in Oid : IsNextRow(d, k) /\ IsNextRow(e, l) /\ k < l
      OBVIOUS
    <3>3. j = k
      BY <2>3, <3>1, <3>2
    <3>4. i < l
      BY <3>1, <3>2, <3>3, ConstantsAssumption
    <3> QED BY <3>1, <3>2, <3>4
  <2>7. IsFiniteSet(S)
    BY FS_Subset, ConstantsAssumption
  <2>8. R \subseteq S \X S
    OBVIOUS
  <2> HIDE DEF R
  <2>9. \E c \in S : \A d \in S : <<c, d>> \notin R
    BY <2>5, <2>6, <2>7, <2>8, FiniteOrder
  <2> QED BY <2>4, <2>9
<1> QED BY <1>1, <1>2

\* Writers that do not use readCurrent() cannot deadlock, for any number of
\* instances and objects: every circle of waiting sessions has a member
\* with a shared lock.
THEOREM WritersDoNotDeadlock == SpecStores => []DeadlockNeedsReadCurrent
<1>1. Init => LockOrderInv
  BY ConstantsAssumption DEF Init, LockOrderInv, Modified
<1>2. IInv /\ LockOrderInv => DeadlockNeedsReadCurrent
  BY NoCircle DEF DeadlockNeedsReadCurrent
<1> QED BY <1>1, <1>2, NextLockOrder, StoresInductive, PTL DEF SpecStores

-----------------------------------------------------------------------------
(* Storing transactions implement AtomicCommit. *)

\* COMMIT is the abstract commit of the stored objects.
LEMMA CommitIsAtomic ==
    ASSUME IInv, NEW c \in Client, CommitPhase2(c)
    PROVE  Atomic!Next
<1>1. /\ tid[c] \in 1..MaxTid /\ \A s \in txns : s < tid[c]
      /\ \A o \in Stored(c) : temp[c][o] = current[o]
  BY ConstantsAssumption DEF IInv, TypeOK, TidInv, ValidInv, Validated, CommitPhase2, Stored
<1>2. Undone(c) = {} /\ UndoneRows(c) = {}
  BY DEF IInv, UndoInv, Undone, UndoneRows
<1>3. MovedRows(c) = {[oid |-> o, tid |-> tid[c], prev |-> current[o], data |-> tid[c]] :
                      o \in Stored(c)}
  BY <1>1 DEF MovedRows
<1>4. Stored(c) \in SUBSET Oid
  BY DEF Stored
<1>5. /\ txns' = txns \cup {tid[c]}
      /\ rows' = rows \cup MovedRows(c)
      /\ current' = [o \in Oid |-> IF o \in Stored(c) THEN tid[c] ELSE current[o]]
  BY <1>2 DEF CommitPhase2
<1>6. Atomic!Commit(tid[c], Stored(c))
  BY <1>1, <1>3, <1>5 DEF Atomic!Commit
<1> QED BY <1>1, <1>4, <1>6 DEF Atomic!Next

\* Every other step leaves the committed tables alone.
LEMMA OthersKeepDatabase ==
    ASSUME NEW c \in Client, WriteStep(c) \/ ReadCurrentStep(c) \/ DatabaseStep(c),
           ~ CommitPhase2(c)
    PROVE  UNCHANGED database
BY DEF WriteStep, ReadCurrentStep, DatabaseStep, TpcBegin, Store, TpcVote, LockExclusive,
       DetectConflicts, ResolveConflicts, CannotResolve, LockDatabaseAndMove, AbortFailed,
       TpcAbort, CheckCurrentSerial, PreCheck, LockShare, ReCheck, LockTimeout,
       CommitLockTimeout, Disconnect

\* The commits of concurrent storing transactions are indivisible: each
\* builds on the committed state it replaces, under a new latest tid.
THEOREM StoresImplementAtomicCommit == SpecStores => ImplementsAtomicCommit
<1>1. Init => Atomic!Init
  BY DEF Init, Atomic!Init, InitTid, Atomic!InitTid
<1>2. ASSUME IInv, [NextStores]_vars
      PROVE  [Atomic!Next]_<<rows, current, txns>>
  <2>1. CASE UNCHANGED vars
    BY <2>1 DEF vars, database
  <2>2. CASE NextStores
    <3>1. PICK c \in Client : WriteStep(c) \/ ReadCurrentStep(c) \/ DatabaseStep(c)
      BY <2>2 DEF NextStores
    <3>2. CASE CommitPhase2(c)
      BY <1>2, <3>2, CommitIsAtomic
    <3>3. CASE ~ CommitPhase2(c)
      BY <3>1, <3>3, OthersKeepDatabase DEF database
    <3> QED BY <3>2, <3>3
  <2> QED BY <1>2, <2>1, <2>2
<1> QED BY <1>1, <1>2, StoresInductive, PTL DEF SpecStores, ImplementsAtomicCommit, Atomic!Spec

-----------------------------------------------------------------------------
(* The order of tids, for all transactions. *)

\* A tid is held under the commit lock and is later than every committed one,
\* until the transaction fails.
OrderInv ==
    /\ txns \subseteq Nat
    /\ tid \in [Client -> Nat]
    /\ phase \in [Client -> Phases]
    /\ \A c \in Client : tid[c] # 0 /\ phase[c] # "failed" =>
          commitLock = c /\ \A s \in txns : s < tid[c]
    /\ \A c \in Client : phase[c] \in {"prepared", "moved"} => tid[c] # 0

\* A new tid is later than the committed ones and comes with the lock.
LEMMA ChooseTidOrder ==
    ASSUME OrderInv, NEW c \in Client, phase[c] # "failed",
           NEW p \in {"prepared", "moved", "begin"},
           LockDatabaseAndChooseTid(c), Goto(c, p), UNCHANGED txns
    PROVE  OrderInv'
BY ConstantsAssumption DEF OrderInv, Phases, LockDatabaseAndChooseTid, Goto

\* COMMIT makes the tid the latest and releases the lock.
LEMMA CommitOrder ==
    ASSUME OrderInv, NEW c \in Client, CommitPhase2(c)
    PROVE  OrderInv'
BY ConstantsAssumption DEF OrderInv, Phases, CommitPhase2, EndTransaction, ReleaseLocks

\* Rollback gives up the tid with the lock.
LEMMA AbortOrder ==
    ASSUME OrderInv, NEW c \in Client, EndTransaction(c), UNCHANGED database
    PROVE  OrderInv'
BY ConstantsAssumption DEF OrderInv, Phases, EndTransaction, ReleaseLocks, database

\* A failed statement gives up the lock and will not commit.
LEMMA FailOrder ==
    ASSUME OrderInv, NEW c \in Client, StatementFails(c), UNCHANGED <<txns, tid>>
    PROVE  OrderInv'
BY ConstantsAssumption DEF OrderInv, Phases, StatementFails, ReleaseLocks, Goto

\* Steps that touch neither the tid nor the lock.
LEMMA KeepTidOrder ==
    ASSUME OrderInv, NEW c \in Client, phase[c] # "failed", NEW p \in Phases \ {"prepared", "moved"},
           Goto(c, p) \/ UNCHANGED phase, UNCHANGED <<txns, tid, commitLock>>
    PROVE  OrderInv'
BY DEF OrderInv, Phases, Goto

\* Every step, those of undo too, keeps the order.
LEMMA NextOrder == OrderInv /\ [Next]_vars => OrderInv'
<1> SUFFICES ASSUME OrderInv, [Next]_vars PROVE OrderInv'
  OBVIOUS
<1>1. CASE UNCHANGED vars
  BY <1>1 DEF vars, database, locks, local, OrderInv
<1>2. CASE Next
  <2>1. PICK c \in Client : WriteStep(c) \/ ReadCurrentStep(c) \/ DatabaseStep(c) \/ UndoStep(c)
    BY <1>2 DEF Next
  <2>2. CASE \/ LockDatabaseAndMove(c, "prepared") \/ LockDatabaseAndMove(c, "moved")
             \/ Undo(c)
    BY <2>2, ChooseTidOrder DEF LockDatabaseAndMove, Undo, database
  <2>3. CASE CommitPhase2(c) \/ AbortFailed(c) \/ TpcAbort(c)
             \/ CommitLockTimeout(c) \/ Disconnect(c) \/ MoveFails(c)
    BY <2>3, CommitOrder, AbortOrder
    DEF AbortFailed, TpcAbort, CommitLockTimeout, Disconnect, MoveFails
  <2>4. CASE \/ TpcBegin(c) \/ TpcVote(c) \/ DetectConflicts(c) \/ ResolveConflicts(c)
             \/ CannotResolve(c) \/ PreCheck(c) \/ \E t \in txns : UndoVerify(c, t)
    <3>1. /\ phase[c] # "failed"
          /\ \E p \in Phases \ {"prepared", "moved"} : Goto(c, p)
          /\ UNCHANGED <<txns, tid, commitLock>>
      BY <2>4 DEF TpcBegin, TpcVote, DetectConflicts, ResolveConflicts, CannotResolve, PreCheck,
         UndoVerify, database, locks, local, Phases
    <3> QED BY <3>1, KeepTidOrder
  <2>5. CASE \E o \in Oid : Store(c, o) \/ CheckCurrentSerial(c, o) \/ LockExclusive(c, o)
    BY <2>5, KeepTidOrder
    DEF Store, CheckCurrentSerial, LockExclusive, database, locks, local, Phases
  <2>6. CASE (\E o \in Oid : LockShare(c, o)) \/ ReCheck(c) \/ LockTimeout(c)
    <3>1. /\ UNCHANGED <<txns, tid>>
          /\ \/ StatementFails(c)
             \/ /\ phase[c] # "failed" /\ UNCHANGED commitLock
                /\ \E p \in {"share", "recheck", "exclusive"} : Goto(c, p)
      BY <2>6 DEF LockShare, ReCheck, LockTimeout, database, local
    <3> QED BY <3>1, FailOrder, KeepTidOrder DEF Phases
  <2> QED BY <2>1, <2>2, <2>3, <2>4, <2>5, <2>6 DEF WriteStep, ReadCurrentStep, DatabaseStep, UndoStep
<1> QED BY <1>1, <1>2

\* Only COMMIT adds a transaction, and it adds the one with the tid.
LEMMA NextAddsTid ==
    OrderInv /\ [Next]_vars => [\A t \in txns' \ txns, s \in txns : s < t]_txns
<1> SUFFICES ASSUME OrderInv, Next, txns' # txns
    PROVE  \A t \in txns' \ txns, s \in txns : s < t
  BY DEF vars, database
<1>1. PICK c \in Client : CommitPhase2(c)
  BY DEF Next, WriteStep, ReadCurrentStep, DatabaseStep, UndoStep, TpcBegin, Store, TpcVote,
     LockExclusive, DetectConflicts, ResolveConflicts, CannotResolve, LockDatabaseAndMove,
     AbortFailed, TpcAbort, CheckCurrentSerial, PreCheck, LockShare, ReCheck, LockTimeout,
     CommitLockTimeout, Disconnect, UndoVerify, Undo, MoveFails, database
<1> QED BY <1>1 DEF CommitPhase2, OrderInv

\* Tids become visible in their order, whatever transactions store, check,
\* undo or lose their connection: pollers that remember the last tid they
\* saw miss no transaction.
THEOREM TidOrder == Spec => CommitsInTidOrder
<1>1. Init => OrderInv
  BY DEF Init, OrderInv, Phases, InitTid
<1> QED BY <1>1, NextOrder, NextAddsTid, PTL DEF Spec, CommitsInTidOrder
-----------------------------------------------------------------------------
(* The tables, for all transactions: those that undo() too. *)

\* The revision t of o is in object_state.
HasRow(o, t) == \E r \in rows : r.oid = o /\ r.tid = t

\* The object is one that the transaction has undone.
IsUndone(c, o) == \E r \in undone[c] : r.oid = o

\* Serials name revisions that exist, wherever a transaction keeps them; or
\* the uncommitted row of an object that it has undone itself.
SerialInv ==
    /\ \A r \in rows : r.prev # 0 => HasRow(r.oid, r.prev)
    /\ \A c \in Client, o \in Oid :
          /\ view[c][o] # 0 => HasRow(o, view[c][o])
          /\ temp[c][o] \notin {0, Unset} => HasRow(o, temp[c][o]) \/ IsUndone(c, o)
          /\ conflicts[c][o] \notin {0, Unset} => HasRow(o, conflicts[c][o]) \/ IsUndone(c, o)
    /\ \A c \in Client : \A r \in undone[c] : r.prev # 0 => HasRow(r.oid, r.prev)

\* undo() holds the pack lock while it works.
HoldInv == \A c \in Client : phase[c] = "undo" => packLock[c] # 0

\* What is moved was not undone in the same transaction.
MoveInv ==
    \A c \in Client : phase[c] \in {"prepared", "moved"} => Stored(c) \cap Undone(c) = {}

UInv == TypeOK /\ OrderInv /\ TableInv /\ SerialInv /\ HoldInv /\ MoveInv

\* Before COMMIT a transaction takes its serials from its snapshot, from the
\* conflicts it was told of, or from current_object.
KeepsSerial(c, o) ==
    /\ view'[c][o] \in {0, view[c][o], current[o]}
    /\ temp'[c][o] \in {Unset, temp[c][o], view[c][o], conflicts[c][o]}
    /\ conflicts'[c][o] \in {Unset, conflicts[c][o], current[o]} \/ IsUndone(c, o)'
    /\ IsUndone(c, o) => \/ IsUndone(c, o)'
                         \/ temp'[c][o] = Unset /\ conflicts'[c][o] = Unset

KeepsCopies(c) ==
    \A r \in undone'[c] : r \in undone[c] \/ (r.oid \in Oid /\ r.prev = current[r.oid])

\* Such a step keeps the tables and the serials.
LEMMA KeepSerials ==
    ASSUME UInv, UNCHANGED database,
           \A c \in Client, o \in Oid : KeepsSerial(c, o),
           \A c \in Client : KeepsCopies(c)
    PROVE  TableInv' /\ SerialInv'
<1>1. UNCHANGED <<rows, current, txns>>
  BY DEF database
<1>2. \A o, t : HasRow(o, t)' <=> HasRow(o, t)
  BY <1>1 DEF HasRow
<1>3. \A o \in Oid : current[o] # 0 => HasRow(o, current[o])
  BY DEF UInv, TableInv, HasRow
<1>4. TableInv'
  BY <1>1 DEF UInv, TableInv
<1>5. \A r \in rows' : r.prev # 0 => HasRow(r.oid, r.prev)'
  BY <1>1, <1>2 DEF UInv, SerialInv
<1>6. ASSUME NEW c \in Client, NEW o \in Oid
      PROVE  /\ view'[c][o] # 0 => HasRow(o, view[c][o])'
             /\ temp'[c][o] \notin {0, Unset} => HasRow(o, temp[c][o])' \/ IsUndone(c, o)'
             /\ conflicts'[c][o] \notin {0, Unset} => HasRow(o, conflicts[c][o])' \/ IsUndone(c, o)'
  <2>1. /\ view[c][o] # 0 => HasRow(o, view[c][o])
        /\ temp[c][o] \notin {0, Unset} => HasRow(o, temp[c][o]) \/ IsUndone(c, o)
        /\ conflicts[c][o] \notin {0, Unset} => HasRow(o, conflicts[c][o]) \/ IsUndone(c, o)
    BY DEF UInv, SerialInv
  <2> USE DEF KeepsSerial
  <2>2. view'[c][o] # 0 => HasRow(o, view[c][o])'
    BY <1>2, <1>3, <2>1
  <2>3. temp'[c][o] \notin {0, Unset} => HasRow(o, temp[c][o])' \/ IsUndone(c, o)'
    BY <1>2, <1>3, <2>1
  <2>4. conflicts'[c][o] \notin {0, Unset} => HasRow(o, conflicts[c][o])' \/ IsUndone(c, o)'
    BY <1>2, <1>3, <2>1
  <2> QED BY <2>2, <2>3, <2>4
<1>7. ASSUME NEW c \in Client, NEW r \in undone'[c], r.prev # 0
      PROVE  HasRow(r.oid, r.prev)'
  BY <1>2, <1>3, <1>7 DEF UInv, SerialInv, KeepsCopies
<1>8. SerialInv'
  BY <1>5, <1>6, <1>7 DEF SerialInv, Unset
<1> QED BY <1>4, <1>8

\* So does a step that changes none of them.
LEMMA SameSerials ==
    ASSUME UInv, UNCHANGED database, UNCHANGED <<view, temp, conflicts, undone>>
    PROVE  TableInv' /\ SerialInv'
<1>1. \A c \in Client, o \in Oid : KeepsSerial(c, o)
  BY DEF KeepsSerial, IsUndone
<1>2. \A c \in Client : KeepsCopies(c)
  BY DEF KeepsCopies
<1> QED BY <1>1, <1>2, KeepSerials

\* tpc_begin's snapshot, store(), readCurrent(), the vote: everything a
\* transaction does for itself.
LEMMA OwnStepTables ==
    ASSUME UInv, NEW c \in Client,
           \/ TpcBegin(c) \/ TpcVote(c) \/ PreCheck(c) \/ DetectConflicts(c)
           \/ ResolveConflicts(c) \/ CannotResolve(c)
           \/ \E o \in Oid : Store(c, o)
           \/ \E o \in Oid : CheckCurrentSerial(c, o)
           \/ \E o \in Oid : LockExclusive(c, o)
    PROVE  TypeOK' /\ TableInv' /\ SerialInv' /\ HoldInv'
<1>0. TypeOK
  BY DEF UInv
<1> USE DEF database, locks, local, Goto
<1>1. TypeOK'
  <2> USE <1>0 DEF TypeOK, Phases, Unset
  <2>1. CASE TpcBegin(c) \/ TpcVote(c) \/ PreCheck(c) \/ CannotResolve(c)
    <3>1. /\ phase' \in [Client -> Phases]
          /\ UNCHANGED <<database, locks, temp, required, conflicts, tid, undoing, undone>>
      BY <2>1 DEF TpcBegin, TpcVote, PreCheck, CannotResolve
    <3>2. view' \in [Client -> [Oid -> Nat]]
      BY <2>1 DEF TpcBegin, TpcVote, PreCheck, CannotResolve
    <3> QED BY <3>1, <3>2
  <2>2. CASE \E o \in Oid : Store(c, o)
    BY <2>2 DEF Store
  <2>3. CASE \E o \in Oid : CheckCurrentSerial(c, o)
    BY <2>3 DEF CheckCurrentSerial
  <2>4. CASE \E o \in Oid : LockExclusive(c, o)
    BY <2>4 DEF LockExclusive
  <2>5. CASE DetectConflicts(c)
    <3>1. \A o \in Oid : OwnTid(c, o) \in Nat
      BY DEF OwnTid
    <3> QED BY <2>5, <3>1 DEF DetectConflicts
  <2>6. CASE ResolveConflicts(c)
    BY <2>6 DEF ResolveConflicts
  <2> QED BY <2>1, <2>2, <2>4, <2>5, <2>6, <2>3
<1>2. HoldInv'
  BY <1>0 DEF UInv, HoldInv, TypeOK, TpcBegin, Store, CheckCurrentSerial, TpcVote, PreCheck,
     LockExclusive, DetectConflicts, ResolveConflicts, CannotResolve
<1>3. UNCHANGED database /\ UNCHANGED undone
  BY DEF TpcBegin, Store, CheckCurrentSerial, TpcVote, PreCheck,
     LockExclusive, DetectConflicts, ResolveConflicts, CannotResolve
<1>4. ASSUME NEW d \in Client, NEW p \in Oid
      PROVE  KeepsSerial(d, p)
  <2> USE <1>3 DEF KeepsSerial, IsUndone
  <2>1. CASE TpcBegin(c)
    BY <1>0, <2>1 DEF TpcBegin, TypeOK
  <2>2. CASE \E o \in Oid : Store(c, o)
    BY <1>0, <2>2 DEF Store, TypeOK
  <2>3. CASE DetectConflicts(c)
    BY <1>0, <2>3 DEF DetectConflicts, TypeOK, OwnTid, Undone
  <2>4. CASE ResolveConflicts(c)
    BY <1>0, <2>4 DEF ResolveConflicts, TypeOK
  <2>5. CASE UNCHANGED <<view, temp, conflicts>>
    BY <2>5
  <2> QED BY <2>1, <2>2, <2>3, <2>4, <2>5
      DEF TpcVote, PreCheck, LockExclusive, CannotResolve, CheckCurrentSerial
<1>5. \A d \in Client : KeepsCopies(d)
  BY <1>3 DEF KeepsCopies
<1> QED BY <1>1, <1>2, <1>3, <1>4, <1>5, KeepSerials

\* Shared locks, lock timeouts and the tid.
LEMMA LockStepTables ==
    ASSUME UInv, NEW c \in Client,
           \/ \E o \in Oid : LockShare(c, o)
           \/ ReCheck(c) \/ LockTimeout(c)
           \/ LockDatabaseAndMove(c, "prepared") \/ LockDatabaseAndMove(c, "moved")
    PROVE  TypeOK' /\ TableInv' /\ SerialInv' /\ HoldInv'
<1>0. TypeOK
  BY DEF UInv
<1> USE DEF database, locks, local, Goto
<1>1. TypeOK'
  <2> USE <1>0, ConstantsAssumption DEF TypeOK, Phases, ReleaseLocks, StatementFails
  <2>1. CASE \E o \in Oid : LockShare(c, o)
    <3>1. CASE StatementFails(c)
      BY <2>1, <3>1 DEF LockShare
    <3>2. CASE ~ StatementFails(c)
      <4>1. /\ \E p \in Phases : phase' = [phase EXCEPT ![c] = p]
            /\ \E o \in Oid : shared' = [shared EXCEPT ![c] = @ \cup {o}]
            /\ UNCHANGED <<exclusive, commitLock, database, packLock, local>>
        BY <2>1, <3>2 DEF LockShare
      <4> QED BY <4>1
    <3> QED BY <3>1, <3>2
  <2>2. CASE ReCheck(c) \/ LockTimeout(c)
    BY <2>2 DEF ReCheck, LockTimeout
  <2>3. CASE LockDatabaseAndMove(c, "prepared") \/ LockDatabaseAndMove(c, "moved")
    <3>1. PICK p \in {"prepared", "moved"} : LockDatabaseAndMove(c, p)
      BY <2>3
    <3>2. tid' \in [Client -> Nat]
      BY <3>1 DEF LockDatabaseAndMove, LockDatabaseAndChooseTid
    <3>3. commitLock' \in Client \cup {NoClient}
      BY <3>1 DEF LockDatabaseAndMove, LockDatabaseAndChooseTid
    <3>4. phase' \in [Client -> Phases]
      BY <3>1 DEF LockDatabaseAndMove
    <3> QED BY <3>1, <3>2, <3>3, <3>4 DEF LockDatabaseAndMove
  <2> QED BY <2>1, <2>2, <2>3
<1>2. HoldInv'
  BY <1>0 DEF UInv, HoldInv, TypeOK, LockShare, ReCheck, LockTimeout, StatementFails,
     LockDatabaseAndMove
<1>3. UNCHANGED <<database, view, temp, conflicts, undone>>
  BY DEF LockShare, ReCheck, LockTimeout, LockDatabaseAndMove
<1>4. UNCHANGED <<view, temp, conflicts, undone>> /\ UNCHANGED database
  BY <1>3
<1>5. TableInv' /\ SerialInv'
  BY <1>4, SameSerials
<1> QED BY <1>1, <1>2, <1>5

\* Rollback forgets the transaction.
LEMMA AbortTables ==
    ASSUME UInv, NEW c \in Client, EndTransaction(c), UNCHANGED database,
           UNCHANGED packLock \/ CloseSession(c)
    PROVE  TypeOK' /\ TableInv' /\ SerialInv' /\ HoldInv'
<1>0. TypeOK
  BY DEF UInv
<1>1. TypeOK'
  BY <1>0, ConstantsAssumption
  DEF TypeOK, Phases, Unset, EndTransaction, ReleaseLocks, CloseSession, database
<1>2. HoldInv'
  BY <1>0 DEF UInv, HoldInv, TypeOK, EndTransaction, CloseSession
<1>3. ASSUME NEW d \in Client, NEW o \in Oid
      PROVE  KeepsSerial(d, o)
  <2>1. CASE d = c
    BY <1>0, <2>1 DEF KeepsSerial, IsUndone, TypeOK, EndTransaction
  <2>2. CASE d # c
    <3>1. /\ view'[d] = view[d] /\ temp'[d] = temp[d] /\ conflicts'[d] = conflicts[d]
          /\ undone'[d] = undone[d]
      BY <1>0, <2>2 DEF TypeOK, EndTransaction
    <3> QED BY <3>1 DEF KeepsSerial, IsUndone
  <2> QED BY <2>1, <2>2
<1>4. \A d \in Client : KeepsCopies(d)
  BY <1>0 DEF TypeOK, EndTransaction, KeepsCopies
<1> QED BY <1>1, <1>2, <1>3, <1>4, KeepSerials

\* undo() copies revisions that exist: the ones before those of the
\* transaction it undoes.
LEMMA UndoCopiesType ==
    ASSUME UInv, NEW t
    PROVE  /\ UndoCopies(t) \subseteq [oid : Oid, prev : Nat, data : Nat]
           /\ \A r \in UndoCopies(t) : r.prev = current[r.oid]
<1>0. TypeOK
  BY DEF UInv
<1>1. TxnOids(t) \subseteq Oid
  BY <1>0 DEF TxnOids, TypeOK, Row
<1> DEFINE Before(o) == CHOOSE s \in RowAt(o, t) : TRUE
           Data(o) == IF Before(o).prev = 0 THEN 0
                      ELSE (CHOOSE s \in RowAt(o, Before(o).prev) : TRUE).data
<1>2. UndoCopies(t) = {[oid |-> o, prev |-> current[o], data |-> Data(o)] : o \in TxnOids(t)}
  BY DEF UndoCopies
<1>3. ASSUME NEW o \in TxnOids(t) PROVE Data(o) \in Nat
  <2>1. Before(o) \in RowAt(o, t)
    BY DEF TxnOids, RowAt
  <2>2. Before(o) \in rows /\ Before(o).oid = o
    BY <2>1 DEF RowAt
  <2> HIDE DEF Before
  <2>3. CASE Before(o).prev # 0
    <3>1. RowAt(o, Before(o).prev) # {}
      BY <2>2, <2>3 DEF UInv, SerialInv, HasRow, RowAt
    <3>2. (CHOOSE s \in RowAt(o, Before(o).prev) : TRUE) \in rows
      BY <3>1 DEF RowAt
    <3> QED BY <1>0, <2>3, <3>2 DEF TypeOK, Row
  <2> QED BY <2>3
<1> HIDE DEF Data
<1> QED BY <1>0, <1>1, <1>2, <1>3 DEF TypeOK

\* verify_undoable and undo.
LEMMA UndoStepTables ==
    ASSUME UInv, NEW c \in Client, UndoStep(c)
    PROVE  TypeOK' /\ TableInv' /\ SerialInv' /\ HoldInv'
<1>0. TypeOK
  BY DEF UInv
<1> USE DEF database, locks, local, Goto
<1>1. CASE \E t \in txns : UndoVerify(c, t)
  <2>1. PICK t \in txns : UndoVerify(c, t)
    BY <1>1
  <2>2. TypeOK'
    BY <1>0, <2>1 DEF TypeOK, Phases, UndoVerify
  <2>3. HoldInv'
    BY <1>0, <2>1 DEF UInv, HoldInv, TypeOK, UndoVerify
  <2>4. UNCHANGED database /\ UNCHANGED <<view, temp, conflicts, undone>>
    BY <2>1 DEF UndoVerify
  <2> QED BY <2>2, <2>3, <2>4, SameSerials
<1>2. CASE Undo(c)
  <2> DEFINE copies == UndoCopies(undoing[c])
             kept == {r \in undone[c] : r.oid \notin TxnOids(undoing[c])}
  <2>1. /\ copies \subseteq [oid : Oid, prev : Nat, data : Nat]
        /\ \A r \in copies : r.prev = current[r.oid]
    BY UndoCopiesType
  <2>2. kept \subseteq undone[c]
    OBVIOUS
  <2>3. /\ undone' = [undone EXCEPT ![c] = kept \cup copies]
        /\ undoing' = [undoing EXCEPT ![c] = 0]
        /\ packLock' = [packLock EXCEPT ![c] = @ - 1]
        /\ phase[c] = "undo" /\ phase' = [phase EXCEPT ![c] = "begin"]
        /\ LockDatabaseAndChooseTid(c)
        /\ UNCHANGED <<database, shared, exclusive, view, temp, required, conflicts>>
    BY <1>2, <1>0 DEF Undo, TypeOK
  <2> HIDE DEF copies, kept
  <2>4. packLock[c] - 1 \in Nat
    <3>1. packLock[c] \in Nat
      BY <1>0 DEF TypeOK
    <3>2. packLock[c] # 0
      BY <2>3 DEF UInv, HoldInv
    <3> QED BY <3>1, <3>2
  <2>5. commitLock' \in Client \cup {NoClient} /\ tid' \in [Client -> Nat]
    BY <1>0, <2>3 DEF LockDatabaseAndChooseTid, TypeOK
  <2>6. TypeOK'
    BY <1>0, <2>1, <2>2, <2>3, <2>4, <2>5 DEF TypeOK, Phases
  <2>7. HoldInv'
    BY <1>0, <2>3 DEF UInv, HoldInv, TypeOK
  <2>8. ASSUME NEW d \in Client
        PROVE  KeepsCopies(d)
    BY <1>0, <2>1, <2>2, <2>3, <2>8 DEF TypeOK, KeepsCopies
  <2>9. ASSUME NEW d \in Client, NEW o, IsUndone(d, o) PROVE IsUndone(d, o)'
    <3>1. PICK r \in undone[d] : r.oid = o
      BY <2>9 DEF IsUndone
    <3>2. \E s \in undone'[d] : s.oid = o
      <4>1. CASE d = c /\ o \in TxnOids(undoing[c])
        <5>1. \E s \in copies : s.oid = o
          <6> DEFINE Data(p) == LET q == CHOOSE u \in RowAt(p, undoing[c]) : TRUE IN
                         IF q.prev = 0 THEN 0 ELSE (CHOOSE u \in RowAt(p, q.prev) : TRUE).data
          <6>1. copies = {[oid |-> p, prev |-> current[p], data |-> Data(p)] :
                          p \in TxnOids(undoing[c])}
            BY DEF copies, UndoCopies
          <6> HIDE DEF Data
          <6> DEFINE q == [oid |-> o, prev |-> current[o], data |-> Data(o)]
          <6>2. q \in copies /\ q.oid = o
            BY <4>1, <6>1
          <6> HIDE DEF q
          <6> QED BY <6>2
        <5> QED BY <1>0, <2>3, <4>1, <5>1 DEF TypeOK
      <4>2. CASE d = c /\ o \notin TxnOids(undoing[c])
        <5>1. r \in kept
          BY <3>1, <4>2 DEF kept
        <5> QED BY <1>0, <2>3, <3>1, <4>2, <5>1 DEF TypeOK
      <4>3. CASE d # c
        BY <1>0, <2>3, <3>1, <4>3 DEF TypeOK
      <4> QED BY <4>1, <4>2, <4>3
    <3> QED BY <3>2 DEF IsUndone
  <2>10. \A d \in Client, o \in Oid : KeepsSerial(d, o)
    <3>1. ASSUME NEW d \in Client, NEW o \in Oid PROVE KeepsSerial(d, o)
      BY <2>3, <2>9 DEF KeepsSerial
    <3> QED BY <3>1
  <2>11. UNCHANGED database
    BY <2>3
  <2>12. TableInv' /\ SerialInv'
    BY <2>8, <2>10, <2>11, KeepSerials
  <2> QED BY <2>6, <2>7, <2>12
<1>3. CASE MoveFails(c)
  BY <1>3, AbortTables DEF MoveFails
<1> QED BY <1>1, <1>2, <1>3 DEF UndoStep

\* The rows COMMIT adds: one of the new tid for every object that was stored
\* or undone, on top of a revision that exists.
LEMMA NewRows ==
    ASSUME UInv, NEW c \in Client, phase[c] \in {"prepared", "moved"}
    PROVE  /\ MovedRows(c) \cup UndoneRows(c) \subseteq Row
           /\ \A r \in MovedRows(c) \cup UndoneRows(c) :
                 /\ r.tid = tid[c]
                 /\ r.oid \in Stored(c) \cup Undone(c)
                 /\ r.prev # 0 => HasRow(r.oid, r.prev)
           /\ \A o \in Stored(c) \cup Undone(c) :
                 \E r \in MovedRows(c) \cup UndoneRows(c) : r.oid = o
           /\ Stored(c) \cup Undone(c) \subseteq Oid
<1>0. TypeOK /\ SerialInv
  BY DEF UInv
<1>1. Stored(c) \subseteq Oid /\ \A o \in Stored(c) : temp[c][o] \in Nat
  BY <1>0 DEF TypeOK, Stored
<1>2. \A r \in undone[c] : r.oid \in Oid /\ r.prev \in Nat /\ r.data \in Nat /\ r.oid \in Undone(c)
  BY <1>0 DEF TypeOK, Undone
<1>3. tid[c] \in Nat
  BY <1>0 DEF TypeOK
<1>4. ASSUME NEW r \in MovedRows(c)
      PROVE  r \in Row /\ r.tid = tid[c] /\ r.oid \in Stored(c)
             /\ (r.prev # 0 => HasRow(r.oid, r.prev))
  <2>1. PICK o \in Stored(c) :
           r = [oid |-> o, tid |-> tid[c], prev |-> temp[c][o], data |-> tid[c]]
    BY <1>4 DEF MovedRows
  <2>2. temp[c][o] # 0 => HasRow(o, temp[c][o])
    BY <1>0, <1>1 DEF SerialInv, Stored, Undone, IsUndone, UInv, MoveInv
  <2> QED BY <1>1, <1>3, <2>1, <2>2 DEF Row
<1>5. ASSUME NEW r \in UndoneRows(c)
      PROVE  r \in Row /\ r.tid = tid[c] /\ r.oid \in Undone(c)
             /\ (r.prev # 0 => HasRow(r.oid, r.prev))
  <2>1. PICK u \in undone[c] :
           r = [oid |-> u.oid, tid |-> tid[c], prev |-> u.prev, data |-> u.data]
    BY <1>5 DEF UndoneRows
  <2>2. u.prev # 0 => HasRow(u.oid, u.prev)
    BY <1>0 DEF SerialInv
  <2> QED BY <1>2, <1>3, <2>1, <2>2 DEF Row
<1>6. \A o \in Stored(c) : \E r \in MovedRows(c) : r.oid = o
  <2> SUFFICES ASSUME NEW o \in Stored(c) PROVE \E r \in MovedRows(c) : r.oid = o
    OBVIOUS
  <2> DEFINE r == [oid |-> o, tid |-> tid[c], prev |-> temp[c][o], data |-> tid[c]]
  <2>1. r \in MovedRows(c) /\ r.oid = o
    BY DEF MovedRows
  <2> QED BY <2>1
<1>7. \A o \in Undone(c) : \E r \in UndoneRows(c) : r.oid = o
  <2> SUFFICES ASSUME NEW o \in Undone(c) PROVE \E r \in UndoneRows(c) : r.oid = o
    OBVIOUS
  <2>1. PICK u \in undone[c] : u.oid = o
    BY DEF Undone
  <2> DEFINE r == [oid |-> u.oid, tid |-> tid[c], prev |-> u.prev, data |-> u.data]
  <2>2. r \in UndoneRows(c) /\ r.oid = o
    BY <2>1 DEF UndoneRows
  <2> QED BY <2>2
<1>8. Undone(c) \subseteq Oid
  BY <1>2 DEF Undone
<1> QED BY <1>1, <1>4, <1>5, <1>6, <1>7, <1>8

\* COMMIT: current_object names the new rows, which are the newest.
LEMMA CommitTables ==
    ASSUME UInv, NEW c \in Client, CommitPhase2(c)
    PROVE  TypeOK' /\ TableInv' /\ SerialInv' /\ HoldInv'
<1> DEFINE new == MovedRows(c) \cup UndoneRows(c)
           W == Stored(c) \cup Undone(c)
<1>0. TypeOK /\ TableInv /\ SerialInv /\ HoldInv /\ OrderInv
  BY DEF UInv
<1>1. /\ new \subseteq Row /\ W \subseteq Oid
      /\ \A r \in new : r.tid = tid[c] /\ r.oid \in W
      /\ \A r \in new : r.prev # 0 => HasRow(r.oid, r.prev)
      /\ \A o \in W : \E r \in new : r.oid = o
  BY NewRows DEF CommitPhase2
<1>2. /\ rows' = rows \cup new
      /\ current' = [o \in Oid |-> IF o \in W THEN tid[c] ELSE current[o]]
      /\ txns' = txns \cup {tid[c]}
      /\ EndTransaction(c)
      /\ UNCHANGED packLock
  BY DEF CommitPhase2
<1>3. /\ tid[c] \in Nat /\ tid[c] # 0
      /\ \A s \in txns : s < tid[c]
  BY <1>0 DEF OrderInv, CommitPhase2
<1> HIDE DEF new, W
<1>4. TypeOK'
  <2>1. rows' \subseteq Row /\ current' \in [Oid -> Nat] /\ txns' \subseteq Nat
    BY <1>0, <1>1, <1>2, <1>3 DEF TypeOK
  <2> QED BY <1>0, <1>2, <2>1, ConstantsAssumption
      DEF TypeOK, Phases, Unset, EndTransaction, ReleaseLocks
<1>5. HoldInv'
  BY <1>0, <1>2 DEF HoldInv, TypeOK, EndTransaction
<1>6. \A o, t : HasRow(o, t) => HasRow(o, t)'
  BY <1>2 DEF HasRow
<1>7. TableInv'
  <2>1. ASSUME NEW r \in rows'
        PROVE  r.tid <= current'[r.oid] /\ r.tid # 0
    <3>1. CASE r \in new
      BY <1>1, <1>2, <1>3, <3>1
    <3>2. CASE r \in rows
      <4>1. r.oid \in Oid /\ r.tid \in Nat /\ current[r.oid] \in Nat
        BY <1>0, <3>2 DEF TypeOK, Row
      <4>2. r.tid <= current[r.oid] /\ r.tid # 0
        BY <1>0, <3>2 DEF TableInv
      <4>3. current[r.oid] \in txns
        BY <1>0, <4>1, <4>2 DEF TableInv
      <4>4. current[r.oid] < tid[c]
        BY <1>3, <4>3
      <4> QED BY <1>2, <1>3, <4>1, <4>2, <4>4
    <3> QED BY <1>2, <2>1, <3>1, <3>2
  <2>2. ASSUME NEW o \in Oid, current'[o] # 0
        PROVE  current'[o] \in txns' /\ \E r \in rows' : r.oid = o /\ r.tid = current'[o]
    <3>1. CASE o \in W
      BY <1>1, <1>2, <3>1
    <3>2. CASE o \notin W
      BY <1>0, <1>2, <2>2, <3>2 DEF TableInv
    <3> QED BY <3>1, <3>2
  <2> QED BY <2>1, <2>2 DEF TableInv
<1>8. SerialInv'
  <2>1. \A r \in rows' : r.prev # 0 => HasRow(r.oid, r.prev)'
    BY <1>0, <1>1, <1>2, <1>6 DEF SerialInv
  <2>2. ASSUME NEW d \in Client, NEW o \in Oid
        PROVE  /\ view'[d][o] \in {0, view[d][o]}
               /\ temp'[d][o] \in {Unset, temp[d][o]}
               /\ conflicts'[d][o] \in {Unset, conflicts[d][o]}
               /\ IsUndone(d, o) => \/ IsUndone(d, o)'
                                    \/ temp'[d][o] = Unset /\ conflicts'[d][o] = Unset
    <3>1. CASE d = c
      BY <1>0, <1>2, <3>1 DEF TypeOK, EndTransaction
    <3>2. CASE d # c
      <4>1. /\ view'[d] = view[d] /\ temp'[d] = temp[d] /\ conflicts'[d] = conflicts[d]
            /\ undone'[d] = undone[d]
        BY <1>0, <1>2, <3>2 DEF TypeOK, EndTransaction
      <4> QED BY <4>1 DEF IsUndone
    <3> QED BY <3>1, <3>2
  <2>3. ASSUME NEW d \in Client, NEW o \in Oid
        PROVE  /\ view'[d][o] # 0 => HasRow(o, view[d][o])'
               /\ temp'[d][o] \notin {0, Unset} => HasRow(o, temp[d][o])' \/ IsUndone(d, o)'
               /\ conflicts'[d][o] \notin {0, Unset} => HasRow(o, conflicts[d][o])' \/ IsUndone(d, o)'
    <3>1. /\ view[d][o] # 0 => HasRow(o, view[d][o])
          /\ temp[d][o] \notin {0, Unset} => HasRow(o, temp[d][o]) \/ IsUndone(d, o)
          /\ conflicts[d][o] \notin {0, Unset} => HasRow(o, conflicts[d][o]) \/ IsUndone(d, o)
      BY <1>0 DEF SerialInv
    <3>2. view'[d][o] # 0 => HasRow(o, view[d][o])'
      BY <1>6, <2>2, <3>1
    <3>3. temp'[d][o] \notin {0, Unset} => HasRow(o, temp[d][o])' \/ IsUndone(d, o)'
      BY <1>6, <2>2, <3>1
    <3>4. conflicts'[d][o] \notin {0, Unset} => HasRow(o, conflicts[d][o])' \/ IsUndone(d, o)'
      BY <1>6, <2>2, <3>1
    <3> QED BY <3>2, <3>3, <3>4
  <2>4. \A d \in Client : undone'[d] \subseteq undone[d]
    BY <1>0, <1>2 DEF TypeOK, EndTransaction
  <2>5. \A d \in Client : \A r \in undone'[d] : r.prev # 0 => HasRow(r.oid, r.prev)'
    BY <1>0, <1>6, <2>4 DEF SerialInv
  <2> QED BY <2>1, <2>3, <2>5 DEF SerialInv, Unset
<1> QED BY <1>4, <1>5, <1>7, <1>8

\* Only the move leads to the phases in which rows are moved, and they keep
\* what was stored and undone.
LEMMA NextMove ==
    ASSUME UInv, [Next]_vars
    PROVE  MoveInv'
<1>0. TypeOK /\ MoveInv
  BY DEF UInv
<1> SUFFICES ASSUME NEW d \in Client, phase'[d] \in {"prepared", "moved"}
    PROVE  Stored(d)' \cap Undone(d)' = {}
  BY DEF MoveInv
<1>1. SUFFICES /\ UNCHANGED <<temp[d], undone[d]>>
               /\ phase[d] = phase'[d] \/ Stored(d) \cap Undone(d) = {}
  BY <1>0 DEF MoveInv, Stored, Undone
<1>2. CASE UNCHANGED vars
  BY <1>2 DEF vars, local
<1>3. CASE Next
  <2>1. PICK c \in Client : WriteStep(c) \/ ReadCurrentStep(c) \/ DatabaseStep(c) \/ UndoStep(c)
    BY <1>3 DEF Next
  <2> USE <1>0 DEF TypeOK, database, locks, local, Goto, StatementFails
  <2>2. CASE EndTransaction(c)
    BY <2>2 DEF EndTransaction
  <2>3. CASE LockDatabaseAndMove(c, "prepared") \/ LockDatabaseAndMove(c, "moved")
    BY <2>3 DEF LockDatabaseAndMove
  <2>4. CASE \/ TpcBegin(c) \/ TpcVote(c) \/ DetectConflicts(c) \/ ResolveConflicts(c)
             \/ CannotResolve(c) \/ \E o \in Oid : Store(c, o) \/ LockExclusive(c, o)
    BY <2>4 DEF TpcBegin, TpcVote, DetectConflicts, ResolveConflicts, CannotResolve, Store,
       LockExclusive
  <2>5. CASE ReadCurrentStep(c) \/ LockTimeout(c)
    BY <2>5 DEF ReadCurrentStep, CheckCurrentSerial, PreCheck, LockShare, ReCheck, LockTimeout
  <2>6. CASE Undo(c) \/ \E t \in txns : UndoVerify(c, t)
    BY <2>6 DEF Undo, UndoVerify
  <2> QED BY <2>1, <2>2, <2>3, <2>4, <2>5, <2>6
      DEF WriteStep, DatabaseStep, UndoStep, CommitPhase2, AbortFailed, TpcAbort,
          CommitLockTimeout, Disconnect, MoveFails
<1> QED BY <1>2, <1>3

\* Every step of every kind of transaction keeps the tables consistent.
LEMMA NextTables == UInv /\ [Next]_vars => UInv'
<1> SUFFICES ASSUME UInv, [Next]_vars PROVE UInv'
  OBVIOUS
<1>1. OrderInv' /\ MoveInv'
  BY NextOrder, NextMove DEF UInv
<1>2. TypeOK' /\ TableInv' /\ SerialInv' /\ HoldInv'
  <2>1. CASE UNCHANGED vars
    <3>1. TypeOK' /\ HoldInv'
      BY <2>1 DEF UInv, TypeOK, HoldInv, vars, database, locks, local
    <3>2. UNCHANGED <<view, temp, conflicts, undone>> /\ UNCHANGED database
      BY <2>1 DEF vars, database, local
    <3> QED BY <3>1, <3>2, SameSerials
  <2>2. CASE Next
    <3>1. PICK c \in Client : \/ WriteStep(c) \/ ReadCurrentStep(c)
                              \/ DatabaseStep(c) \/ UndoStep(c)
      BY <2>2 DEF Next
    <3>2. CASE \/ TpcBegin(c) \/ TpcVote(c) \/ PreCheck(c) \/ DetectConflicts(c)
               \/ ResolveConflicts(c) \/ CannotResolve(c)
               \/ \E o \in Oid : Store(c, o)
               \/ \E o \in Oid : CheckCurrentSerial(c, o)
               \/ \E o \in Oid : LockExclusive(c, o)
      BY <3>2, OwnStepTables
    <3>3. CASE \/ \E o \in Oid : LockShare(c, o)
               \/ ReCheck(c) \/ LockTimeout(c)
               \/ LockDatabaseAndMove(c, "prepared") \/ LockDatabaseAndMove(c, "moved")
      BY <3>3, LockStepTables
    <3>4. CASE AbortFailed(c) \/ TpcAbort(c) \/ CommitLockTimeout(c) \/ Disconnect(c)
      BY <3>4, AbortTables DEF AbortFailed, TpcAbort, CommitLockTimeout, Disconnect
    <3>5. CASE CommitPhase2(c)
      BY <3>5, CommitTables
    <3>6. CASE UndoStep(c)
      BY <3>6, UndoStepTables
    <3> QED BY <3>1, <3>2, <3>3, <3>4, <3>5, <3>6
        DEF WriteStep, ReadCurrentStep, DatabaseStep
  <2> QED BY <2>1, <2>2
<1> QED BY <1>1, <1>2 DEF UInv

\* The new database has one row for each initial object.
LEMMA InitTables == Init => UInv
<1> SUFFICES ASSUME Init PROVE UInv
  OBVIOUS
<1>1. TypeOK /\ TableInv
  BY InitInv DEF IInv
<1>2. OrderInv /\ HoldInv /\ MoveInv
  BY DEF Init, OrderInv, HoldInv, MoveInv, Phases, InitTid
<1>3. SerialInv
  BY DEF Init, SerialInv, Unset
<1> QED BY <1>1, <1>2, <1>3 DEF UInv

\* The tables stay consistent in every execution.
THEOREM TablesInductive == Spec => []UInv
BY InitTables, NextTables, PTL DEF Spec

\* Type correctness for all transactions: undo() always finds the revision
\* it copies, and never releases a pack lock that it does not hold.
THEOREM AllTypeOK == Spec => []TypeOK
<1>1. UInv => TypeOK
  BY DEF UInv
<1> QED BY <1>1, TablesInductive, PTL

\* current_object names the newest revision of every object, whatever
\* transactions store, undo and fail.
THEOREM CurrentRowIsNewest == Spec => []CurrentIsNewest
<1>1. UInv => CurrentIsNewest
  <2> SUFFICES ASSUME UInv, NEW r \in rows
      PROVE  /\ r.tid <= current[r.oid]
             /\ \E s \in rows : s.oid = r.oid /\ s.tid = current[r.oid]
    BY DEF CurrentIsNewest
  <2>1. r.oid \in Oid /\ r.tid \in Nat /\ current[r.oid] \in Nat
    BY DEF UInv, TypeOK, Row
  <2>2. r.tid <= current[r.oid] /\ r.tid # 0
    BY DEF UInv, TableInv
  <2>3. current[r.oid] # 0
    BY <2>1, <2>2
  <2> QED BY <2>1, <2>2, <2>3 DEF UInv, TableInv
<1> QED BY <1>1, TablesInductive, PTL

=============================================================================
