------------------------------ MODULE TpcCommit ------------------------------
(***************************************************************************)
(* Two-phase commit of concurrent RelStorage instances against one         *)
(* history-preserving database: tpc_begin, store, readCurrent, tpc_vote    *)
(* (row locks, conflict detection, conflict resolution), tpc_finish        *)
(* (commit lock, tid allocation, move, COMMIT), tpc_abort, and undo.       *)
(*                                                                         *)
(* The lock procedure is the PostgreSQL one.  The MySQL procedure and the  *)
(* composed Python fallback take the same steps without PreCheck.          *)
(* In a history-free database `rows' is a history variable: only the row   *)
(* that `current' names exists.                                            *)
(***************************************************************************)
EXTENDS Integers, FiniteSets

CONSTANTS
    Client,     \* storage instances, one thread and one transaction at a time
    Oid,        \* object ids
    Root,       \* the oid of the root object
    InitOids,   \* the objects that exist at the start
    Owner,      \* [Oid -> Client]: the instance new_oid() gave an oid to
    MaxTid,     \* bound: the last transaction id
    MaxHolds,   \* bound: how often one session holds the pack lock
    NoClient

ASSUME ConstantsAssumption ==
    /\ IsFiniteSet(Client)
    /\ Oid \subseteq Nat
    /\ InitOids \subseteq Oid
    /\ Owner \in [Oid -> Client]
    /\ MaxTid \in Nat
    /\ MaxHolds \in Nat
    /\ NoClient \notin Client

VARIABLES
    rows, current, txns,                      \* the committed tables
    shared, exclusive, commitLock,            \* locks of a database transaction
    packLock,                                 \* holds of a database session
    phase,      \* the instance's tpc phase and where in the phase it is
    view,       \* the serials visible in the instance's load snapshot
    temp,       \* temp_store: the prev_tid stored for each oid, or Unset
    required,   \* required_tids: the readCurrent() serial of an oid, or Unset
    conflicts,  \* the committed tid detect_conflict returned, or Unset
    tid,        \* committing_tid, 0 until it is allocated
    undoing,    \* the tid undo() verified, 0 outside undo()
    undone      \* uncommitted [oid, prev, data] rows that undo() copied

database == <<rows, current, txns>>
locks == <<shared, exclusive, commitLock, packLock>>
local == <<view, temp, required, conflicts, tid, undoing, undone>>
vars == <<database, locks, phase, local>>

Unset == -1
InitTid == 1

Phases == {"idle", "begin", "undo", "precheck", "share", "recheck", "exclusive",
           "resolve", "voted", "prepared", "moved", "failed"}

\* Phases from detect_conflict's success to the end of the transaction.
Validated == {"voted", "prepared", "moved"}

Init ==
    /\ rows = {[oid |-> o, tid |-> InitTid, prev |-> 0, data |-> InitTid] : o \in InitOids}
    /\ current = [o \in Oid |-> IF o \in InitOids THEN InitTid ELSE 0]
    /\ txns = {InitTid}
    /\ shared = [c \in Client |-> {}]
    /\ exclusive = [c \in Client |-> {}]
    /\ commitLock = NoClient
    /\ packLock = [c \in Client |-> 0]
    /\ phase = [c \in Client |-> "idle"]
    /\ view = [c \in Client |-> [o \in Oid |-> 0]]
    /\ temp = [c \in Client |-> [o \in Oid |-> Unset]]
    /\ required = [c \in Client |-> [o \in Oid |-> Unset]]
    /\ conflicts = [c \in Client |-> [o \in Oid |-> Unset]]
    /\ tid = [c \in Client |-> 0]
    /\ undoing = [c \in Client |-> 0]
    /\ undone = [c \in Client |-> {}]

-----------------------------------------------------------------------------
(* Operators on one instance's transaction. *)

Stored(c) == {o \in Oid : temp[c][o] # Unset}
ReadCurrent(c) == {o \in Oid : required[c][o] # Unset}
Undone(c) == {r.oid : r \in undone[c]}

\* The tid current_object gives in c's own database transaction, where undo()
\* has updated it already.
OwnTid(c, o) == IF o \in Undone(c) THEN tid[c] ELSE current[o]

\* A readCurrent() object whose tid is not the declared one.
\* The inner join ignores an object that has no row.
Mismatches(c) ==
    {o \in ReadCurrent(c) : current[o] # 0 /\ OwnTid(c, o) # required[c][o]}

\* The rows FOR UPDATE names: stored objects that are not new and exist.
RowsToLock(c) == {o \in Stored(c) : temp[c][o] # 0 /\ current[o] # 0}

\* The rows detect_conflict returns.
Conflicting(c) == {o \in Stored(c) : current[o] # 0 /\ OwnTid(c, o) # temp[c][o]}

HeldByAnother(c, o) == \E d \in Client \ {c} : o \in shared[d] \cup exclusive[d]

\* Mutant: FOR UPDATE without ORDER BY.
IsAnyRow(c, o) == o \in RowsToLock(c) \ exclusive[c]

\* The next row the ordered FOR UPDATE statement asks for.
IsNextRow(c, o) ==
    /\ o \in RowsToLock(c) \ exclusive[c]
    /\ \A p \in RowsToLock(c) \ exclusive[c] : o <= p

\* The database transaction ends, or fails: its locks go.  The pack lock
\* belongs to the session and stays.
ReleaseLocks(c) ==
    /\ shared' = [shared EXCEPT ![c] = {}]
    /\ exclusive' = [exclusive EXCEPT ![c] = {}]
    /\ commitLock' = IF commitLock = c THEN NoClient ELSE commitLock

\* The shared state's resources are cleaned up and the phase is
\* NotInTransaction again.
EndTransaction(c) ==
    /\ ReleaseLocks(c)
    /\ phase' = [phase EXCEPT ![c] = "idle"]
    /\ view' = [view EXCEPT ![c] = [o \in Oid |-> 0]]
    /\ temp' = [temp EXCEPT ![c] = [o \in Oid |-> Unset]]
    /\ required' = [required EXCEPT ![c] = [o \in Oid |-> Unset]]
    /\ conflicts' = [conflicts EXCEPT ![c] = [o \in Oid |-> Unset]]
    /\ tid' = [tid EXCEPT ![c] = 0]
    /\ undoing' = [undoing EXCEPT ![c] = 0]
    /\ undone' = [undone EXCEPT ![c] = {}]

Goto(c, p) == phase' = [phase EXCEPT ![c] = p]

\* A statement raises an error: the locks go before Python hears of it.
StatementFails(c) ==
    /\ ReleaseLocks(c)
    /\ Goto(c, "failed")

\* The connection is lost or dropped.
CloseSession(c) == packLock' = [packLock EXCEPT ![c] = 0]

-----------------------------------------------------------------------------
(* tpc_begin, store, checkCurrentSerialInTransaction. *)

\* The application began its transaction with a poll and read the objects in
\* that snapshot; nothing it does before tpc_begin is visible to others.
TpcBegin(c) ==
    /\ phase[c] = "idle"
    /\ Goto(c, "begin")
    /\ view' = [view EXCEPT ![c] = current]
    /\ UNCHANGED <<database, locks, temp, required, conflicts, tid, undoing, undone>>

\* A new object is stored by the instance that allocated its oid.
Store(c, o) ==
    /\ phase[c] = "begin"
    /\ o \notin Stored(c)
    /\ view[c][o] = 0 => Owner[o] = c
    /\ temp' = [temp EXCEPT ![c][o] = view[c][o]]
    /\ UNCHANGED <<database, locks, phase, view, required, conflicts, tid, undoing, undone>>

\* readCurrent() of an object that was loaded.  A repeated call gives the
\* same serial; the cache's early ReadConflictError is an abort.
CheckCurrentSerial(c, o) ==
    /\ phase[c] = "begin"
    /\ view[c][o] # 0
    /\ required[c][o] = Unset
    /\ required' = [required EXCEPT ![c][o] = view[c][o]]
    /\ UNCHANGED <<database, locks, phase, view, temp, conflicts, tid, undoing, undone>>

-----------------------------------------------------------------------------
(* tpc_vote: flush the temporary data, lock_objects_and_detect_conflicts,  *)
(* resolve the conflicts.                                                  *)

TpcVote(c) ==
    /\ phase[c] = "begin"
    /\ Goto(c, IF ReadCurrent(c) = {} THEN "exclusive" ELSE "precheck")
    /\ UNCHANGED <<database, locks, local>>

PreCheck(c) ==
    /\ phase[c] = "precheck"
    /\ Goto(c, IF Mismatches(c) # {} THEN "failed" ELSE "share")
    /\ UNCHANGED <<database, locks, local>>

ShareRefused(c, o) == \E d \in Client \ {c} : o \in exclusive[d]

\* pg_try_advisory_xact_lock_shared on one readCurrent() oid after the other,
\* in their order: it never waits, and one refusal fails the vote.
LockShare(c, o) ==
    /\ phase[c] = "share"
    /\ o \in ReadCurrent(c) \ shared[c]
    /\ \A p \in ReadCurrent(c) \ shared[c] : o <= p
    /\ \/ /\ ShareRefused(c, o)
          /\ StatementFails(c)
       \/ /\ ~ ShareRefused(c, o)
          /\ Goto(c, IF ReadCurrent(c) \subseteq shared[c] \cup {o} THEN "recheck" ELSE "share")
          /\ shared' = [shared EXCEPT ![c] = @ \cup {o}]
          /\ UNCHANGED <<exclusive, commitLock>>
    /\ UNCHANGED <<database, packLock, local>>

\* Mutant: the check made before locking is trusted.
TrustPreCheck(c) ==
    /\ phase[c] = "recheck"
    /\ Goto(c, "exclusive")
    /\ UNCHANGED <<database, locks, local>>

\* The objects cannot change once they are locked, so look again.
ReCheck(c) ==
    /\ phase[c] = "recheck"
    /\ \/ /\ Mismatches(c) # {}
          /\ StatementFails(c)
       \/ /\ Mismatches(c) = {}
          /\ Goto(c, "exclusive")
          /\ UNCHANGED <<shared, exclusive, commitLock>>
    /\ UNCHANGED <<database, packLock, local>>

\* One row of the ordered exclusive lock statement; it waits for the others.
LockExclusive(c, o) ==
    /\ phase[c] = "exclusive"
    /\ IsNextRow(c, o)
    /\ ~ HeldByAnother(c, o)
    /\ exclusive' = [exclusive EXCEPT ![c] = @ \cup {o}]
    /\ UNCHANGED <<database, shared, commitLock, packLock, phase, local>>

\* Mutant: on a conflict the statement is run again with the same data.
DetectAgain(c) ==
    /\ phase[c] = "exclusive"
    /\ RowsToLock(c) \subseteq exclusive[c]
    /\ Goto(c, IF Conflicting(c) = {} THEN "voted" ELSE "exclusive")
    /\ UNCHANGED <<database, locks, local>>

DetectConflicts(c) ==
    /\ phase[c] = "exclusive"
    /\ RowsToLock(c) \subseteq exclusive[c]
    /\ conflicts' = [conflicts EXCEPT ![c] =
           [o \in Oid |-> IF o \in Conflicting(c) THEN OwnTid(c, o) ELSE Unset]]
    /\ Goto(c, IF Conflicting(c) = {} THEN "voted" ELSE "resolve")
    /\ UNCHANGED <<database, locks, view, temp, required, tid, undoing, undone>>

\* Mutant: the merged state is stored with the tid of the state it replaced.
ResolveKeepsSerial(c) ==
    /\ phase[c] = "resolve"
    /\ Goto(c, "voted")
    /\ UNCHANGED <<database, locks, local>>

\* Every conflict is merged with the committed state that was returned, and
\* stored again with that state's tid; or one of them cannot be.
ResolveConflicts(c) ==
    /\ phase[c] = "resolve"
    /\ temp' = [temp EXCEPT ![c] =
           [o \in Oid |-> IF conflicts[c][o] # Unset THEN conflicts[c][o] ELSE temp[c][o]]]
    /\ Goto(c, "voted")
    /\ UNCHANGED <<database, locks, view, required, conflicts, tid, undoing, undone>>

CannotResolve(c) ==
    /\ phase[c] = "resolve"
    /\ Goto(c, "failed")
    /\ UNCHANGED <<database, locks, local>>

-----------------------------------------------------------------------------
(* tpc_finish. *)

\* Mutant: tids are allocated without the commit lock.
ChooseTidUnlocked(c) ==
    /\ \E t \in 1..MaxTid :
          /\ \A s \in txns : s < t
          /\ tid' = [tid EXCEPT ![c] = IF @ = 0 THEN t ELSE @]
    /\ UNCHANGED commitLock

\* Take the commit lock and allocate a tid later than every committed one:
\* the clock, or one more than the last tid when the clock is behind it.
LockDatabaseAndChooseTid(c) ==
    \/ /\ tid[c] # 0
       /\ UNCHANGED <<commitLock, tid>>
    \/ /\ tid[c] = 0
       /\ commitLock = NoClient
       /\ commitLock' = c
       /\ \E t \in 1..MaxTid :
             /\ \A s \in txns : s < t
             /\ tid' = [tid EXCEPT ![c] = t]

\* In tpc_vote when a shared blob directory needs the tid (vote_only), else
\* in tpc_finish.  The moved rows are invisible until COMMIT; see MoveFails.
LockDatabaseAndMove(c, p) ==
    /\ phase[c] = "voted"
    /\ Stored(c) \cap Undone(c) = {}
    /\ LockDatabaseAndChooseTid(c)
    /\ Goto(c, p)
    /\ UNCHANGED <<database, shared, exclusive, packLock,
                   view, temp, required, conflicts, undoing, undone>>

MovedRows(c) ==
    {[oid |-> o, tid |-> tid[c], prev |-> temp[c][o], data |-> tid[c]] : o \in Stored(c)}
UndoneRows(c) ==
    {[oid |-> r.oid, tid |-> tid[c], prev |-> r.prev, data |-> r.data] : r \in undone[c]}

\* Mutant: no transaction row is added.
CommitWithoutTransaction(c) ==
    /\ phase[c] \in {"prepared", "moved"}
    /\ rows' = rows \cup MovedRows(c) \cup UndoneRows(c)
    /\ current' = [o \in Oid |-> IF o \in Stored(c) \cup Undone(c) THEN tid[c] ELSE current[o]]
    /\ EndTransaction(c)
    /\ UNCHANGED <<txns, packLock>>

\* Mutant: current_object is not updated for the undone objects.
CommitWithoutUpdateCurrent(c) ==
    /\ phase[c] \in {"prepared", "moved"}
    /\ rows' = rows \cup MovedRows(c) \cup UndoneRows(c)
    /\ current' = [o \in Oid |-> IF o \in Stored(c) THEN tid[c] ELSE current[o]]
    /\ txns' = txns \cup {tid[c]}
    /\ EndTransaction(c)
    /\ UNCHANGED packLock

CommitPhase2(c) ==
    /\ phase[c] \in {"prepared", "moved"}
    /\ rows' = rows \cup MovedRows(c) \cup UndoneRows(c)
    /\ current' = [o \in Oid |-> IF o \in Stored(c) \cup Undone(c) THEN tid[c] ELSE current[o]]
    /\ txns' = txns \cup {tid[c]}
    /\ EndTransaction(c)
    /\ UNCHANGED packLock

-----------------------------------------------------------------------------
(* Failure. *)

\* Waiting for a row, or for the commit lock.
WaitsForRow(c) ==
    /\ phase[c] = "exclusive"
    /\ \E o \in Oid : IsNextRow(c, o) /\ HeldByAnother(c, o)

WaitsForCommitLock(c) ==
    /\ phase[c] \in {"voted", "undo"}
    /\ tid[c] = 0
    /\ commitLock # NoClient

\* The lock timeout expires, or the deadlock detector chooses this session.
\* In undo() the release of the pack lock is a statement too, and fails in
\* the failed database transaction.
LockTimeout(c) ==
    /\ \/ WaitsForRow(c)
       \/ phase[c] = "undo" /\ WaitsForCommitLock(c)
    /\ StatementFails(c)
    /\ UNCHANGED <<database, packLock, local>>

\* The same in tpc_vote's move or in tpc_finish: an unexpected error, for
\* which the abort drops the connection.
CommitLockTimeout(c) ==
    /\ phase[c] = "voted" /\ WaitsForCommitLock(c)
    /\ EndTransaction(c)
    /\ CloseSession(c)
    /\ UNCHANGED database

\* Mutant: the abort also releases the pack lock, held or not.
AbortReleasesPackLock(c) ==
    /\ phase[c] = "failed"
    /\ EndTransaction(c)
    /\ packLock' = [packLock EXCEPT ![c] = @ - 1]
    /\ UNCHANGED database

\* storage.tpc_vote aborts on any exception before it re-raises it; the
\* transaction manager aborts when undo() raises one.
AbortFailed(c) ==
    /\ phase[c] = "failed"
    /\ EndTransaction(c)
    /\ UNCHANGED <<database, packLock>>

\* tpc_abort called by the transaction manager between two calls.
TpcAbort(c) ==
    /\ phase[c] \in {"begin", "voted", "prepared"}
    /\ EndTransaction(c)
    /\ UNCHANGED <<database, packLock>>

\* The session is lost before COMMIT; the next call fails and aborts.
Disconnect(c) ==
    /\ phase[c] \notin {"idle", "failed"}
    /\ EndTransaction(c)
    /\ CloseSession(c)
    /\ UNCHANGED database

-----------------------------------------------------------------------------
(* undo, in history-preserving storages. *)

RowAt(o, t) == {r \in rows : r.oid = o /\ r.tid = t}
TxnOids(t) == {r.oid : r \in {s \in rows : s.tid = t}}

\* The data of the current row of o as c's own transaction sees it.
CurrentData(c, o) ==
    IF o \in Undone(c)
    THEN (CHOOSE r \in undone[c] : r.oid = o).data
    ELSE (CHOOSE r \in RowAt(o, current[o]) : TRUE).data

\* SQL's <> on md5 sums is not true when either of them is NULL (data 0).
StatesDiffer(a, b) == a # 0 /\ b # 0 /\ a # b

Undoable(c, t) ==
    /\ t \in txns
    /\ \A o \in TxnOids(t), r \in rows :
          r.oid = o /\ r.tid = t => ~ StatesDiffer(CurrentData(c, o), r.data)
    /\ \A r \in rows : r.oid = Root /\ r.tid = t => r.prev # 0

\* hold_pack_lock (it does not wait, and counts the holds of one session)
\* and verify_undoable.
UndoVerify(c, t) ==
    /\ phase[c] = "begin"
    /\ packLock[c] < MaxHolds
    /\ \A d \in Client \ {c} : packLock[d] = 0
    /\ Undoable(c, t)
    /\ Goto(c, "undo")
    /\ packLock' = [packLock EXCEPT ![c] = @ + 1]
    /\ undoing' = [undoing EXCEPT ![c] = t]
    /\ UNCHANGED <<database, shared, exclusive, commitLock,
                   view, temp, required, conflicts, tid, undone>>

UndoCopies(t) ==
    {[oid |-> o, prev |-> current[o],
      data |-> LET r == CHOOSE s \in RowAt(o, t) : TRUE IN
               IF r.prev = 0 THEN 0 ELSE (CHOOSE s \in RowAt(o, r.prev) : TRUE).data] :
     o \in TxnOids(t)}

\* The commit lock, then packundo.undo and update_current: no other
\* transaction commits between them.  The pack lock is released.
Undo(c) ==
    /\ phase[c] = "undo"
    /\ LockDatabaseAndChooseTid(c)
    /\ undone' = [undone EXCEPT ![c] =
           {r \in @ : r.oid \notin TxnOids(undoing[c])} \cup UndoCopies(undoing[c])]
    /\ undoing' = [undoing EXCEPT ![c] = 0]
    /\ packLock' = [packLock EXCEPT ![c] = @ - 1]
    /\ Goto(c, "begin")
    /\ UNCHANGED <<database, shared, exclusive, view, temp, required, conflicts>>

\* A transaction that has stored an object and undone it has two rows for one
\* (zoid, tid): the move is refused, an unexpected error as above.  Nothing
\* keeps the application from trying, and the vote reports its own undone row
\* as a conflict first.
MoveFails(c) ==
    /\ phase[c] = "voted"
    /\ Stored(c) \cap Undone(c) # {}
    /\ EndTransaction(c)
    /\ CloseSession(c)
    /\ UNCHANGED database

-----------------------------------------------------------------------------
(* The specifications. *)

\* Steps of a transaction that only stores.
WriteStep(c) ==
    \/ TpcBegin(c)
    \/ \E o \in Oid : Store(c, o)
    \/ TpcVote(c)
    \/ \E o \in Oid : LockExclusive(c, o)
    \/ DetectConflicts(c)
    \/ ResolveConflicts(c)
    \/ CannotResolve(c)
    \/ LockDatabaseAndMove(c, "prepared")
    \/ LockDatabaseAndMove(c, "moved")
    \/ CommitPhase2(c)
    \/ AbortFailed(c)
    \/ TpcAbort(c)

\* ... that also uses readCurrent(), and steps the database forces on it.
ReadCurrentStep(c) ==
    \/ \E o \in Oid : CheckCurrentSerial(c, o)
    \/ PreCheck(c)
    \/ \E o \in Oid : LockShare(c, o)
    \/ ReCheck(c)

DatabaseStep(c) == LockTimeout(c) \/ CommitLockTimeout(c) \/ Disconnect(c)

UndoStep(c) ==
    \/ \E t \in txns : UndoVerify(c, t)
    \/ Undo(c)
    \/ MoveFails(c)

NextWrites == \E c \in Client : WriteStep(c)
NextStores == \E c \in Client : WriteStep(c) \/ ReadCurrentStep(c) \/ DatabaseStep(c)
Next == \E c \in Client : WriteStep(c) \/ ReadCurrentStep(c) \/ DatabaseStep(c) \/ UndoStep(c)

\* All transactions.
Spec == Init /\ [][Next]_vars

\* Transactions that store and use readCurrent(), without undo().
SpecStores == Init /\ [][NextStores]_vars

\* The transaction manager finishes or aborts every transaction it began
\* (WriteStep), and the database grants a lock that is free again and again
\* to the sessions that wait for it.  No lock ever times out.
SpecWrites ==
    /\ Init /\ [][NextWrites]_vars
    /\ \A c \in Client :
          /\ WF_vars(WriteStep(c))
          /\ \A o \in Oid : SF_vars(LockExclusive(c, o))

-----------------------------------------------------------------------------
(* Properties. *)

Row == [oid : Oid, tid : Nat, prev : Nat, data : Nat]

\* Every variable has the type its database column or attribute has.
TypeOK ==
    /\ rows \subseteq Row
    /\ current \in [Oid -> Nat]
    /\ txns \subseteq Nat
    /\ shared \in [Client -> SUBSET Oid]
    /\ exclusive \in [Client -> SUBSET Oid]
    /\ commitLock \in Client \cup {NoClient}
    /\ packLock \in [Client -> Nat]
    /\ phase \in [Client -> Phases]
    /\ view \in [Client -> [Oid -> Nat]]
    /\ temp \in [Client -> [Oid -> Nat \cup {Unset}]]
    /\ required \in [Client -> [Oid -> Nat \cup {Unset}]]
    /\ conflicts \in [Client -> [Oid -> Nat \cup {Unset}]]
    /\ tid \in [Client -> Nat]
    /\ undoing \in [Client -> Nat]
    /\ undone \in [Client -> SUBSET [oid : Oid, prev : Nat, data : Nat]]

\* No lost update: the revision a committed revision replaced is the one it
\* was computed from or merged with; no revision of the object lies between
\* them.  Row locks, conflict detection and resolution exist for this.
NoLostUpdate ==
    \A r \in rows :
        /\ r.prev < r.tid
        /\ r.prev # 0 => \E s \in rows : s.oid = r.oid /\ s.tid = r.prev
        /\ \A s \in rows : s.oid = r.oid => ~ (r.prev < s.tid /\ s.tid < r.tid)

\* Once the vote has passed its checks, what readCurrent() declared stays
\* current until the transaction ends, however long tpc_finish takes.
ReadCurrentHolds ==
    \A c \in Client : phase[c] \in Validated =>
        \A o \in ReadCurrent(c) : current[o] = required[c][o]

\* Transaction ids become visible in their order: a transaction never
\* commits a tid that a poller has already gone past.
CommitsInTidOrder ==
    [][\A t \in txns' \ txns, s \in txns : s < t]_txns

\* current_object points at the newest revision in object_state.
CurrentIsNewest ==
    \A r \in rows : /\ r.tid <= current[r.oid]
                    /\ \E s \in rows : s.oid = r.oid /\ s.tid = current[r.oid]

\* c waits for a lock d holds.
WaitsFor(c, d) ==
    \/ /\ phase[c] = "exclusive"
       /\ \E o \in shared[d] \cup exclusive[d] : IsNextRow(c, o)
    \/ /\ WaitsForCommitLock(c)
       /\ commitLock = d

\* Sessions that wait on each other in a circle have a member that holds a
\* shared lock and was refused the exclusive one: writers that do not use
\* readCurrent() cannot deadlock, whatever objects they write.
DeadlockNeedsReadCurrent ==
    \A S \in (SUBSET Client) \ {{}} :
        (\A c \in S : \E d \in S \ {c} : WaitsFor(c, d)) => \E c \in S : shared[c] # {}

\* Every writer that starts to lock rows gets past conflict detection:
\* ordered row locks need no timeout.
WritersGetTheirLocks ==
    \A c \in Client :
        phase[c] = "exclusive" ~> phase[c] \in {"resolve", "voted"}

\* Storing transactions implement the atomic commit of their writes.
Atomic == INSTANCE AtomicCommit
ImplementsAtomicCommit == Atomic!Spec

\* The rule verify_undoable states: an object is undone only when its state
\* in the transaction to undo is its current state.
UndoMatchesCurrent ==
    [][\A c \in Client : Undo(c) => Undoable(c, undoing[c])]_vars
=============================================================================
