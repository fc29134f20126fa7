------------------------------ MODULE StorePool ------------------------------
(***************************************************************************)
(* The pool of store connections that the instances of a storage share,    *)
(* and what a transaction does with the connection it borrowed: writing,   *)
(* allocating oids, committing and cleaning up, while sessions are lost,   *)
(* cleaners fail and instances come, go and close.                         *)
(*                                                                         *)
(* An instance is used by one thread.  A step is a section under the lock  *)
(* of the pool, with what a thread does next to a connection that only it  *)
(* knows, or what it does with its own connection.  close() is called when *)
(* no thread is inside a call: ZODB closes a database once.                *)
(***************************************************************************)
EXTENDS Integers, SequencesExt

CONSTANTS
    Instance,      \* the RelStorage objects
    First,         \* the one that made the pool
    Conn,          \* the StoreConnection objects
    NoConn,
    ClosedConnection,
    MAX_STORE_CONNECTIONS_IN_POOL,  \* 0: not set
    MaxLost        \* bound: how many sessions the server ends

ASSUME StorePoolAssumption ==
    /\ First \in Instance /\ IsFiniteSet(Instance)
    /\ Conn \cap {NoConn, ClosedConnection} = {}
    /\ MAX_STORE_CONNECTIONS_IN_POOL \in Nat
    /\ MaxLost \in Nat

VARIABLES
    connections,  \* the pool, next to use last
    count,        \* the instances the pool was told of
    closed,       \* the pool is closed: it makes no connections
    session,      \* [Conn -> "none", "live" or "lost"]: None, open or ended by the server
    work,         \* [Conn -> what is not committed: "none", new "oids", or the "rows"
                  \*  of a transaction and perhaps oids]
    lost,         \* how many sessions were lost
    instance,     \* [Instance -> what has become of it]
    phase,        \* [Instance -> "out" of a transaction, "in", or "stuck" in one
                  \*  whose abort has failed]
    wrote,        \* [Instance -> its transaction wrote rows]
    held,         \* [Instance -> the connection it borrowed]
    pc,           \* [Instance -> where its thread is]
    force,        \* [Instance -> the abort under way is forced]
    abandoned     \* history: the connections nobody gives back, see below

pool == <<connections, count, closed>>
database == <<session, work, lost>>
thread == <<phase, wrote, held, pc, force>>
vars == <<pool, database, instance, thread, abandoned>>

Open == {i \in Instance : instance[i] = "open"}

Init ==
    /\ connections = <<>>
    /\ count = 1
    /\ closed = FALSE
    /\ session = [c \in Conn |-> "none"]
    /\ work = [c \in Conn |-> "none"]
    /\ lost = 0
    /\ instance = [i \in Instance |-> IF i = First THEN "open" ELSE "none"]
    /\ phase = [i \in Instance |-> "out"]
    /\ wrote = [i \in Instance |-> FALSE]
    /\ held = [i \in Instance |-> NoConn]
    /\ pc = [i \in Instance |-> "idle"]
    /\ force = [i \in Instance |-> FALSE]
    /\ abandoned = {}

Goto(i, l) == pc' = [pc EXCEPT ![i] = l]

-----------------------------------------------------------------------------
(* Sessions. *)

\* rollback_and_close of the sessions of some connections.
Drop(conns) ==
    /\ session' = [c \in Conn |-> IF c \in conns THEN "none" ELSE session[c]]
    /\ work' = [c \in Conn |-> IF c \in conns THEN "none" ELSE work[c]]
    /\ UNCHANGED lost

\* A new session, or one that was rolled back.
Fresh(c) ==
    /\ session' = [session EXCEPT ![c] = "live"]
    /\ work' = [work EXCEPT ![c] = "none"]
    /\ UNCHANGED lost

\* rollback_quietly: a connection that cannot roll back is dropped.
RollbackQuietly(c) ==
    IF session[c] = "live" THEN Fresh(c) ELSE Drop({c})

\* The server ends a session that is used, and its transaction with it.
LoseSession(c) ==
    /\ session[c] = "live"
    /\ c \notin abandoned
    /\ lost < MaxLost
    /\ lost' = lost + 1
    /\ session' = [session EXCEPT ![c] = "lost"]
    /\ work' = [work EXCEPT ![c] = "none"]
    /\ UNCHANGED <<pool, instance, thread, abandoned>>

-----------------------------------------------------------------------------
(* The pool. *)

\* How many connections a pool of n instances keeps.
KeepConnections(n) ==
    IF MAX_STORE_CONNECTIONS_IN_POOL \in 1..n THEN MAX_STORE_CONNECTIONS_IN_POOL ELSE n

\* _shrink: the oldest connections are dropped.
Shrink(conns, n) ==
    LET excess == Len(conns) - KeepConnections(n)
        gone == Max({0, Min({excess, Len(conns)})})
    IN  /\ connections' = SubSeq(conns, gone + 1, Len(conns))
        /\ Drop(Range(SubSeq(conns, 1, gone)))

\* Mutant: the connection stays in the pool.
Peek == UNCHANGED connections

\* The connection borrow takes is the one last put back.
Pop == connections' = Front(connections)

\* borrow takes the connection under the lock; nobody else knows it then.
Taken ==
    IF connections # <<>> THEN {Last(connections)}
    ELSE {c \in Conn : ~closed /\ session[c] = "none" /\ \A i \in Instance : held[i] # c}

TakeFromPool == IF connections # <<>> THEN Pop ELSE UNCHANGED connections

\* new_oid borrows outside of a transaction, and in one whatever first uses
\* the store connection.
MayBorrow(i) == i \in Open /\ pc[i] = "idle" /\ held[i] = NoConn

\* borrow restarts the connection and begins: it rolls back, or connects if it
\* is new or its session was lost.  A transaction whose abort has failed knows
\* no resources any more, and keeps for good what it borrows then.
Borrow(i) ==
    /\ MayBorrow(i)
    /\ \E c \in Taken :
          /\ TakeFromPool
          /\ Fresh(c)
          /\ held' = [held EXCEPT ![i] = c]
          /\ abandoned' = IF phase[i] = "stuck" THEN abandoned \cup {c} ELSE abandoned
    /\ Goto(i, "busy")
    /\ UNCHANGED <<count, closed, instance, phase, wrote, force>>

\* An error in tpc_vote forces an abort, one elsewhere is the application's.
Raise(i) ==
    \/ Goto(i, "idle") /\ UNCHANGED force
    \/ /\ phase[i] = "in"
       /\ Goto(i, "cleaners")
       /\ force' = [force EXCEPT ![i] = TRUE]

\* Mutant: the connection is dropped only if it could not be opened.
ForgetFailed(c) ==
    \/ Drop({c})
    \/ Fresh(c)

\* A connection that cannot restart or begin is dropped.
DropFailed(c) == Drop({c})

BorrowFails(i) ==
    /\ MayBorrow(i)
    /\ \E c \in Taken :
          /\ TakeFromPool
          /\ DropFailed(c)
    /\ Raise(i)
    /\ UNCHANGED <<count, closed, instance, phase, wrote, held, abandoned>>

\* A closed pool makes connections that cannot begin.
BorrowClosed(i) ==
    /\ MayBorrow(i)
    /\ closed
    /\ Raise(i)
    /\ UNCHANGED <<pool, database, instance, phase, wrote, held, abandoned>>

\* What the one who borrowed it has instead of the connection afterwards.
GiveUp(i, next) ==
    /\ held' = [held EXCEPT ![i] = IF phase[i] = "in" THEN ClosedConnection ELSE NoConn]
    /\ Goto(i, IF phase[i] = "in" THEN next ELSE "idle")

\* The first instance, once closed, has a ClosedConnectionPool, whose replace
\* does nothing.
ReplaceDoesNothing(i) == closed /\ i = First

\* Mutant: no rollback before a connection goes back.
NoRollback(i) == UNCHANGED database

\* What _replace does first.
ReplaceRollback(i) ==
    IF ReplaceDoesNothing(i) THEN UNCHANGED database ELSE RollbackQuietly(held[i])

\* _replace of a connection whose transaction was not committed: one that
\* cannot roll back is dropped, and the pool is left alone.  The others go
\* back, or have been dropped before.
ReplaceThen(i, label, next) ==
    /\ ReplaceRollback(i)
    /\ IF session[held[i]] = "lost" /\ ~ReplaceDoesNothing(i)
       THEN GiveUp(i, next)
       ELSE Goto(i, label) /\ UNCHANGED held

Replace(i) ==
    /\ pc[i] = "replace"
    /\ ReplaceThen(i, "append", "cleaners")
    /\ UNCHANGED <<pool, instance, phase, wrote, force, abandoned>>

\* _replace, under the lock: what was dropped does not go back.
PutBack(i) ==
    /\ pc[i] \in {"append", "failing"}
    /\ ~closed
    /\ Shrink(IF session[held[i]] = "none" THEN connections ELSE Append(connections, held[i]), count)
    /\ GiveUp(i, IF pc[i] = "append" THEN "cleaners" ELSE "raised")
    /\ UNCHANGED <<count, closed, instance, phase, wrote, force, abandoned>>

\* The pool was closed: there is no list to append to, an error that is one
\* of the cleaners'.
PutBackRaises(i) ==
    /\ pc[i] \in {"append", "failing"}
    /\ closed
    /\ IF session[held[i]] = "none"
       THEN GiveUp(i, IF pc[i] = "append" THEN "cleaners" ELSE "raised") /\ UNCHANGED abandoned
       ELSE /\ GiveUp(i, IF pc[i] = "append" /\ i = First THEN "cleaners" ELSE "raised")
            /\ abandoned' = abandoned \cup {held[i]}
    /\ UNCHANGED <<pool, database, instance, phase, wrote, force>>

-----------------------------------------------------------------------------
(* Allocating oids. *)

\* Mutant: a lost session is always replaced.
AlwaysReconnect(i) == TRUE

\* new_oid in a transaction uses its connection, and must not replace it.
CanReconnect(i) == phase[i] = "out"

\* call: the row of the oids is inserted, in a new session if need be.
NewOid(i) ==
    /\ i \in Open
    /\ pc[i] = "busy"
    /\ session[held[i]] = "live" \/ CanReconnect(i)
    /\ session' = [session EXCEPT ![held[i]] = "live"]
    /\ work' = [work EXCEPT ![held[i]] = IF @ = "rows" THEN @ ELSE "oids"]
    /\ IF phase[i] = "out" THEN Goto(i, "commit") ELSE UNCHANGED pc
    /\ UNCHANGED <<pool, lost, instance, phase, wrote, held, force, abandoned>>

\* borrowing: an error on the way rolls back.
NewOidFails(i) ==
    /\ pc[i] = "busy"
    /\ phase[i] = "out"
    /\ session[held[i]] = "lost"
    /\ Drop({held[i]})
    /\ Goto(i, "replace")
    /\ UNCHANGED <<pool, instance, phase, wrote, held, force, abandoned>>

\* borrowing(commit=True): there is nothing to roll back after a commit.
CommitOid(i) ==
    /\ pc[i] = "commit"
    /\ session[held[i]] = "live"
    /\ work' = [work EXCEPT ![held[i]] = "none"]
    /\ Goto(i, "append")
    /\ UNCHANGED <<pool, session, lost, instance, phase, wrote, held, force, abandoned>>

CommitOidFails(i) ==
    /\ pc[i] = "commit"
    /\ Goto(i, "replace")
    /\ UNCHANGED <<pool, database, instance, phase, wrote, held, force, abandoned>>

-----------------------------------------------------------------------------
(* Transactions. *)

TpcBegin(i) ==
    /\ i \in Open
    /\ pc[i] = "idle"
    /\ phase[i] = "out"
    /\ phase' = [phase EXCEPT ![i] = "in"]
    /\ UNCHANGED <<pool, database, instance, wrote, held, pc, force, abandoned>>

InTransaction(i) == i \in Open /\ phase[i] = "in" /\ pc[i] = "busy"

\* Rows are stored and locked by tpc_vote and undo.
Write(i) ==
    /\ InTransaction(i)
    /\ session[held[i]] = "live"
    /\ work' = [work EXCEPT ![held[i]] = "rows"]
    /\ wrote' = [wrote EXCEPT ![i] = TRUE]
    /\ UNCHANGED <<pool, session, lost, instance, phase, held, pc, force, abandoned>>

\* Mutant: the connection is cleaned up whether or not it was used.
AlwaysAbort(i, forced) ==
    /\ Goto(i, "abort")
    /\ force' = [force EXCEPT ![i] = forced]

\* tpc_abort: the cleaner of the store connection is the first, if it was used.
StartAbort(i, forced) ==
    /\ Goto(i, IF held[i] \in Conn THEN "abort" ELSE "cleaners")
    /\ force' = [force EXCEPT ![i] = forced]

\* The application aborts, or there is a conflict.
TpcAbort(i) ==
    /\ i \in Open
    /\ phase[i] = "in"
    /\ pc[i] \in {"idle", "busy"}
    /\ StartAbort(i, FALSE)
    /\ UNCHANGED <<pool, database, instance, phase, wrote, held, abandoned>>

\* tpc_vote meets a lost session, or anything unexpected.
VoteFails(i) ==
    /\ InTransaction(i)
    /\ StartAbort(i, TRUE)
    /\ UNCHANGED <<pool, database, instance, phase, wrote, held, abandoned>>

\* tpc_finish commits or raises, before it has committed or because the
\* session is lost; either way it releases the resources, and the
\* transaction is left.
TpcFinish(i) ==
    /\ InTransaction(i)
    /\ \/ work' = [work EXCEPT ![held[i]] = "none"]
       \/ UNCHANGED work
    /\ wrote' = [wrote EXCEPT ![i] = FALSE]
    /\ force' = [force EXCEPT ![i] = TRUE]
    /\ Goto(i, "replace")
    /\ UNCHANGED <<pool, session, lost, instance, phase, held, abandoned>>

\* The aborter of the store connection, up to the lock of the pool.
AbortStore(i) ==
    /\ pc[i] = "abort"
    /\ IF force[i] THEN Drop({held[i]}) ELSE RollbackQuietly(held[i])
    /\ Goto(i, "append")
    /\ UNCHANGED <<pool, instance, phase, wrote, held, force, abandoned>>

\* The driver raises an error that rollback_quietly does not ignore: the
\* connection is replaced, though not dropped even if the abort is forced, and
\* the error is one of the cleaners'.
AbortStoreRaises(i) ==
    /\ pc[i] = "abort"
    /\ ReplaceThen(i, "failing", "raised")
    /\ UNCHANGED <<pool, instance, phase, wrote, force, abandoned>>

\* A transaction that is left has nothing any more.
Leave(i, p) ==
    /\ phase' = [phase EXCEPT ![i] = p]
    /\ wrote' = [wrote EXCEPT ![i] = FALSE]
    /\ held' = [held EXCEPT ![i] = IF p = "out" THEN NoConn ELSE @]
    /\ force' = [force EXCEPT ![i] = FALSE]
    /\ instance' = [instance EXCEPT ![i] = IF @ = "releasing" THEN "released" ELSE @]
    /\ Goto(i, "idle")
    /\ UNCHANGED <<pool, database, abandoned>>

\* The other cleaners of a transaction.
Cleaned(i) ==
    /\ pc[i] = "cleaners"
    /\ Leave(i, "out")

\* One of them fails: tpc_abort only leaves the transaction if it was forced.
CleanerFails(i) ==
    /\ pc[i] \in {"cleaners", "raised"}
    /\ Leave(i, IF force[i] THEN "out" ELSE "stuck")

\* The same transaction is aborted again, and no resources are known.
AbortAgain(i) ==
    /\ i \in Open
    /\ phase[i] = "stuck"
    /\ pc[i] \in {"idle", "busy"}
    /\ Leave(i, "out")

-----------------------------------------------------------------------------
(* Instances. *)

NewInstance(i) ==
    /\ Open # {}
    /\ instance[i] = "none"
    /\ instance' = [instance EXCEPT ![i] = "open"]
    /\ count' = count + 1
    /\ UNCHANGED <<connections, closed, database, thread, abandoned>>

\* The instance is not in the middle of a call.
AtRest(i) == pc[i] = "idle" \/ (pc[i] = "busy" /\ phase[i] # "out")

\* Mutant: the pool is not shrunk.
ForgetToShrink == UNCHANGED <<connections, database>>

\* release of the pool: there is an instance less.
ShrinkForRelease == Shrink(connections, count - 1)

\* release: the pool first, then what is left of a transaction, by force.
Release(i) ==
    /\ i \in Open
    /\ AtRest(i)
    /\ count' = count - 1
    /\ ShrinkForRelease
    /\ IF phase[i] = "in"
       THEN /\ instance' = [instance EXCEPT ![i] = "releasing"]
            /\ StartAbort(i, TRUE)
            /\ UNCHANGED <<phase, held>>
       ELSE /\ instance' = [instance EXCEPT ![i] = "released"]
            /\ phase' = [phase EXCEPT ![i] = "out"]
            /\ held' = [held EXCEPT ![i] = NoConn]
            /\ Goto(i, "idle")
            /\ UNCHANGED force
    /\ UNCHANGED <<closed, wrote, abandoned>>

\* zap_all: drop_all of the pool.
ZapAll(i) ==
    /\ i \in Open
    /\ AtRest(i)
    /\ connections # <<>>
    /\ connections' = <<>>
    /\ Drop(Range(connections))
    /\ UNCHANGED <<count, closed, instance, thread, abandoned>>

\* close of the first instance: the pool, then the other instances, one after
\* the other until a cleaner of one raises, and itself.  What it did not get
\* to is left with a pool that takes nothing back.
Close ==
    /\ ~closed
    /\ First \in Open
    /\ \A i \in Instance : AtRest(i)
    /\ closed' = TRUE
    /\ count' = 0
    /\ connections' = <<>>
    /\ \E S \in SUBSET Open :
          /\ S = Open \/ (First \notin S /\ \E i \in S : phase[i] = "in")
          /\ instance' = [i \in Instance |-> IF i \in S THEN "closed" ELSE instance[i]]
          /\ phase' = [i \in Instance |-> IF i \in S THEN "out" ELSE phase[i]]
          /\ wrote' = [i \in Instance |-> wrote[i] /\ i \notin S]
          /\ held' = [i \in Instance |-> IF i \in S THEN NoConn ELSE held[i]]
          /\ pc' = [i \in Instance |-> IF i \in S THEN "idle" ELSE pc[i]]
          /\ Drop(Range(connections) \cup {held[i] : i \in {j \in S : phase[j] = "in"}})
    /\ UNCHANGED <<force, abandoned>>

-----------------------------------------------------------------------------

Thread(i) ==
    \/ Borrow(i)
    \/ BorrowFails(i)
    \/ BorrowClosed(i)
    \/ Replace(i)
    \/ PutBack(i)
    \/ PutBackRaises(i)
    \/ NewOid(i)
    \/ NewOidFails(i)
    \/ CommitOid(i)
    \/ CommitOidFails(i)
    \/ TpcBegin(i)
    \/ Write(i)
    \/ VoteFails(i)
    \/ TpcAbort(i)
    \/ TpcFinish(i)
    \/ AbortStore(i)
    \/ AbortStoreRaises(i)
    \/ Cleaned(i)
    \/ CleanerFails(i)
    \/ AbortAgain(i)
    \/ NewInstance(i)
    \/ Release(i)
    \/ ZapAll(i)

Next ==
    \/ \E i \in Instance : Thread(i)
    \/ \E c \in Conn : LoseSession(c)
    \/ Close

Spec == Init /\ [][Next]_vars

-----------------------------------------------------------------------------
(* Properties. *)

\* Types; and a thread that does something with a connection has one.
TypeOK ==
    /\ connections \in Seq(Conn) /\ count \in Int /\ closed \in BOOLEAN
    /\ session \in [Conn -> {"none", "live", "lost"}]
    /\ work \in [Conn -> {"none", "oids", "rows"}]
    /\ lost \in 0..MaxLost
    /\ instance \in [Instance -> {"none", "open", "releasing", "released", "closed"}]
    /\ phase \in [Instance -> {"out", "in", "stuck"}]
    /\ wrote \in [Instance -> BOOLEAN]
    /\ held \in [Instance -> Conn \cup {NoConn, ClosedConnection}]
    /\ pc \in [Instance -> {"idle", "busy", "abort", "commit", "replace",
                            "append", "failing", "cleaners", "raised"}]
    /\ force \in [Instance -> BOOLEAN]
    /\ abandoned \subseteq Conn
    /\ \A i \in Instance : pc[i] \notin {"idle", "cleaners", "raised"} => held[i] \in Conn

\* The instance has a connection that it is going to give back.
GivesBack(i, c) ==
    /\ held[i] = c
    /\ phase[i] = "in" \/ (phase[i] = "out" /\ pc[i] # "idle")

\* Every session is in the pool or with someone who gives it back, whatever
\* fails on the way: borrow, the cleaners of a transaction, release() and
\* close() leave none behind.  There are two exceptions, both after a cleaner
\* has failed: see Borrow and PutBackRaises.
NoSessionLeaked ==
    \A c \in Conn \ abandoned :
        session[c] # "none" => c \in Range(connections) \/ \E i \in Instance : GivesBack(i, c)

\* The exceptions aside, as the description of SharedTPCState has it.
NothingAbandoned == abandoned = {}

\* No two threads have the same connection, and none has one of the pool.
OnePlace ==
    /\ IsInjective(connections)
    /\ \A i \in Instance : held[i] \notin Range(connections)
    /\ \A i, j \in Instance : held[i] = held[j] /\ held[i] \in Conn => i = j

\* The pool has no more connections than there are instances, nor than the
\* limit that was set, however borrowers and released instances interleave.
PoolWithinLimit ==
    /\ Len(connections) <= Cardinality(Open)
    /\ MAX_STORE_CONNECTIONS_IN_POOL # 0 => Len(connections) <= MAX_STORE_CONNECTIONS_IN_POOL

\* What is in the pool holds no locks and has no rows of the one who had it.
PooledAreClean == \A c \in Range(connections) : work[c] = "none"

\* A transaction that goes on has in its session all it wrote: it never
\* continues in a new session after the one it wrote to was lost.
WritesStayTogether ==
    \A i \in Instance :
        wrote[i] /\ pc[i] = "busy" /\ session[held[i]] = "live" => work[held[i]] = "rows"
=============================================================================
