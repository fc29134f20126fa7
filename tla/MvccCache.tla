------------------------------ MODULE MvccCache ------------------------------
(***************************************************************************)
(* The storage cache one process shares between its RelStorage instances   *)
(* (viewers): the coordinator's object index, built from overlapping       *)
(* polls, the viewers' own indexes, vacuuming, and the cached object       *)
(* states that loads and commits add.                                      *)
(*                                                                         *)
(* A state is identified with the tid that wrote it.  An index is a list   *)
(* of buckets, newest first, and has its newest bucket to itself: the      *)
(* slot of that bucket also names the index.  Older buckets are shared.    *)
(*                                                                         *)
(* Threads interleave at every step.  Greenlets of a gevent driver only    *)
(* switch where a viewer waits for the database.                           *)
(***************************************************************************)
EXTENDS CachedValues, Sequences

CONSTANTS
    Viewer,           \* StorageCache instances, each with its load connection
    Oid,
    MaxTid,           \* bound: the last transaction id
    NumSlots,         \* bound: heap slots for buckets
    Restored,         \* the coordinator restored an index from a cache file
    Deployment,       \* the ways of running the program to consider
    NoViewer

ASSUME MvccAssumption ==
    /\ MaxTid \in Nat \ {0}
    /\ Restored \in BOOLEAN
    /\ Deployment \subseteq [instances : SUBSET Viewer, threads : BOOLEAN, replica : BOOLEAN,
                              revert_when_stale : BOOLEAN, max_depth : Nat \ {0}]
    /\ NumSlots \in Nat \ {0}
    /\ NoViewer \notin Viewer

VARIABLES
    history,   \* the tids that wrote an object, in the database
    dbTid,     \* the last committed tid
    object_index, \* the coordinator's index, or None
    bucket,    \* [Slot -> bucket]
    maps,      \* [Slot -> the list of buckets of the index of that slot]
    cache,     \* the cached values of an object
    toDelete,  \* oids_tids_to_del of the vacuum under way
    lock,      \* the viewer that holds the coordinator's lock over steps
    pc, hvt, detached, index, \* a viewer's MVCC state
    snapshot,  \* the last tid its load connection sees
    poll,      \* the local variables of _poll
    loading,   \* the object it waits for and the tid the index gave
    zodb,      \* the state each object has in its ZODB connection, or None
    committed, \* the last tid the instance committed
    deployment \* the instances in use, threads or greenlets, load connections
               \* on an asynchronous replica, the option revert-when-stale,
               \* max_allowed_index_depth; it never changes

database == <<history, dbTid>>
heap == <<bucket, maps>>
viewer == <<hvt, detached, index>>
vars == <<database, object_index, heap, cache, toDelete, lock, pc, viewer,
          snapshot, poll, loading, zodb, committed, deployment>>

Slot == 1..NumSlots
Incomplete == -1
InitTid == 1

EmptyMap == [o \in Oid |-> None]

\* Mutant: the two tids of a bucket are given in the wrong order.
NewBucketSwapped(h, cst, changes) == [hvt |-> cst, cst |-> h, open |-> TRUE, map |-> changes]

\* The changes after tid cst (Incomplete: not all of them) up to tid h.
NewBucket(h, cst, changes) == [hvt |-> h, cst |-> cst, open |-> TRUE, map |-> changes]
Free == [hvt |-> 0, cst |-> Incomplete, open |-> FALSE, map |-> EmptyMap]
NoPoll == [cur |-> None, since |-> 0, polled |-> 0, new |-> None, moved |-> FALSE, changes |-> {}]

\* With an index or not, restored or started by the instances that polled.
Start(indexed, polled) ==
    /\ history = [o \in Oid |-> {InitTid}]
    /\ dbTid = InitTid
    /\ object_index = IF indexed THEN 1 ELSE None
    /\ bucket = [s \in Slot |-> IF indexed /\ s = 1
                                THEN NewBucket(InitTid, Incomplete, EmptyMap) ELSE Free]
    /\ maps = [s \in Slot |-> IF indexed /\ s = 1 THEN <<1>> ELSE <<>>]
    /\ cache = [o \in Oid |-> IF Restored THEN {[tid |-> InitTid, frozen |-> TRUE]} ELSE {}]
    /\ toDelete = EmptyMap
    /\ lock = NoViewer
    /\ pc = [v \in Viewer |-> IF polled THEN "open" ELSE "idle"]
    /\ hvt = [v \in Viewer |-> IF polled THEN InitTid ELSE None]
    /\ detached = [v \in Viewer |-> FALSE]
    /\ index = [v \in Viewer |-> IF polled THEN 1 ELSE None]
    /\ snapshot = [v \in Viewer |-> IF polled THEN InitTid ELSE 0]
    /\ poll = [v \in Viewer |-> NoPoll]
    /\ loading = [v \in Viewer |-> <<>>]
    /\ zodb = [v \in Viewer |-> EmptyMap]
    /\ committed = [v \in Viewer |-> 0]
    /\ deployment \in Deployment

Init == Start(Restored, FALSE)

\* All the instances of the process have polled, and stay open.
InitPool == Start(TRUE, TRUE)

-----------------------------------------------------------------------------
(* The database, as a load connection sees it. *)

NewestOf(S) == IF S = {} THEN None ELSE Max(S)
TidAt(o, s) == NewestOf({t \in history[o] : t <= s})

\* The rows of the poll query: the objects changed after a tid.
ChangesAfter(since, s) == [o \in Oid |-> IF TidAt(o, s) > since THEN TidAt(o, s) ELSE None]

-----------------------------------------------------------------------------
(* _ObjectIndex. *)

Front(i) == bucket[i]
Back(i) == bucket[maps[i][Len(maps[i])]]
SecondOldest(i) == bucket[maps[i][Len(maps[i]) - 1]]
Depth(i) == Len(maps[i])

Positions(i, o) == {k \in 1..Depth(i) : bucket[maps[i][k]].map[o] # None}

\* Mutant: the oldest bucket.
LookupOldest(i, o) ==
    IF Positions(i, o) = {} THEN None ELSE bucket[maps[i][Max(Positions(i, o))]].map[o]

\* __getitem__: the newest bucket that knows the object.
Lookup(i, o) ==
    IF Positions(i, o) = {} THEN None ELSE bucket[maps[i][Min(Positions(i, o))]].map[o]

\* The oldest open bucket that __setitem__ does not pass over, or 0.
SetPosition(i, t) ==
    NewestOf({k \in 1..Depth(i) : LET b == bucket[maps[i][k]] IN
                 b.open /\ (t > b.hvt \/ b.cst = Incomplete \/ t <= b.cst)})

\* __setitem__: too new a tid is discarded.
SetItem(i, o, t) ==
    LET k == SetPosition(i, t) IN
    IF k # 0 /\ t <= bucket[maps[i][k]].hvt
    THEN [bucket EXCEPT ![maps[i][k]].map[o] = t]
    ELSE bucket

\* Mutant: the bucket just after the tid is left out.
CollectChangesWellAfter(i, last) ==
    LET newer == {k \in 1..Depth(i) : \A j \in 1..k : bucket[maps[i][j]].hvt > last + 1}
    IN  [o \in Oid |-> LET found == newer \cap Positions(i, o)
                       IN  IF found = {} THEN None ELSE bucket[maps[i][Min(found)]].map[o]]

\* collect_changes_after: from the buckets newer than the tid, the newest
\* entry of each object.
CollectChangesAfter(i, last) ==
    LET newer == {k \in 1..Depth(i) : \A j \in 1..k : bucket[maps[i][j]].hvt > last}
    IN  [o \in Oid |-> LET found == newer \cap Positions(i, o)
                       IN  IF found = {} THEN None ELSE bucket[maps[i][Min(found)]].map[o]]

\* Slots that no index in use reaches are garbage.
Roots == {object_index} \cup {index[v] : v \in Viewer}
         \cup {poll[v].cur : v \in Viewer} \cup {poll[v].new : v \in Viewer}
Reachable == UNION {{maps[i][k] : k \in 1..Depth(i)} : i \in Roots \ {None}}

\* Mutant: the poll is taken to include the tid it started from.
PushBucketTooComplete(s, i, h, cst, changes) ==
    /\ s \in Slot \ Reachable
    /\ \A r \in Slot \ Reachable : s <= r
    /\ bucket' = [r \in Slot |-> IF r = s THEN NewBucket(h, cst - 1, changes)
                                 ELSE IF r \in Reachable THEN bucket[r] ELSE Free]
    /\ maps' = [r \in Slot |-> IF r = s THEN <<s>> \o (IF i = None THEN <<>> ELSE maps[i])
                               ELSE IF r \in Reachable THEN maps[r] ELSE <<>>]

\* with_polled_changes where there is something new: a new bucket before
\* the buckets of index i, in slot s.
PushBucket(s, i, h, cst, changes) ==
    /\ s \in Slot \ Reachable
    /\ \A r \in Slot \ Reachable : s <= r
    /\ bucket' = [r \in Slot |-> IF r = s THEN NewBucket(h, cst, changes)
                                 ELSE IF r \in Reachable THEN bucket[r] ELSE Free]
    /\ maps' = [r \in Slot |-> IF r = s THEN <<s>> \o (IF i = None THEN <<>> ELSE maps[i])
                               ELSE IF r \in Reachable THEN maps[r] ELSE <<>>]

-----------------------------------------------------------------------------
(* Scheduling. *)

\* Where a viewer waits for the database or for the application.
Waiting == {"idle", "open", "stale", "query", "initial", "revert", "install", "loading", "finish"}

MayRun(v) ==
    /\ v \in deployment.instances
    /\ deployment.threads \/ \A w \in Viewer \ {v} : pc[w] \in Waiting
LockFree == lock = NoViewer
Goto(v, p) == pc' = [pc EXCEPT ![v] = p]

InvalidateAll(v) == zodb' = [zodb EXCEPT ![v] = EmptyMap]
Invalidate(v, oids) ==
    zodb' = [zodb EXCEPT ![v] = [o \in Oid |-> IF o \in oids THEN None ELSE zodb[v][o]]]

\* __set_viewer_state_locked: change() attaches the viewer.
SetViewerState(v, i) ==
    /\ index' = [index EXCEPT ![v] = i]
    /\ hvt' = [hvt EXCEPT ![v] = IF i = None THEN None ELSE Front(i).hvt]
    /\ detached' = [detached EXCEPT ![v] = FALSE]

\* minimum_highest_visible_tid, of the viewers that matter.
Attached == {v \in Viewer : hvt[v] # None /\ ~ detached[v]}
Required == IF Attached = {} THEN None ELSE Min({hvt[v] : v \in Attached})

\* Viewers at the oldest tid are cut off.
DetachViewersAtMinimum(state) ==
    [v \in Viewer |-> state[v] \/ (v \in Attached /\ hvt[v] = Required)]

-----------------------------------------------------------------------------
(* MVCCDatabaseCoordinator.poll. *)

PollStart(v) ==
    /\ MayRun(v)
    /\ pc[v] \in {"idle", "open", "stale"}
    /\ LockFree
    /\ poll' = [poll EXCEPT ![v] = [NoPoll EXCEPT
           !.cur = object_index,
           !.since = IF object_index = None THEN 0 ELSE Front(object_index).hvt]]
    /\ Goto(v, "query")
    /\ UNCHANGED <<database, object_index, heap, cache, toDelete, lock, viewer, snapshot, loading,
                   zodb, committed, deployment>>

\* The load connection restarts: the query fixes its snapshot s.  The last
\* tid comes from the rows, or from the transaction table when there are
\* none and the connection may have gone backwards.
Query(v, s) ==
    /\ MayRun(v)
    /\ pc[v] = "query"
    /\ s \in IF deployment.replica THEN InitTid..dbTid ELSE {dbTid}
    /\ snapshot' = [snapshot EXCEPT ![v] = s]
    /\ poll' = [poll EXCEPT ![v].polled =
           IF deployment.replica \/ poll[v].cur = None \/ s > poll[v].since
           THEN s ELSE poll[v].since]
    /\ \/ /\ poll[v].cur = None
          /\ Goto(v, "initial")
          /\ UNCHANGED zodb
       \/ /\ poll[v].cur # None /\ s >= poll[v].since
          /\ Goto(v, "install")
          /\ UNCHANGED zodb
       \/ /\ poll[v].cur # None /\ s < poll[v].since /\ deployment.revert_when_stale
          /\ Goto(v, "revert")
          /\ UNCHANGED zodb
       \/ /\ poll[v].cur # None /\ s < poll[v].since /\ ~ deployment.revert_when_stale
          /\ Goto(v, "stale")
          /\ InvalidateAll(v)
    /\ UNCHANGED <<database, object_index, heap, cache, toDelete, lock, viewer, loading,
                   committed, deployment>>

\* Mutant: nobody checks.
GotHereAnyway == TRUE

\* We're still none.
GotHereFirst == object_index = None

\* __initial_poll: the viewer gets whatever index is installed.
InitialPoll(v) ==
    /\ MayRun(v)
    /\ pc[v] = "initial"
    /\ LockFree
    /\ \/ /\ GotHereFirst
          /\ \E s \in Slot :
                /\ PushBucket(s, None, poll[v].polled, Incomplete, EmptyMap)
                /\ object_index' = s
                /\ index' = [index EXCEPT ![v] = s]
                /\ hvt' = [hvt EXCEPT ![v] = poll[v].polled]
                /\ detached' = [detached EXCEPT ![v] = FALSE]
       \/ /\ object_index # None
          /\ SetViewerState(v, object_index)
          /\ UNCHANGED <<object_index, heap>>
    /\ poll' = [poll EXCEPT ![v] = NoPoll]
    /\ InvalidateAll(v)
    /\ Goto(v, "open")
    /\ UNCHANGED <<database, cache, toDelete, lock, snapshot, loading, committed, deployment>>

\* Mutant: the viewer keeps its index.
FlushOnlyCoordinator(v) ==
    /\ object_index' = None
    /\ UNCHANGED <<index, hvt>>

\* flush_all, and the viewer forgets its index.
FlushAll(v) ==
    /\ object_index' = None
    /\ index' = [index EXCEPT ![v] = None]
    /\ hvt' = [hvt EXCEPT ![v] = None]

\* A stale replica, and the client prefers to revert.
Revert(v) ==
    /\ MayRun(v)
    /\ pc[v] = "revert"
    /\ LockFree
    /\ FlushAll(v)
    /\ detached' = [w \in Viewer |-> w # v]
    /\ poll' = [poll EXCEPT ![v] = NoPoll]
    /\ InvalidateAll(v)
    /\ Goto(v, "open")
    /\ UNCHANGED <<database, heap, cache, toDelete, lock, snapshot, loading, committed, deployment>>

\* Somebody flushed the coordinator while this viewer polled.
LosePoll(v) ==
    /\ object_index = None
    /\ SetViewerState(v, None)
    /\ poll' = [poll EXCEPT ![v] = NoPoll]
    /\ InvalidateAll(v)
    /\ Goto(v, "open")
    /\ UNCHANGED <<object_index, heap>>

\* Mutant: the index is in the future.
UsesFuture(v) == Front(object_index).hvt >= poll[v].polled

\* Cool, no work for us.
NoWork(v) == Front(object_index).hvt = poll[v].polled

\* The first locked section: the installed index is older than the poll and
\* moves forward; or it is as new and is used; or it is in the future.
Install(v) ==
    /\ MayRun(v)
    /\ pc[v] = "install"
    /\ LockFree
    /\ \/ LosePoll(v)
       \/ /\ object_index # None
          /\ Front(object_index).hvt < poll[v].polled
          /\ \E s \in Slot :
                /\ PushBucket(s, object_index, poll[v].polled, poll[v].since,
                              ChangesAfter(poll[v].since, snapshot[v]))
                /\ object_index' = s
                /\ poll' = [poll EXCEPT ![v].new = s, ![v].moved = TRUE]
          /\ Goto(v, "find")
          /\ UNCHANGED <<viewer, zodb>>
       \/ /\ object_index # None
          /\ NoWork(v)
          /\ poll' = [poll EXCEPT ![v].new = object_index]
          /\ Goto(v, "find")
          /\ UNCHANGED <<object_index, heap, viewer, zodb>>
       \/ /\ object_index # None
          /\ Front(object_index).hvt > poll[v].polled
          /\ Goto(v, "build")
          /\ UNCHANGED <<object_index, heap, viewer, poll, zodb>>
    /\ UNCHANGED <<database, cache, toDelete, lock, snapshot, loading, committed, deployment>>

\* Mutant: the index that is installed by now.
Installed(v) == object_index

\* current_index, the one this poll began with.
CurrentIndex(v) == poll[v].cur

\* An index of the viewer's own, from the index the poll began with.
\* Polling the same tid again adds nothing to it.
Build(v) ==
    /\ MayRun(v)
    /\ pc[v] = "build"
    /\ \/ /\ poll[v].polled = poll[v].since
          /\ poll' = [poll EXCEPT ![v].new = CurrentIndex(v)]
          /\ UNCHANGED heap
       \/ /\ poll[v].polled > poll[v].since
          /\ \E s \in Slot :
                /\ PushBucket(s, CurrentIndex(v), poll[v].polled, poll[v].since,
                              ChangesAfter(poll[v].since, snapshot[v]))
                /\ poll' = [poll EXCEPT ![v].new = s]
    /\ Goto(v, "find")
    /\ UNCHANGED <<database, object_index, cache, toDelete, lock, viewer, snapshot, loading, zodb,
                   committed, deployment>>

\* _find_changes_for_viewer: a viewer that lost track invalidates
\* everything, the others what changed since they polled.
FindChanges(v) ==
    /\ MayRun(v)
    /\ pc[v] = "find"
    /\ \/ /\ hvt[v] = None \/ detached[v]
          /\ poll' = [poll EXCEPT ![v].changes = Oid]
          /\ Goto(v, "move")
       \/ /\ hvt[v] # None /\ ~ detached[v]
          /\ Goto(v, "collect")
          /\ UNCHANGED poll
    /\ UNCHANGED <<database, object_index, heap, cache, toDelete, lock, viewer, snapshot, loading,
                   zodb, committed, deployment>>

\* ... except what this instance committed itself.
CollectChanges(v) ==
    /\ MayRun(v)
    /\ pc[v] = "collect"
    /\ LET changes == CollectChangesAfter(poll[v].new, hvt[v]) IN
       poll' = [poll EXCEPT ![v].changes =
                   {o \in Oid : changes[o] # None /\ changes[o] # committed[v]}]
    /\ Goto(v, "move")
    /\ UNCHANGED <<database, object_index, heap, cache, toDelete, lock, viewer, snapshot, loading,
                   zodb, committed, deployment>>

\* The second locked section: the viewer moves to its new index.  The one
\* that moved the coordinator forward goes on to vacuum under the lock, and
\* first cuts off the oldest viewers of an index that is too deep.
MoveViewer(v) ==
    /\ MayRun(v)
    /\ pc[v] = "move"
    /\ LockFree
    /\ \/ LosePoll(v) /\ UNCHANGED lock
       \/ /\ object_index # None
          /\ SetViewerState(v, poll[v].new)
          /\ Invalidate(v, poll[v].changes)
          /\ \/ /\ poll[v].moved /\ Front(object_index).hvt >= poll[v].polled
                /\ lock' = v
                /\ Goto(v, "detach")
                /\ UNCHANGED poll
             \/ /\ ~ (poll[v].moved /\ Front(object_index).hvt >= poll[v].polled)
                /\ Goto(v, "open")
                /\ poll' = [poll EXCEPT ![v] = NoPoll]
                /\ UNCHANGED lock
          /\ UNCHANGED <<object_index, heap>>
    /\ UNCHANGED <<database, cache, toDelete, snapshot, loading, committed, deployment>>

DetachOldest(v) ==
    /\ MayRun(v)
    /\ pc[v] = "detach"
    /\ detached' = IF Depth(poll[v].new) > deployment.max_depth
                   THEN DetachViewersAtMinimum(detached) ELSE detached
    /\ Goto(v, "vacuum")
    /\ UNCHANGED <<database, object_index, heap, cache, toDelete, lock, hvt, index, snapshot, poll,
                   loading, zodb, committed, deployment>>

-----------------------------------------------------------------------------
(* _vacuum. *)

\* The oldest bucket is still of use to a viewer.
StillNeeded(i) ==
    Depth(i) > 1 => \/ Back(i).hvt = Required
                    \/ Required # None /\ SecondOldest(i).hvt > Required

\* remove_oldest_transaction_and_collect_invalidations: entries with newer
\* data in the index leave the bucket and will leave the cache.
RemoveOldest(v) ==
    LET i == poll[v].new
        old == maps[i][Depth(i)]
        rest == SubSeq(maps[i], 1, Depth(i) - 1)
        Newest(o) == LET ks == Positions(i, o) \ {Depth(i)}
                     IN IF ks = {} THEN None ELSE bucket[rest[Min(ks)]].map[o]
        obsolete == {o \in Oid : /\ bucket[old].map[o] # None
                                 /\ Newest(o) \notin {None, bucket[old].map[o]}}
    IN  /\ MayRun(v)
        /\ pc[v] = "vacuum"
        /\ ~ StillNeeded(i)
        /\ maps' = [maps EXCEPT ![i] = rest]
        /\ bucket' = [bucket EXCEPT ![old].open = FALSE,
                         ![old].map = [o \in Oid |-> IF o \in obsolete THEN None ELSE @[o]]]
        /\ toDelete' = [o \in Oid |-> IF o \in obsolete THEN bucket[old].map[o] ELSE toDelete[o]]
        /\ poll' = [poll EXCEPT ![v].cur = old]
        /\ Goto(v, "freeze")
        /\ UNCHANGED <<database, object_index, cache, lock, viewer, snapshot, loading, zodb,
                       committed, deployment>>

\* What is left in the bucket has not changed since: freeze it.
Freeze(v) ==
    /\ MayRun(v)
    /\ pc[v] = "freeze"
    /\ LET old == bucket[poll[v].cur].map IN
       cache' = [o \in Oid |-> IF old[o] = None THEN cache[o] ELSE FreezeToTid(cache[o], old[o])]
    /\ Goto(v, "vacuum")
    /\ UNCHANGED <<database, object_index, heap, toDelete, lock, viewer, snapshot, poll, loading,
                   zodb, committed, deployment>>

VacuumDone(v) ==
    /\ MayRun(v)
    /\ pc[v] = "vacuum"
    /\ StillNeeded(poll[v].new)
    /\ cache' = [o \in Oid |-> IF toDelete[o] = None THEN cache[o]
                               ELSE DiscardingTidsBefore(cache[o], toDelete[o])]
    /\ toDelete' = EmptyMap
    /\ poll' = [poll EXCEPT ![v] = NoPoll]
    /\ lock' = NoViewer
    /\ Goto(v, "open")
    /\ UNCHANGED <<database, object_index, heap, viewer, snapshot, loading, zodb, committed,
                   deployment>>

-----------------------------------------------------------------------------
(* StorageCache.load. *)

Remember(v, o, t) == zodb' = [zodb EXCEPT ![v][o] = t]

\* Without an index the cache is not used.
LoadWithoutIndex(v, o) ==
    /\ MayRun(v)
    /\ pc[v] = "open" /\ index[v] = None /\ zodb[v][o] = None
    /\ Remember(v, o, TidAt(o, snapshot[v]))
    /\ UNCHANGED <<database, object_index, heap, cache, toDelete, lock, pc, viewer, snapshot, poll,
                   loading, committed, deployment>>

\* Mutant: any frozen value is a hit.
HitsFromFuture(v, o) == MatchingTid(cache[o], Lookup(index[v], o))

\* A frozen value from the future of the viewer is no hit.
Hits(v, o) ==
    LET t == Lookup(index[v], o) IN
    {m \in MatchingTid(cache[o], t) : t = None => m <= hvt[v]}

\* The lookups in the index and in the cache: one step, as greenlets do not
\* switch between them.
LoadFromCache(v, o) ==
    /\ MayRun(v)
    /\ pc[v] = "open" /\ index[v] # None /\ zodb[v][o] = None
    /\ \E t \in Hits(v, o) : Remember(v, o, t)
    /\ UNCHANGED <<database, object_index, heap, cache, toDelete, lock, pc, viewer, snapshot, poll,
                   loading, committed, deployment>>

LoadMiss(v, o) ==
    /\ MayRun(v)
    /\ pc[v] = "open" /\ index[v] # None /\ zodb[v][o] = None
    /\ Hits(v, o) = {}
    /\ loading' = [loading EXCEPT ![v] = <<o, Lookup(index[v], o)>>]
    /\ Goto(v, "loading")
    /\ UNCHANGED <<database, object_index, heap, cache, toDelete, lock, viewer, snapshot, poll,
                   zodb, committed, deployment>>

\* What the database returns, and the tid that the index gave.
Actual(v) == TidAt(loading[v][1], snapshot[v])
Expected(v) == loading[v][2]

FromFuture(v) == Actual(v) > hvt[v]
Inconsistent(v) == Expected(v) # None /\ Actual(v) # Expected(v)

\* _check_tid_after_load and the entries made in the index and in the cache:
\* one step for the same reason.
LoadFromDatabase(v) ==
    /\ MayRun(v)
    /\ pc[v] = "loading" /\ ~ FromFuture(v) /\ ~ Inconsistent(v)
    /\ bucket' = SetItem(index[v], loading[v][1], Actual(v))
    /\ cache' = [cache EXCEPT ![loading[v][1]] = AddingValue(@, Actual(v))]
    /\ Remember(v, loading[v][1], Actual(v))
    /\ loading' = [loading EXCEPT ![v] = <<>>]
    /\ Goto(v, "open")
    /\ UNCHANGED <<database, object_index, maps, toDelete, lock, viewer, snapshot, poll,
                   committed, deployment>>

\* ReadConflictError: the application retries its transaction.
LoadConflict(v) ==
    /\ MayRun(v)
    /\ pc[v] = "loading" /\ FromFuture(v)
    /\ loading' = [loading EXCEPT ![v] = <<>>]
    /\ Goto(v, "idle")
    /\ UNCHANGED <<database, object_index, heap, cache, toDelete, lock, viewer, snapshot, poll,
                   zodb, committed, deployment>>

\* CacheConsistencyError, after _reset.
LoadInconsistent(v) ==
    /\ MayRun(v)
    /\ pc[v] = "loading" /\ ~ FromFuture(v) /\ Inconsistent(v)
    /\ LockFree
    /\ FlushAll(v)
    /\ detached' = [w \in Viewer |-> TRUE]
    /\ loading' = [loading EXCEPT ![v] = <<>>]
    /\ Goto(v, "idle")
    /\ UNCHANGED <<database, heap, cache, toDelete, lock, snapshot, poll, zodb, committed,
                   deployment>>

-----------------------------------------------------------------------------
(* Commits, eviction, release.  A transaction may write other objects only. *)

Write(oids) ==
    /\ dbTid < MaxTid
    /\ dbTid' = dbTid + 1
    /\ history' = [o \in Oid |-> IF o \in oids THEN history[o] \cup {dbTid + 1} ELSE history[o]]

\* An instance commits.  Objects whose conflict was resolved are ghosts.
Commit(v, oids) ==
    /\ v \in deployment.instances /\ pc[v] = "open"
    /\ Write(oids)
    /\ committed' = [committed EXCEPT ![v] = dbTid + 1]
    /\ zodb' = [zodb EXCEPT ![v] = [o \in Oid |->
           IF o \notin oids THEN zodb[v][o]
           ELSE IF TidAt(o, dbTid) = TidAt(o, snapshot[v]) THEN dbTid + 1 ELSE None]]
    /\ Goto(v, "finish")
    /\ UNCHANGED <<object_index, heap, cache, toDelete, lock, viewer, snapshot, poll, loading,
                   deployment>>

\* after_tpc_finish: the committed states enter the cache.
AfterTpcFinish(v) ==
    /\ MayRun(v)
    /\ pc[v] = "finish"
    /\ cache' = [o \in Oid |-> IF committed[v] \in history[o]
                               THEN AddingValue(cache[o], committed[v]) ELSE cache[o]]
    /\ Goto(v, "idle")
    /\ UNCHANGED <<database, object_index, heap, toDelete, lock, viewer, snapshot, poll, loading,
                   zodb, committed, deployment>>

\* Another process commits.
ExternalCommit(oids) ==
    /\ Write(oids)
    /\ UNCHANGED <<object_index, heap, cache, toDelete, lock, pc, viewer, snapshot, poll, loading,
                   zodb, committed, deployment>>

\* The ring is full and the object's entry is rejected, or undo removes it.
Evict(o) ==
    /\ cache[o] # {}
    /\ cache' = [cache EXCEPT ![o] = {}]
    /\ UNCHANGED <<database, object_index, heap, toDelete, lock, pc, viewer, snapshot, poll,
                   loading, zodb, committed, deployment>>

\* The instance is released, and a new one registers.
Release(v) ==
    /\ MayRun(v)
    /\ pc[v] \in {"idle", "open", "stale"} /\ hvt[v] # None
    /\ LockFree
    /\ index' = [index EXCEPT ![v] = None]
    /\ hvt' = [hvt EXCEPT ![v] = None]
    /\ detached' = [detached EXCEPT ![v] = FALSE]
    /\ snapshot' = [snapshot EXCEPT ![v] = 0]
    /\ committed' = [committed EXCEPT ![v] = 0]
    /\ InvalidateAll(v)
    /\ Goto(v, "idle")
    /\ UNCHANGED <<database, object_index, heap, cache, toDelete, lock, poll, loading, deployment>>

-----------------------------------------------------------------------------

PollStep(v) ==
    \/ PollStart(v)
    \/ \E s \in InitTid..MaxTid : Query(v, s)
    \/ InitialPoll(v)
    \/ Revert(v)
    \/ Install(v)
    \/ Build(v)
    \/ FindChanges(v)
    \/ CollectChanges(v)
    \/ MoveViewer(v)
    \/ DetachOldest(v)
    \/ RemoveOldest(v)
    \/ Freeze(v)
    \/ VacuumDone(v)

LoadStep(v) ==
    \/ \E o \in Oid : LoadWithoutIndex(v, o) \/ LoadFromCache(v, o) \/ LoadMiss(v, o)
    \/ LoadFromDatabase(v)
    \/ LoadConflict(v)
    \/ LoadInconsistent(v)

NextPool ==
    \/ \E v \in Viewer : \/ PollStep(v)
                         \/ LoadStep(v)
                         \/ \E oids \in SUBSET Oid : Commit(v, oids)
                         \/ AfterTpcFinish(v)
    \/ \E oids \in SUBSET Oid : ExternalCommit(oids)
    \/ \E o \in Oid : Evict(o)

\* The instances of the pool are read-only: other processes write.
NextReaders ==
    \/ \E v \in Viewer : PollStep(v) \/ LoadStep(v)
    \/ \E oids \in SUBSET Oid : ExternalCommit(oids)
    \/ \E o \in Oid : Evict(o)

Next == NextPool \/ \E v \in Viewer : Release(v)

Spec == Init /\ [][Next]_vars
SpecPool == InitPool /\ [][NextPool]_vars
SpecReaders == InitPool /\ [][NextReaders]_vars

-----------------------------------------------------------------------------
(* Properties. *)

Tid == 0..MaxTid

\* Every variable has the type of the attribute or local it models.
TypeOK ==
    /\ history \in [Oid -> SUBSET (1..MaxTid)]
    /\ dbTid \in 1..MaxTid
    /\ object_index \in Slot \cup {None}
    /\ \A s \in Slot :
          /\ bucket[s].hvt \in Tid /\ bucket[s].cst \in Tid \cup {Incomplete}
          /\ bucket[s].open \in BOOLEAN /\ bucket[s].map \in [Oid -> Tid]
          /\ \A k \in 1..Len(maps[s]) : maps[s][k] \in Slot
    /\ cache \in [Oid -> SUBSET [tid : 1..MaxTid, frozen : BOOLEAN]]
    /\ toDelete \in [Oid -> Tid]
    /\ lock \in Viewer \cup {NoViewer}
    /\ hvt \in [Viewer -> Tid]
    /\ detached \in [Viewer -> BOOLEAN]
    /\ index \in [Viewer -> Slot \cup {None}]
    /\ snapshot \in [Viewer -> Tid]
    /\ zodb \in [Viewer -> [Oid -> Tid]]
    /\ committed \in [Viewer -> Tid]
    /\ deployment \in Deployment

InTransaction(v) == pc[v] \in {"open", "loading"}

\* The tid whose states a viewer reads.
View(v) == IF index[v] = None THEN snapshot[v] ELSE hvt[v]

\* A transaction reads one snapshot: whatever a ZODB connection holds, from
\* this transaction or an earlier one, from the cache or from the database,
\* is the state as of the tid of its index.  The code does not keep this.
ReadsSnapshot ==
    \A v \in Viewer, o \in Oid :
        InTransaction(v) /\ zodb[v][o] # None => zodb[v][o] = TidAt(o, View(v))

\* An index entry a viewer can reach is the object's tid in the snapshot of
\* its load connection, however many viewers wrote to the shared buckets.
EntriesMatchSnapshot(v) ==
    InTransaction(v) /\ index[v] # None =>
        \A o \in Oid : Lookup(index[v], o) \in {None, TidAt(o, snapshot[v])}
IndexMatchesSnapshot == \A v \in Viewer : EntriesMatchSnapshot(v)

\* An instance that goes back in time with its replica keeps nothing of an
\* index from its future: the same holds of its next index.
RevertForgetsTheFuture ==
    deployment.revert_when_stale => \A v \in deployment.instances : EntriesMatchSnapshot(v)

\* A viewer's index is as new as what it polled: never older, never newer.
IndexIsOfSnapshot ==
    \A v \in Viewer : InTransaction(v) /\ index[v] # None => hvt[v] = snapshot[v]

\* What a ZODB connection holds is a state of the object that was committed
\* and is not from the future of its index, although the cache is shared
\* with viewers that are ahead, and also when the viewer is cut off.  Where
\* load connections lag, its own commit may be.
ReadsNothingNewer ==
    \A v \in Viewer, o \in Oid :
        InTransaction(v) /\ zodb[v][o] # None /\ ~ deployment.replica =>
            zodb[v][o] \in history[o] /\ zodb[v][o] <= View(v)

\* A viewer that polls is told of every object that changed since it last
\* polled, whatever the vacuums of the others removed, unless it wrote the
\* change itself.  That is where the index does not get so deep that
\* viewers are cut off: no index has two buckets of one tid.
InvalidationsComplete ==
    deployment.max_depth > MaxTid =>
        \A v \in Viewer : pc[v] = "move" =>
            \A o \in Oid : TidAt(o, snapshot[v]) > hvt[v] =>
                o \in poll[v].changes \/ TidAt(o, snapshot[v]) = committed[v]

\* The coordinator's index goes forward, unless it is flushed.
IndexMovesForward ==
    [][object_index # None /\ object_index' # None =>
          bucket'[object_index'].hvt >= Front(object_index).hvt]_vars

\* The assertions of __setitem__: a bucket that is complete for a range
\* knows every tid of the range.
SetItemAssertions ==
    \A v \in Viewer : pc[v] = "loading" /\ ~ FromFuture(v) /\ ~ Inconsistent(v) =>
        \A k \in 1..Depth(index[v]) : LET b == bucket[maps[index[v]][k]] IN
            b.open /\ k > SetPosition(index[v], Actual(v)) => b.map[loading[v][1]] = Actual(v)
=============================================================================
