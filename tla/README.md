# RelStorage in TLA+

RelStorage keeps ZODB object databases in SQL databases.  Many storage instances,
in the threads or greenlets of many processes, load from and commit to one
database; the instances of one process share a cache.  This directory models the
parts in which they meet: the **two-phase commit** against the database, the
**multi-version cache** with its polls, the **C++ cache** below it and the **cache
file** beside it, the **garbage collector** of history-free databases, the **pool of
store connections**, and the **allocation of object ids**.  Paths below are relative to `src/src/relstorage/`.

## Inventory

| Component | State | Operations | Interacts with |
|---|---|---|---|
| Two-phase commit (`storage/tpc/`) | phase object of an instance, `temp_objects`, `required_tids`, `committing_tid_lock` | `tpc_begin`, `store`, `checkCurrentSerialInTransaction`, `undo`, `deleteObject`, `restore`, `tpc_vote`, `tpc_finish`, `tpc_abort` | store connection, locker, mover, cache, blob helper; called by the transaction manager |
| Row locks and conflicts (`adapters/adapter.py`, `locker.py`, `postgresql/`, `mysql/`) | row locks, advisory locks, the commit lock, the pack lock | `lock_objects_and_detect_conflicts`, `lock_database_and_choose_next_tid`, `hold_pack_lock` | all sessions of the database |
| Object mover (`adapters/mover.py`) | `object_state`, `current_object`, `temp_store` | `store_temps`, `detect_conflict`, `replace_temps`, `move_from_temp`, `update_current`, loads | two-phase commit, cache |
| Undo (`storage/tpc/begin.py`, `adapters/packundo.py`) | uncommitted copies of old revisions | `undo`, `verify_undoable` | pack lock, commit lock |
| Coordinator (`cache/mvcc.py`, `_mvcc.py`) | shared object index, registered viewers | `poll`, vacuum, `flush_all`, `register`, `unregister`, save, restore | viewers, local client |
| Object index (`cache/_objectindex.pyx`) | list of buckets oid -> tid, each with the tids it is complete for | `__getitem__`, `__setitem__`, `with_polled_changes`, `collect_changes_after`, removal of the oldest | shared by the viewers |
| Storage cache (`cache/storage_cache.py`, `local_client.py`) | values of each object by tid, some frozen | `load`, `loadSerial`, `prefetch`, `after_tpc_finish`, freeze, discard | coordinator, load connection |
| In-memory cache (`cache/c_cache.cpp`, `c_cache.h`, `cache.pyx`) | entries, an index by oid, three generations with a list and a sum of weights each, references from Python | `add_to_eden`, `store_and_make_MRU`, `get`, `peek`, `delitem`, `freeze`, `add_many`, `age_frequencies` | storage cache, Python's garbage collection |
| Poller (`adapters/poller.py`) | none | `poll_invalidations` | load connection, possibly a replica |
| Storage facade (`storage/__init__.py`) | open flag, stale error, last commit | `poll_invalidations`, `sync`, `new_instance`, `release`, `close` | everything |
| Connections and store pool (`adapters/connections.py`) | open connections, instance count | `borrow`, `replace`, drop, shrink, restart | two-phase commit |
| OID allocation (`storage/oid.py`, `adapters/oidallocator.py`, one allocator per database) | a sequence; preallocated oids and the maximum seen of each instance | `new_oid`, `set_min_oid` | store connection |
| Pack and GC (`storage/pack.py`, `adapters/packundo.py`, `treemark.py`) | `pack_object`, `object_ref`, pack lock | `pre_pack`, `pack` | concurrent commits |
| Persistent cache (`cache/persistence.py`, `local_database.py`, `local_client.py`) | an SQLite file with rows and a checkpoint | save, restore, removal of invalid rows, trim | several processes, coordinator |
| Blob helpers (`blobhelper/`) | files, cache size | upload, download, clean | vote and finish |
| the rest | | memcache client, history and iteration, copying, replica selection, tools, schema, drivers | |

What is hard here: transactions of many sessions interleave between every two
statements; rows are locked in two modes and new rows not at all; checks are made
before locks are granted; sessions are lost and lock waits time out half-way; undo
does not lock what it changes.  In the cache, polls overlap and end in another
order than they began; one thread vacuums the buckets another one reads; the
database a replica shows goes backwards; viewers come, go and are cut off.  The
C++ cache moves, replaces and frees entries that Python still holds, with weights
kept by adding and subtracting.  Processes read, crash and save into one cache file
without knowing of each other.  The garbage collector works for hours on tables it
filled at the beginning, in batches, while transactions commit.  Store connections
change hands while sessions end, cleaning up fails and instances are released.

What makes the components correct: a commit is atomic, loses no update and
respects `readCurrent()`; tids become visible in order, or pollers would miss
them; lock waits end without timeouts where the code claims so; a ZODB connection
only ever holds the states of its snapshot, and is told of every change; a bucket
that claims to be complete is.  A value Python holds is not freed, and the cache
shows nothing of its rings but evictions; what was restored from a file is read only
if it is current; what the root reaches is never collected, and garbage is.  A
connection is in one hand or in the pool, clean, and no session is left behind.

## Modules

* `AtomicCommit`: what the commit promises.  A database is the revisions (`rows`),
  the current revision of each object and the committed tids; one step commits a
  set of writes with a later tid, each replacing the current revision.
* `TpcCommit`: two-phase commit.  One action per step that other sessions can see
  or get between: the `phase` of an instance is its tpc phase object and, inside
  `tpc_vote`, the statement of the lock procedure it has reached.
* `MvccCache`: the coordinator, the object index, the cached values and the load
  path of several viewers of one process.
* `CachedValues`: the values of one object, as the callers of the in-memory cache
  see them; used by `MvccCache` and `PersistentCache`.
* `ValueCache`: what the in-memory cache promises: sets of values by object, changed
  only by the call that names the object; a call may evict other objects.
* `GenerationalCache`: the C++ cache; it implements `ValueCache`.
* `PersistentCache`: the cache file and the processes that restore from it, work
  with one viewer each and save into it.
* `HistoryFreePack`: pre-pack and pack of a history-free database, beside
  transactions of applications.
* `StorePool`: the pool of store connections, and what transactions, `new_oid`,
  `release` and `close` do with them.
* `OidAllocator`: the sequence of the database and the oids its instances have
  preallocated.
* `TpcCommit_proofs`, `MvccCache_proofs`, `GenerationalCache_proofs`,
  `PersistentCache_proofs`, `HistoryFreePack_proofs`, `StorePool_proofs`,
  `OidAllocator_proofs`: theorems about these modules; `CachedValues_proofs`: lemmas about the operators of `CachedValues`.
* `MCTpcCommit`, `MCMvccCache`, `MCGenerationalCache`, `MCHistoryFreePack`,
  `MCStorePool`: constants and symmetry for TLC; `PersistentCache` and `OidAllocator` need none.

`PROJECT.json` maps each definition to the lines it stands for.  Operators marked
`Mutant` in a comment are wrong versions of the definition that follows; they
are used to see that each property notices a mistake, and no specification uses
them.

### TpcCommit and the code

| Actions | Code |
|---|---|
| `TpcBegin`, `Store`, `CheckCurrentSerial` | `storage/tpc/begin.py`; the serial is that of the load snapshot |
| `TpcVote`, `PreCheck`, `LockShare`, `ReCheck`, `LockExclusive`, `DetectConflicts` | `storage/tpc/vote.py` and `lock_objects_and_detect_conflicts.sql`: check `readCurrent()`, take the shared locks one row after the other without waiting, check again, take the row locks in oid order, compare the serials |
| `ResolveConflicts`, `CannotResolve` | conflict resolution in `vote.py` |
| `LockDatabaseAndMove` | commit lock, tid allocation, `move_from_temp`; in `tpc_vote` ("prepared") or in `tpc_finish` ("moved") |
| `CommitPhase2` | COMMIT; the moved rows, the current pointers and the transaction row appear |
| `UndoVerify`, `Undo`, `MoveFails` | the two halves of `undo`, before and after the wait for the commit lock; the move of an object that the transaction has also stored |
| `LockTimeout`, `CommitLockTimeout`, `AbortFailed`, `TpcAbort`, `Disconnect` | a lock timeout or deadlock victim, the aborts that follow, a lost session |

The lock table is PostgreSQL's: shared and exclusive locks per object and the
commit lock end with the database transaction or with a failed statement; the
pack lock belongs to the session, is counted, and goes only when it is released
or the session ends.  An instance is identified with its session.

Abstractions: a state is the tid that wrote it (`data`), so undo's "same state"
is equality of `data`, and 0 stands for NULL (an undone creation).  An application
polls, reads and stores between `tpc_begin` and the vote without effect on others,
so the snapshot is taken by `TpcBegin`.  Which instance allocates an oid is the
constant `Owner`.  A transaction may store an object and undo it (`begin.py`: "there's not
a strict guarantee about that"): its own undone revision is then current for its checks
(`OwnTid`), and is reported as a conflict; if that is resolved, the INSERT of the move
meets a second row of the same object and tid and fails.  Deleted objects, `restore` and blobs are not modelled.

### MvccCache and the code

| Actions | Code |
|---|---|
| `PollStart`, `Query`, `InitialPoll`, `Revert`, `Install`, `Build`, `FindChanges`, `CollectChanges`, `MoveViewer` | `poll` in `cache/mvcc.py` and `poll_invalidations` in `adapters/poller.py`, cut at the database query and at each section under the coordinator's lock |
| `DetachOldest`, `RemoveOldest`, `Freeze`, `VacuumDone` | cutting off the oldest viewers and `_vacuum` |
| `LoadWithoutIndex`, `LoadFromCache`, `LoadMiss`, `LoadFromDatabase`, `LoadConflict`, `LoadInconsistent` | `StorageCache.load`, cut at the database query |
| `Commit`, `AfterTpcFinish`, `ExternalCommit` | commits of a viewer (atomic here, see `TpcCommit`) and of other processes |
| `Evict`, `Release` | a full ring or undo; the end of an instance |

An index is a list of slots of `bucket`; its newest bucket is its own and names
it, the older ones are shared, as `bm.OidTidMap` objects are in the code.  Slots
that nothing reaches are reused.

Abstractions: a state is the tid that wrote it.  The two limits on the size of an
index are one, `max_depth`.  In `load`, the lookups in the index and in the cache
are one step, and so are the check of the tid and the entries made in the index and
the cache after the query.  For greenlets that is exact.  A thread can get between two of
these calls, each of which holds the GIL; then a value may be gone, which is a miss, or
a wildcard lookup may meet a value frozen since, which the check against
`highest_visible_tid` sees as it sees the others; no run is about which older value it
is with threads.  The empty database (tid 0) and deleted objects are not modelled.
How the program is run is chosen once, at the start, from the constant
`Deployment`: `threads` is FALSE for gevent drivers, whose greenlets switch only
where they wait for the database; with `replica` the load connections are on
asynchronous replicas, modelled by what they show, and a poll may see any committed
tid; `revert_when_stale` is the option; `max_depth` is how deep an index may get before
the oldest viewers are cut off; `instances` are the viewers it has.  `Spec` starts with
instances that have not polled and lets them come and go; `SpecPool` is the pool
of instances that have polled and stay open, and `SpecReaders` such a pool with the
option `read-only`, where only other processes write.

### GenerationalCache and the code

| Actions | Code |
|---|---|
| `AddToEden`, `StoreAndMakeMRU`, `GetOrPeek`, `Delitem`, `DelitemBefore`, `Freeze`, `AgeFrequencies` | the methods of `Cache` in `c_cache.cpp`, as `PyCache` calls them |
| `OnHit`, `Fill`, `SpillStop`, `SpillAdopt`, `SpillEvict` | `on_hit` of the generation, the loop of `Eden::_balance_rings`, one iteration of `_spill_from_ring_to_ring` |
| `AddMany`, `LoadRow`, `LoadRound` | the bulk load of an empty cache: its rows, its rounds of spills |
| `ReturnToPython`, `PyRelease` | the reference a `SingleValue` takes after the call, and its end |
| `FlushAll` | `LocalClient.flush_all`: a new cache and the destructor of the old one |

Every call runs under the GIL, so calls do not interleave; a call with loops is
several steps, and `pc` says where it is.  An address is an object and a number:
the allocator may return any free address, and which one makes no difference.
`ReplaceWith` and `Drop` take the weight the entry has *by then*: `freeze_to_tid` and
`discarding_tids_before` remove values first and subtract what is left.  Sums are
taken modulo `SizeModulus`, as `size_t` is.

`ImplementsValueCache` maps `values[o]` to the values of the entry the index leads
to and `using` to the object of the running call: that no call evicts the object it
is for is the point of `updated_ignore_me`.  `ValueCache` leaves open which values
`delitem` removes, since the two kinds of entry remove from different sides; what that
does to readers is the run `cache_discard`.  A state is its tid, so the `logic_error` for two
states of one tid does not occur, and references from Python are those to single
values, not to the `MultipleValues` that iteration and a `get` without tid return.

### PersistentCache and the code

| Actions | Code |
|---|---|
| `CannotOpen`, `ReadCheckpoint`, `ReadRows` | `LocalClient.restore` and the two queries of `read_from_sqlite` |
| `PollOldOids`, `RemoveInvalid`, `FailToRemove` | `__poll_old_oids_and_remove` in `mvcc.py`; the removal from the file, tried three times |
| `Poll`, `Load`, `Commit`, `Evict`, `ExternalCommit` | the process at work, with one viewer: `MvccCache` has the details |
| `StoreTemp`, `BeginImmediate`, `CommitSave`, `Trim` | `write_to_sqlite`: its two transactions and `trim_to_size` |
| `Crash` | a process that dies, fails or closes without saving |

A state is its tid.  Which rows are used most, and so restored or trimmed, depends
on frequencies and sizes: any subset.  `ReadRows` reads the cached rows as one
snapshot, as one SQLite statement does.  A file that is corrupt is deleted and
made anew by the code, which is a start with nothing saved.

### HistoryFreePack and the code

| Actions | Code |
|---|---|
| `ChoosePackTransaction`, `FillPackObject` | `Pack.__pre_pack`; the first half of `_pre_pack_main` |
| `CollectObjects`, `AddRefs` | `fill_object_refs`: the snapshot of the load connection begins, references are analysed object by object |
| `TraverseGraph`, `MarkReachable`, `FinishPrePack` | `_traverse_graph` with `TreeMarker` (`Mark`), the upload of the keep flags |
| `SkipPrePack`, `FetchObjectsToRemove`, `Remove`, `PackCleanup` | `HistoryFreePackUndo.pack` |
| `Crash` | the packer ends anywhere; what it committed stays |
| `Transaction` | applications: a new state of a reachable object, perhaps with a new object |

A state is the set of objects it refers to.  Batches are committed by time: the
steps of single objects, of which a crash ends any number, have every batch.  Two
assumptions are written down and not built in: `CompletePrePack` (the option to skip
pre-pack is used after a complete one: `pack` "requires the information provided by
pre_pack" and does not check it) and, in `SpecAssumed`, `OldStaysReferenced` (what the
comment in `_pre_pack_main` says of applications).  `garbage` is history.

### StorePool and the code

| Actions | Code |
|---|---|
| `Borrow`, `BorrowFails`, `BorrowClosed` | `StoreConnectionPool.borrow`: pop or make a connection under the lock, then `restart` and `begin`; `ClosedConnection` has no `begin` |
| `Replace`, `PutBack`, `PutBackRaises` | `_replace` (`ReplaceThen`): `rollback_quietly`; if it fails the connection is dropped and that is all; else append and `_shrink` under the lock; after `close` the list is a tuple.  An instance that was closed has a `ClosedConnectionPool`, whose `replace` does nothing |
| `NewOid`, `NewOidFails`, `CommitOid`, `CommitOidFails` | `new_oid` with `borrowing(commit=True)` and `call`, or on the connection of the transaction that is committing |
| `TpcBegin`, `Write`, `VoteFails`, `TpcFinish`, `TpcAbort` | the tpc methods of `RelStorage`, as far as they use, commit or give up the store connection |
| `AbortStore`, `AbortStoreRaises`, `Cleaned`, `CleanerFails`, `AbortAgain` | `SharedTPCState.__cleanup`: the store connection first, then all others; which may raise.  When the abort of the store connection raises, it is not dropped even by force, but replaced all the same |
| `NewInstance`, `Release`, `ZapAll`, `Close` | the methods of `RelStorage`, with `new_instance`, `release`, `drop_all` and `close` of the pool |
| `LoseSession` | the server ends a session |

`held` is the `store_connection` of the transaction or the one `borrowing` has.  A
connection knows a session or none (`drop`); a session that was lost is not known to
be.  `work` is what it has not committed.  `restart` and `begin` are in the step that
took the connection: nobody else has it.  `phase` is "stuck" where `tpc_abort` has
raised without `_force` and the phase object stayed.  An instance is used by one
thread and released once; `close` is called while no other thread is inside a call.
`abandoned` is history: see below.

### OidAllocator and the code

| Actions | Code |
|---|---|
| `NewOid`, `NewOids` | `new_oid` in `storage/oid.py` from the preallocated range, or with a new range from the allocator |
| `NewOidsFails` | the COMMIT of `borrowing(commit=True)` fails after the range was assigned |
| `SetMinOid`, `RaiseSequence` | `set_min_oid`, cut between its look at the sequence and its change: `nextval` and `setval` on PostgreSQL, the two INSERTs of the procedure on MySQL, SELECT and UPDATE on SQLite |
| `SetMinOidFails`, `NewInstance` | the statement fails; an instance is closed and another one opened |

`observed` is the oid an instance is in the middle of `set_min_oid` with.  `given`
and `minimum` are history, for the properties.  The oids of `Outside` stand for
those of transactions copied from other databases.  Not modelled: Oracle's
`ALTER SEQUENCE`, `reset_oid`, and the deletion of used rows on MySQL.

## Runs

| Run | Checks | Bounds |
|---|---|---|
| `stores` | `NoLostUpdate`, `ReadCurrentHolds`, `DeadlockNeedsReadCurrent`, `ImplementsAtomicCommit` | 2 instances, 2 objects of which one is new, 2 commits |
| `writes` | `WritersGetTheirLocks` | 2 instances, 2 objects, 2 commits |
| `undo` | `TypeOK`, `CurrentIsNewest`, `CommitsInTidOrder` with undo | 2 instances, 2 objects of which one is new, 2 commits |
| `cache_threads` | `IndexMatchesSnapshot`, `SetItemAssertions`, `IndexIsOfSnapshot`, `InvalidationsComplete`, `ReadsNothingNewer` for threads, for greenlets with cut-off viewers, and for one instance on a lagging replica | 2 viewers, 1 object, 2 commits, depth 2 where viewers are cut off |
| `cache_discard` | violated: `ReadsSnapshot` for greenlets that only read (`SpecReaders`), nobody cut off | 2 viewers, 1 object, 3 commits |
| `cache_instances` | `TypeOK`, `RevertForgetsTheFuture`, `IndexMovesForward` where instances come and go, under threads, or a lone one reverts with its replica | 2 viewers, 1 object, 1 commit |
| `generations` | `TypeOK`, `IndexMatchesRings`, `SeveralValues`, `SingleWeightsAccounted`, `ProtectedWithinLimit`, `HeldValuesStay`, `ImplementsValueCache`, `CallsEnd` | 3 objects of different size, up to 3 values of one, one Python reference, 2 files |
| `restart` | `TypeOK`, `ReadsCurrent`, `RowsMoveForward`, `CheckpointMovesForward`, `RestoreEnds` | 2 processes, 1 object, 2 commits, replicas |
| `restart_timeout` | violated: `ReadsCurrent` when the poll may time out | the same, without replicas |
| `pack` | `TypeOK`, `NoDanglingReferences`, `CollectsGarbage` under `SpecAssumed` | 3 objects and a new one, 2 commits, any number of packs |
| `store_pool` | `TypeOK`, `NoSessionLeaked`, `OnePlace`, `PoolWithinLimit`, `PooledAreClean`, `WritesStayTogether` | 3 instances, 3 connections, a limit of 2, 2 lost sessions |
| `oids` | `UniqueOids`, `NewRangesAreGreater` on MySQL | 2 instances, ranges of 2, sequence up to 4, 2 oids from elsewhere |

Why the bounds are enough: two instances and two objects are what a lock cycle, a
lost update or a mixed-up `readCurrent()` needs; two commits let one instance
create an object and the other one change it, and both change the existing one.  The proofs below cover any number.
In the cache everything is kept per object, so one object, with transactions that
write it and transactions that write something else, meets every case of one
bucket entry; two commits give an index of three buckets, which two viewers share,
build apart, collect from and vacuum; the third commit of `cache_discard` is what a
viewer has to miss that another one's vacuum goes by.  Several viewers on a lagging
replica, and threads that are cut off, are left to the proofs.  `NumSlots` is more than two viewers and the
coordinator can reach.  `MaxHolds` bounds how often a session is left holding the
pack lock.  For the C++ cache, the limits are chosen so that one of the three
objects fits into eden beside another, protected holds two and probation one: every
branch of the spills is taken (TLC's coverage shows it), and one object has first
one, then several values.  Weights are small numbers and `SizeModulus` is 64, so that
a sum that wraps is seen.  In the cache file everything is kept per object, and two
processes meet in every order.  For pack, three objects are a root, a container and
an object to move; the fourth is the new container; two commits and repeated packs
let references be analysed in one pack and reused in the next.  Three instances can hold three connections, one more than the pool may keep,
and leave fewer instances than connections; one session can be lost in the pool and
one in use.  For oids, one instance that raises the sequence while another one
takes two ranges is enough; ranges of 2 have a first and a last oid, `Outside` has
one of each kind, and four values leave room to go back and forward again.

Fairness (`SpecWrites`): the transaction manager finishes or aborts what it began
(`WF` of an instance's steps: `transaction._transaction` calls `tpc_finish` or
`tpc_abort` after every vote), and the database grants a row lock that becomes
free again and again to those who wait for it (`SF` of `LockExclusive`: row locks
are queued).  No lock times out in this specification: it shows that the ordered
statement needs no timeout.  `CallsEnd` assumes `WF` of the steps of a running call:
it holds the GIL and waits for nothing.  `RestoreEnds` assumes `WF` of the steps of a
process that restores: SQLite's waits have a timeout, after which the statement
fails (`FailToRemove`).  No other run assumes fairness.  In all of them the
system may stop at the last tid, which is a bound of the model; an instance can
always abort and begin again, so TLC's deadlock check stays on, but in `store_pool`,
which ends when all instances are closed.

### What the violated runs show

* `restart_timeout`: with `RS_CACHE_POLL_TIMEOUT` set, the objects that the poll did
  not get to have no current tid, and `contains_oid_with_tid(oid, None)` is true for
  every restored object, because all are frozen.  They stay, unchecked, and are read.
  The test for the timeout says "Everything we didn't get returned from the database
  was considered invalid", with a mock that treats a missing tid that way.  Objects
  that were deleted from the database are kept for the same reason.
* `cache_discard`: `SVCacheEntry::discarding_tids_before` tests the single value the
  other way round than `MVCacheEntry` does: it keeps an older one.  An object was
  written at 1, 2 and 4; its state of tid 1 is cached and frozen, and nobody loaded the
  later ones.  One viewer is at 3.  The other one polls 4 and vacuums the bucket of 2:
  the entry of the object has newer data in the index, leaves the bucket, and the cache
  is to discard what is not newer than 2; the frozen value stays.  The viewer at 3
  shares the bucket, finds no entry, and takes the frozen value for the state of its
  snapshot.  `local_client.py` says of this case that "we will invalidate the cache for
  anything older than that TID, which includes the first frozen state".  With one commit
  less the case does not arise; the attempt to prove `ReadsSnapshot` led to it.

### Other disagreements

Five further ones have a cfg of their own, which TLC refutes:

* `TpcCommit_undo_verify.cfg` (`UndoMatchesCurrent`): `undo` verifies, then waits for
  the commit lock, then copies.
  A transaction that holds the commit lock meanwhile changes the object, and the
  rule in `packundo.py` ("we can undo an object if the object's state in the
  transaction to undo matches the object's current state") no longer holds when
  the copy is made.
* `TpcCommit_undo_lost.cfg` (`NoLostUpdate`): `undo` takes no row locks.  A transaction
  that has voted, and has
  locked and checked its rows, commits over the undone revision, or undo over it.
* `OidAllocator_setval.cfg` (`UniqueOids`): on PostgreSQL `set_min_oid` compares with
  `nextval` and then calls
  `setval` in one statement, but sequences are not transactional.  When other
  sessions have taken ranges beyond the new minimum in between, `setval` moves the
  sequence back and these ranges are handed out a second time.
* `HistoryFreePack_moved.cfg` (`NoDanglingReferences` without the assumption
  `OldStaysReferenced`): `pack_object` is filled and committed, then the load connection is
  restarted and begins its snapshot.  A transaction in between creates an object and
  moves into it the only reference to an older one, as a BTree does when it splits a
  bucket.  The new object is not in `pack_object`, so it is neither analysed nor a
  root; the old container no longer refers to the object; it is removed.  The comment
  in `_pre_pack_main` takes this for "the app doing something seriously wrong" and
  the snapshot for one that is "no later" than the table.
* `StorePool_abandoned.cfg` (`NothingAbandoned`): "If any of them are, then the `abort`
  method takes care of cleaning them up", says `SharedTPCState` of its resources.  But
  if a cleaner raises in a `tpc_abort` that is not forced, the phase object stays and
  its list of resources is a tuple: a store connection first used then, by `new_oid`,
  is borrowed and never given back.  The instance also refuses every later transaction:
  `tpc_begin` raises, and `tpc_abort` ignores a transaction that is not the old one.  And
  if a cleaner raises in the `close()` of one instance, the instances after it are not
  closed; when they end their transactions, `_replace` appends to a tuple, raises and
  leaves the session open.

Further observations that no run states.  A viewer is attached only after its first
poll; others may by then have vacuumed what it needs, and its next poll misses a
change (`InvalidationsComplete` under `Spec`).  `set_min_oid` does nothing for an
oid up to the end of the instance's own range, so an oid copied from elsewhere that
lies in it is still given out; the same holds for the ranges of other instances.
`NewRangesAreGreater` is about ranges fetched after the minimum was set.
The vacuum removes a bucket and freezes
its values in two steps; with threads, a load in between finds no index entry and
may take an older frozen value: a second way to violate `ReadsSnapshot`, which greenlets
do not have.  A viewer that was cut off and has a poll of its own under way attaches
again with an index built from the one its poll began with; the coordinator has by
then removed buckets it still needs, and its next poll may miss a change, which is why
`InvalidationsComplete` is about indexes that do not get too deep.  With two overlapping first polls
from an empty coordinator the second viewer is given the other one's index, which
is not of what it polled (`IndexIsOfSnapshot` under `Spec`); the same happens when two
instances poll after a revert, which is why only one reverts in `cache_instances`.  After `flush_all`
frozen values are kept although the index that said they had changed is gone.
On PostgreSQL a timeout for the commit lock inside `undo` leaves the session's
pack lock held: the unlock statement fails in the failed transaction.

In the C++ cache, `MVCacheEntry::adding_value` does not add to the sum of the
generation, and shrinking an entry subtracts what is left of it; the sums drift as
soon as an object has had several values and may wrap below zero, which is why
`SingleWeightsAccounted` and `ProtectedWithinLimit` stop there.  Entries for which
`freeze` or `delitem` returns `nullptr`, and a single entry replaced in
`store_and_make_MRU`, are not deleted: the model forgets them like deleted ones.
Probation may exceed its limit by the exchange in `_spill_from_ring_to_ring` (the
comment at its end knows), and eden after the first branch of `_balance_rings`.

In the cache file, `read_from_sqlite` reads the checkpoint and the rows in two
statements.  If the first save ever is committed in between, rows are restored with
no checkpoint, and are never polled: with `Saved = FALSE` TLC finds that they are
read when stale.  `object_index` is handed to `write_to_sqlite` and not used, so
values known to be stale may be written; the next restore finds them out.  The check
of a wildcard hit in `StorageCache.load` ("This situation should be impossible") is
needed with replicas: without it TLC refutes `ReadsCurrent`.

In pack, skipping the pre-pack after one that crashed would remove objects whose keep
flag was not uploaded yet.  The same holds for a pack point before the oldest
transaction, where `__pre_pack` returns nothing and `pack` goes on.  An object that
changed after `pack_tid` and after `pack_object` was filled, and was then unlinked, is
collected although the docstring of `pre_pack` says it will not be.

## Proofs

Every theorem is for all values of the constants that meet the assumption named in
the module that declares them: any number of instances, viewers, processes, objects
and transactions.  The sets of clients and of instances are finite, oids are numbers
(pack also needs that there are finitely many, and so does the in-memory cache, of tids
and threads too), and bounds are numbers.  Each proof
has one lemma per action or per group of actions that do the same to the invariant.

| Module | Theorems (property) |
|---|---|
| `TpcCommit_proofs` | of `SpecStores`: `StoresTypeOK`, `StoresNoLostUpdate`, `StoresReadCurrentHolds`, `StoresImplementAtomicCommit`, `WritersDoNotDeadlock` (`DeadlockNeedsReadCurrent`); of `Spec`, with undo: `AllTypeOK`, `TidOrder` (`CommitsInTidOrder`), `CurrentRowIsNewest` (`CurrentIsNewest`) |
| `MvccCache_proofs` | of `Spec`: `CacheTypes` (`TypeOK`), `IndexGoesForward` (`IndexMovesForward`); of `SpecPool`, if no deployment reverts: `EntriesAreOfSnapshot` (`IndexMatchesSnapshot`), `IndexesAreOfSnapshot` (`IndexIsOfSnapshot`), `SetItemAsserts` (`SetItemAssertions`), `ViewersHoldThePast` (`ReadsNothingNewer`), `PollsTellEverything` (`InvalidationsComplete`); of `Spec`, if whoever reverts is alone in its process: `RevertsForgetTheFuture` (`RevertForgetsTheFuture`) |
| `GenerationalCache_proofs` | `CacheTypeOK` (`TypeOK`), `CacheIndexMatchesRings` (`IndexMatchesRings`), `CacheSeveralValues` (`SeveralValues`), `CacheHeldValuesStay` (`HeldValuesStay`), `CacheSingleWeightsAccounted` (`SingleWeightsAccounted`), `CacheProtectedWithinLimit` (`ProtectedWithinLimit`), `CacheImplementsValueCache` (`ImplementsValueCache`) |
| `PersistentCache_proofs` | `PersistentTypes` (`TypeOK`), `RowsNeverGoBack` (`RowsMoveForward`), `CheckpointNeverGoesBack` (`CheckpointMovesForward`); `RestoredReadsAreCurrent` (`ReadsCurrent`) if the file was saved before and polls do not time out |
| `HistoryFreePack_proofs` | of `SpecAssumed`: `PackTypes` (`TypeOK`), `PackRemovesNoReachable` (`NoDanglingReferences`), `PackCollectsGarbage` (`CollectsGarbage`) |
| `StorePool_proofs` | `PoolTypes` (`TypeOK`), `ConnectionsHaveOnePlace` (`OnePlace`), `PoolIsClean` (`PooledAreClean`), `SessionsAreGivenBack` (`NoSessionLeaked`), `TransactionsKeepTheirSession` (`WritesStayTogether`), `PoolIsBounded` (`PoolWithinLimit`) |
| `OidAllocator_proofs` | `OidsAreUnique` (`UniqueOids`), `RangesAreGreater` (`NewRangesAreGreater`), on every backend but PostgreSQL |

### Two-phase commit

`NoLostUpdate` is not inductive.  The inductive invariant `IInv` adds what makes
it so, and each part is there because the commit step needs it or keeps it for
another one:

* `TidInv`: a tid is held under the commit lock and is later than every committed
  one until it is committed; otherwise a commit could go behind another;
* `LockInv`: the lock table grants no conflicting locks;
* `TableInv`: the current pointers name the newest committed rows;
* `ViewInv`, `TempInv`: a serial that was stored comes from the snapshot, and an
  object that is new for its owner is new for everybody; new objects are not
  locked, so only this protects them;
* `ExclusiveInv`: what will be replaced is locked from conflict detection on;
* `ConflictInv`: while conflicts are resolved the conflicting tids stay current;
* `ValidInv`: a transaction that passed the vote would replace exactly the current
  revisions.  This is where `NoLostUpdate` and the step of `AtomicCommit` come
  from;
* `ReadInv`: the same for `readCurrent()` and its shared locks;
* `UndoInv`: `SpecStores` has no undo.

`CommitPhase2Inv` is the long lemma.  `WritersDoNotDeadlock` adds `LockOrderInv`: a
transaction in the ordered statement has locked a lower part of the rows it modifies,
and nobody has row locks before it.  So whoever waits for a row has only lower ones,
and no set of transactions can all wait for each other (`NoCircle`).

With undo `IInv` does not hold, as `TpcCommit_undo_lost.cfg` shows.  `TidOrder` uses
`OrderInv` instead, and `CurrentRowIsNewest` uses `UInv`: every serial a transaction
keeps names a revision that exists, or its own undone one (`SerialInv`), what it moves
it has not undone (`MoveInv`), and undo has the pack lock while it works (`HoldInv`).

### The cache of a process

`HInv` is for every deployment: an index begins with its own bucket, no bucket that
an index in use has is in a slot that is free (`HeadInv`), and what a viewer has when
it gets to a place (`StageInv`).  While a viewer vacuums, its `cur` is a bucket that it
removed and not an index, which is why `Indexes` leaves it out.

For a pool that does not revert, `IInv` adds what the buckets say:

* `OrderInv`: an index has its newest bucket first, and no two of one tid;
* `EntryInv`: an entry is the object's tid at the tid of its bucket, and a bucket that
  is open and complete for a range has what changed in the range;
* `LookupInv`: the newest entry of an object in an index is its tid at the tid of the
  index.  `IndexMatchesSnapshot` follows, with `ViewerInv`;
* `CoverInv`: an object that no open bucket between two positions has did not change
  between their tids.  This keeps `LookupInv` when a load adds an entry to an open
  bucket that other indexes have further back, with `ClosedInv`: buckets are closed
  from the oldest on;
* `SharedInv`: of two indexes that share a bucket one may have lost an older bucket;
  it is closed and what it still has did not change up to the shared one.  Without this
  a vacuum that empties a bucket of the coordinator could uncover an older entry in a
  longer index;
* `PoolInv`: no bucket is from the future of the database, the coordinator is not
  flushed, and a viewer's index and poll are of its snapshot.

The steps do four things to the buckets (`Stepped`): nothing, a push, an entry, a
removal.  A push: an object that is not among the changes did not change since the
tid the poll began with, which the index before it has reached.  A commit does not
change what was visible at earlier tids (`WriteKeepsPast`).  `InitialPoll`, `Revert`,
`LosePoll`, `LoadWithoutIndex`, `LoadConflict` and `LoadInconsistent` cannot happen in
such a pool, and that is part of the proof: with nobody to flush, the consistency
errors of `load` do not occur.

`ReadsNothingNewer` needs `ForwardInv` (no viewer goes back, the coordinator is ahead
of all) and `HeldInv`: the cache has committed states only, and a viewer's states are
of its past, or its own commit until it has polled.  `InvalidationsComplete` needs
`ToldInv`: every index in use has a bucket that is not newer than any viewer, and all
buckets that are newer than some viewer are open.  The vacuum keeps it because it
removes a bucket only when the next one is old enough for all (`RemovesUnneeded`), and
`DepthBounded` shows that nobody is cut off.  `CollectsChanges` then finds every change
with `CoverInv` and `LookupInv`.

`RevertForgetsTheFuture` has an invariant of its own, `LoneInv`, with the same `HeapInv`:
the lemmas about a push, an entry and a removal do not need a pool.  What is different is
that the coordinator may have no index.  `LoneViewer` says that the instance has one only
while the coordinator has one, so after a revert no index is in use and the next
poll starts from an empty heap (`FreshHeapInv`); and that its poll ends with the index
it began with, so it never builds an index of its own.  With two instances that revert the
property fails, as said above; the theorem assumes there is one.

### The in-memory cache

`CoreInv` is inductive and holds in the middle of calls, where the properties about the
index and the lists are needed most:

* `MemoryInv`: an entry is in a generation exactly when the index leads to it, and
  otherwise a thread or the running call holds it (`EntriesPlaced`, `HeldExist`); the list
  of a generation has each of its entries once (`RingsList`); an entry has several values
  exactly when it is of that class.  `IndexMatchesRings` and `SeveralValues` follow;
* `CallInv`: the object of the running call is cached, and stays so: an entry that is
  returned is reached through it;
* `SpillInv`: the entry that a spill must ignore is that of the running call, and the most
  recently used one of the list that entries leave.  So the loops, which take the least
  recently used one, meet it only when it is alone, and never evict it;
* `LoadInv`: the rows that are still to be loaded are of objects that are not cached,
  which is why `LoadRow` never replaces an entry.

The changes of memory are few (a new entry, a replacement, a removal, a move to another
list, a reference taken or dropped), and each has one lemma about any heap, index and
lists (`DropMemory`, `TouchMemory`, ...); the lemma of an action says which of them it makes.
`HeldValuesStay` is an action property that comes from the same lemmas (`Stay`).

The weights need sums over sets, and induction over data is out of reach.  `SumCounts`
shows that a sum is the number of elements of a set, with every member paired with so
many numbers as its value says (`Counted`); a least counterexample (`LeastSubset`) stands
in for induction, and the theorems about cardinality do the rest.  `AccountInv`: as long as no entry has had several values, every sum is the weight of
the list.  A `size_t` does not wrap meanwhile (`WeightBound`), from the assumption
`AddressSpace`: a `size_t` can count the bytes of one state of every object.  `ProtectedInv`
adds where a call is when the protected generation is too large: in a spill that is
about to make room.

Of the constants, `ConstantsAssumption` also says that a file has one row for an object
(its primary key) and that there are as many addresses for an object as entries of it can
exist: the cached one, one that replaces it, and one per thread that holds it.

`CacheImplementsValueCache` maps each step to a step of `ValueCache` or to a stutter, with
one lemma per action (`...Allowed`).  That the spills change nothing but by evicting other
objects comes from `SpillInv`.

### The cache file

`RowsMoveForward` and `CheckpointMovesForward` follow from the steps and the types.
For `ReadsCurrent`, `CacheInv` says that after the poll of what was restored an object
of the index has the tid of the snapshot, and every frozen value of another object is
the snapshot's or from its future (`SnapshotInv`); before, that nothing is read
(`ProcessInv`); and that the checkpoint is not later than the database.

### Pack

`Mark` is a recursive function on sets.  `MarkReaches` and `MarkIsLeast` show, by a
least counterexample in place of induction, that it computes the least set that has
the roots and is closed under references, for any finite graph.  The invariant then
follows the packer: `FilledInv` (until the snapshot is taken, `OldStaysReferenced` holds
and no object that stays refers to garbage), `ExamineInv` (what is in `pack_object` and
still reached was reached in the snapshot through objects of `pack_object`, and the
references analysed so far are those of the snapshot), `MarkInv`, and `PrePackInv` (what
a complete pre-pack dooms is not reached, and all the garbage is doomed), beside
`TablesInv`: a tid names one state of an object in whichever table it is found, which
is what lets references be reused.

### Store connections

`ThreadInv` says, for every place a thread can be, whether it has a connection and
whether its transaction may still have rows in it; a transaction whose abort failed
holds only what is abandoned.  `CountInv`: until the pool is closed `count` is the number
of open instances, and the pool keeps what that allows.  The properties and these two
are inductive together.

### Oids

Uniqueness alone does not say where the next range is: `OidInv` adds `BelowSequence`,
that every oid given or preallocated, and every minimum, is at most the end of the
range of the sequence's value.  `FreshRange` gets from it that the next range is new for
everybody.  On PostgreSQL `OidAllocator_setval.cfg` refutes `UniqueOids`.

### Only model-checked

`WritersGetTheirLocks`, `CallsEnd` and `RestoreEnds` are liveness under fairness, which
the prover does not do.  Every other property of a passing run has a theorem.

## Not modelled

Blob files, memcache, history and iteration, copying, replica selection, schema,
drivers and tools keep no state that several actors share, or only text of
statements; see `PROJECT.json`.  MySQL, Oracle and SQLite are not modelled where
they differ from PostgreSQL (MySQL checks `readCurrent()` once and its deadlock
detector rolls back by cost; SQLite has one lock).  Packing a database with history
is not modelled.  The Boost headers under `include/` are third-party containers:
most of the repository's C++ lines, none of its logic; the project's own C++ is
`c_cache.cpp` and `c_cache.h`, all of which `GenerationalCache` covers.

## Plan

1. Two-phase commit and undo, with proofs; the cache; `OidAllocator` with proofs (done).
2. `GenerationalCache` below `ValueCache`, `PersistentCache`, `HistoryFreePack` (done).
3. `StorePool`; proofs about it, about `MvccCache`, `PersistentCache` and
   `HistoryFreePack`, and about undo and lock cycles in `TpcCommit` (done).
4. Proofs about `GenerationalCache`, that it implements `ValueCache`, and about a lone
   instance that reverts in `MvccCache` (done).
5. `restore` and `deleteObject` as transactions of `TpcCommit`; packing with history,
   with the pack lock shared with undo.
6. To derive the assumption of `TpcCommit` on `Owner` from `UniqueOids`, and a start of
   `MvccCache` from what `PersistentCache` restored.
