--------------------------- MODULE PersistentCache ---------------------------
(***************************************************************************)
(* The cache file that the processes of one machine share: each restores   *)
(* its in-memory cache from the file when it starts, checks what it        *)
(* restored against the database, and saves its cache into the file when   *)
(* it closes.  A process may crash at any step.                            *)
(*                                                                         *)
(* A process has one viewer here; MvccCache has several, in one process.   *)
(* With one viewer every poll leaves one bucket in the object index.  A    *)
(* state is identified with the tid that wrote it.  The objects of Oid are *)
(* not the only ones: others take room in the caches and in the file, and  *)
(* transactions that write only others move the tid forward.               *)
(***************************************************************************)
EXTENDS CachedValues

CONSTANTS
    Process,
    Oid,
    MaxTid,       \* bound: the last transaction id
    Saved,        \* a process has already saved its cache into the file
    Replica,      \* load connections may be on an asynchronous replica
    PollTimeout,  \* RS_CACHE_POLL_TIMEOUT is set, and a poll may exceed it
    NoProcess

ASSUME PersistentAssumption ==
    /\ MaxTid \in Nat \ {0}
    /\ {Saved, Replica, PollTimeout} \subseteq BOOLEAN
    /\ NoProcess \notin Process

VARIABLES
    history,    \* the tids that wrote an object, in the database
    dbTid,      \* the last committed tid
    rows,       \* the table object_state of the file: an object's tid, or None
    checkpoint, \* max_hvt of the table checkpoints, or None
    lock,       \* the process with the write lock of the file
    pc,
    hvt,        \* of the process's object_index; None is no index
    open,       \* the viewer has polled
    index,      \* the bucket of the object_index
    cache,      \* the cached values of an object
    temp,       \* the table temp_state of the process
    bad,        \* the restored objects to remove from the file
    tries       \* tries left to remove them

database == <<history, dbTid>>
file == <<rows, checkpoint, lock>>
memory == <<hvt, open, index, cache>>
call == <<temp, bad, tries>>
vars == <<database, file, pc, memory, call>>

Tid == 0..MaxTid
InitTid == 1
NoTids == [o \in Oid |-> None]
NoValues == [o \in Oid |-> {}]
RemoveTries == 3

Init ==
    /\ history = [o \in Oid |-> {InitTid}]
    /\ dbTid = InitTid
    /\ rows = [o \in Oid |-> IF Saved THEN InitTid ELSE None]
    /\ checkpoint = IF Saved THEN InitTid ELSE None
    /\ lock = NoProcess
    /\ pc = [p \in Process |-> "down"]
    /\ hvt = [p \in Process |-> None]
    /\ open = [p \in Process |-> FALSE]
    /\ index = [p \in Process |-> NoTids]
    /\ cache = [p \in Process |-> NoValues]
    /\ temp = [p \in Process |-> NoTids]
    /\ bad = [p \in Process |-> {}]
    /\ tries = [p \in Process |-> 0]

Goto(p, l) == pc' = [pc EXCEPT ![p] = l]

\* The last state of an object that a snapshot of the database shows.
TidAt(o, s) == Max({t \in history[o] : t <= s})

\* What there is to read in a table, and what is cached.
Stored(table) == {o \in Oid : table[o] # None}
Cached(p) == {o \in Oid : cache[p][o] # {}}

-----------------------------------------------------------------------------
(* Restoring the cache. *)

\* The file cannot be opened: the process starts without a cache.
CannotOpen(p) ==
    /\ pc[p] = "down"
    /\ Goto(p, "up")
    /\ UNCHANGED <<database, file, memory, call>>

\* read_from_sqlite, without a transaction around its two queries.
ReadCheckpoint(p) ==
    /\ pc[p] = "down"
    /\ hvt' = [hvt EXCEPT ![p] = checkpoint]
    /\ Goto(p, "rows")
    /\ UNCHANGED <<database, file, open, index, cache, call>>

\* The rows that are used most, up to the limit; all are taken for frozen.
\* Without a checkpoint the object_index is not set, and nothing is polled.
ReadRows(p, oids) ==
    /\ pc[p] = "rows"
    /\ oids \subseteq Stored(rows)
    /\ cache' = [cache EXCEPT ![p] = [o \in Oid |->
           IF o \in oids THEN {[tid |-> rows[o], frozen |-> TRUE]} ELSE {}]]
    /\ Goto(p, IF hvt[p] = None THEN "up" ELSE "poll")
    /\ UNCHANGED <<database, file, hvt, open, index, call>>

\* Mutant: rows that the checkpoint covers are trusted.
IncorrectAfterCheckpoint(p, found) ==
    {o \in Cached(p) : /\ \A e \in cache[p][o] : e.tid > hvt[p]
                       /\ MatchingTid(cache[p][o], IF o \in found THEN TidAt(o, dbTid) ELSE None) = {}}

\* The cached objects that contains_oid_with_tid does not confirm with the
\* tid the database found.  It gets None for the others.
Incorrect(p, found) ==
    {o \in Cached(p) :
        MatchingTid(cache[p][o], IF o \in found THEN TidAt(o, dbTid) ELSE None) = {}}

\* __poll_old_oids_and_remove asks the primary database.  If it times out
\* the results so far are used.
PollOldOids(p, found) ==
    /\ pc[p] = "poll"
    /\ found \subseteq Cached(p)
    /\ PollTimeout \/ found = Cached(p)
    /\ LET invalid == Incorrect(p, found) IN
       /\ cache' = [cache EXCEPT ![p] = [o \in Oid |-> IF o \in invalid THEN {} ELSE @[o]]]
       /\ bad' = [bad EXCEPT ![p] = invalid]
       /\ tries' = [tries EXCEPT ![p] = IF invalid = {} THEN 0 ELSE RemoveTries]
       /\ Goto(p, IF invalid = {} THEN "up" ELSE "remove")
    /\ UNCHANGED <<database, file, hvt, open, index, temp>>

Removed(p) ==
    /\ bad' = [bad EXCEPT ![p] = {}]
    /\ Goto(p, "up")

RemoveInvalid(p) ==
    /\ pc[p] = "remove"
    /\ lock = NoProcess
    /\ rows' = [o \in Oid |-> IF o \in bad[p] THEN None ELSE rows[o]]
    /\ tries' = [tries EXCEPT ![p] = 0]
    /\ Removed(p)
    /\ UNCHANGED <<database, checkpoint, lock, memory, temp>>

\* Mutant: a try that fails is repeated.
RetryForever(p) ==
    /\ pc[p] = "remove"
    /\ lock # NoProcess
    /\ UNCHANGED vars

\* Mutant: one try too many.
FailOnceMore(p) ==
    /\ pc[p] = "remove"
    /\ lock # NoProcess
    /\ tries' = [tries EXCEPT ![p] = @ - 1]
    /\ IF tries[p] = 0 THEN Removed(p) ELSE UNCHANGED <<bad, pc>>
    /\ UNCHANGED <<database, file, memory, temp>>

\* The file is locked.  After the last try the rows stay.
FailToRemove(p) ==
    /\ pc[p] = "remove"
    /\ lock # NoProcess
    /\ tries' = [tries EXCEPT ![p] = @ - 1]
    /\ IF tries[p] = 1 THEN Removed(p) ELSE UNCHANGED <<bad, pc>>
    /\ UNCHANGED <<database, file, memory, temp>>

-----------------------------------------------------------------------------
(* The process at work. *)

\* The rows of the poll query: the objects changed after a tid.
ChangesAfter(since, s) == [o \in Oid |-> IF TidAt(o, s) > since THEN TidAt(o, s) ELSE None]

\* The vacuum of a poll: entries of the old bucket with a newer one leave
\* the cache, the others are frozen.
Vacuumed(p, new) ==
    [o \in Oid |-> IF index[p][o] = None THEN cache[p][o]
                   ELSE IF new[o] \notin {None, index[p][o]}
                        THEN DiscardingTidsBefore(cache[p][o], index[p][o])
                        ELSE FreezeToTid(cache[p][o], index[p][o])]

\* The viewer polls, with snapshot s: for the first time without an index,
\* or for what changed after the index.
Poll(p, s) ==
    /\ pc[p] = "up"
    /\ s \in IF Replica THEN InitTid..dbTid ELSE {dbTid}
    /\ s >= hvt[p]
    /\ s > hvt[p] \/ ~ open[p]
    /\ hvt' = [hvt EXCEPT ![p] = s]
    /\ open' = [open EXCEPT ![p] = TRUE]
    /\ IF hvt[p] \in {None, s}
       THEN UNCHANGED <<index, cache>>
       ELSE LET new == ChangesAfter(hvt[p], s) IN
            /\ index' = [index EXCEPT ![p] = new]
            /\ cache' = [cache EXCEPT ![p] = Vacuumed(p, new)]
    /\ UNCHANGED <<database, file, pc, call>>

\* A frozen value from the future of the viewer is no hit.
Hits(p, o) ==
    {t \in MatchingTid(cache[p][o], index[p][o]) : index[p][o] = None => t <= hvt[p]}

\* A load that misses.
Load(p, o) ==
    /\ pc[p] = "up" /\ open[p]
    /\ Hits(p, o) = {}
    /\ index' = [index EXCEPT ![p][o] = TidAt(o, hvt[p])]
    /\ cache' = [cache EXCEPT ![p][o] = AddingValue(@, TidAt(o, hvt[p]))]
    /\ UNCHANGED <<database, file, pc, hvt, open, call>>

Write(oids) ==
    /\ dbTid < MaxTid
    /\ dbTid' = dbTid + 1
    /\ history' = [o \in Oid |-> IF o \in oids THEN history[o] \cup {dbTid + 1} ELSE history[o]]

\* The process commits; the states it wrote enter its cache.
Commit(p, oids) ==
    /\ pc[p] = "up" /\ open[p]
    /\ Write(oids)
    /\ cache' = [cache EXCEPT ![p] = [o \in Oid |->
           IF o \in oids THEN AddingValue(@[o], dbTid + 1) ELSE @[o]]]
    /\ UNCHANGED <<file, pc, hvt, open, index, call>>

\* A process of another machine commits.
ExternalCommit(oids) ==
    /\ Write(oids)
    /\ UNCHANGED <<file, pc, memory, call>>

Evict(p, o) ==
    /\ pc[p] = "up"
    /\ o \in Cached(p)
    /\ cache' = [cache EXCEPT ![p][o] = {}]
    /\ UNCHANGED <<database, file, pc, hvt, open, index, call>>

-----------------------------------------------------------------------------
(* Saving the cache. *)

NewestValue(p, o) == Max(Tids(cache[p][o]))

\* _items_to_write: the newest value of each object, unless the file has
\* one that is as new.
ItemsToWrite(p) ==
    [o \in Oid |-> IF o \in Cached(p) /\ NewestValue(p, o) > rows[o]
                   THEN NewestValue(p, o) ELSE None]

\* The root closes: the first transaction of write_to_sqlite reads the
\* tids in the file and stores into the process's own table.
StoreTemp(p) ==
    /\ pc[p] = "up" /\ open[p] /\ Cached(p) # {}
    /\ temp' = [temp EXCEPT ![p] = ItemsToWrite(p)]
    /\ Goto(p, "stored")
    /\ UNCHANGED <<database, file, memory, bad, tries>>

\* BEGIN IMMEDIATE: stand in line.
BeginImmediate(p) ==
    /\ pc[p] = "stored"
    /\ lock = NoProcess
    /\ lock' = p
    /\ Goto(p, "locked")
    /\ UNCHANGED <<database, rows, checkpoint, memory, call>>

\* Mutant: what is in the file is overwritten.
MoveAllFromTemp(p) == [o \in Oid |-> IF temp[p][o] = None THEN rows[o] ELSE temp[p][o]]

\* A newer row of another process is preserved.
MoveFromTemp(p) == [o \in Oid |-> IF temp[p][o] >= rows[o] THEN temp[p][o] ELSE rows[o]]

\* Mutant: the last to save wins.
ReplaceCheckpoint(p) == hvt[p]

UpdateCheckpoints(p) == IF hvt[p] >= checkpoint THEN hvt[p] ELSE checkpoint

\* The second transaction commits.
CommitSave(p) ==
    /\ pc[p] = "locked"
    /\ rows' = MoveFromTemp(p)
    /\ checkpoint' = UpdateCheckpoints(p)
    /\ lock' = NoProcess
    /\ temp' = [temp EXCEPT ![p] = NoTids]
    /\ Goto(p, "trim")
    /\ UNCHANGED <<database, memory, bad, tries>>

\* The process ends, and its memory and its table with it.
Exit(p) ==
    /\ Goto(p, "down")
    /\ hvt' = [hvt EXCEPT ![p] = None]
    /\ open' = [open EXCEPT ![p] = FALSE]
    /\ index' = [index EXCEPT ![p] = NoTids]
    /\ cache' = [cache EXCEPT ![p] = NoValues]
    /\ temp' = [temp EXCEPT ![p] = NoTids]
    /\ bad' = [bad EXCEPT ![p] = {}]
    /\ tries' = [tries EXCEPT ![p] = 0]

\* trim_to_size: unless the file is small enough, the rows used least leave.
Trim(p) ==
    /\ pc[p] = "trim"
    /\ \/ UNCHANGED rows
       \/ /\ lock = NoProcess
          /\ \E kept \in SUBSET Stored(rows) :
                rows' = [o \in Oid |-> IF o \in kept THEN rows[o] ELSE None]
    /\ Exit(p)
    /\ UNCHANGED <<database, checkpoint, lock>>

\* The process crashes, fails in an exception of sqlite, or closes without
\* saving.  Its transaction and its lock are gone.
Crash(p) ==
    /\ pc[p] # "down"
    /\ lock' = IF lock = p THEN NoProcess ELSE lock
    /\ Exit(p)
    /\ UNCHANGED <<database, rows, checkpoint>>

-----------------------------------------------------------------------------

RestoreStep(p) ==
    \/ \E oids \in SUBSET Oid : ReadRows(p, oids)
    \/ \E found \in SUBSET Oid : PollOldOids(p, found)
    \/ RemoveInvalid(p)
    \/ FailToRemove(p)

WorkStep(p) ==
    \/ \E s \in InitTid..MaxTid : Poll(p, s)
    \/ \E o \in Oid : Load(p, o) \/ Evict(p, o)
    \/ \E oids \in SUBSET Oid : Commit(p, oids)

SaveStep(p) == StoreTemp(p) \/ BeginImmediate(p) \/ CommitSave(p) \/ Trim(p)

Next ==
    \/ \E p \in Process : \/ CannotOpen(p)
                          \/ ReadCheckpoint(p)
                          \/ RestoreStep(p)
                          \/ WorkStep(p)
                          \/ SaveStep(p)
                          \/ Crash(p)
    \/ \E oids \in SUBSET Oid : ExternalCommit(oids)

\* A process that restores goes on: nothing in it waits without a timeout.
Spec == Init /\ [][Next]_vars /\ \A p \in Process : WF_vars(RestoreStep(p))

-----------------------------------------------------------------------------
(* Properties. *)

\* Every variable has the type of the table, attribute or local it models.
TypeOK ==
    /\ history \in [Oid -> SUBSET (1..MaxTid)]
    /\ dbTid \in 1..MaxTid
    /\ rows \in [Oid -> Tid]
    /\ checkpoint \in Tid
    /\ lock \in Process \cup {NoProcess}
    /\ pc \in [Process -> {"down", "rows", "poll", "remove", "up", "stored", "locked", "trim"}]
    /\ hvt \in [Process -> Tid]
    /\ open \in [Process -> BOOLEAN]
    /\ index \in [Process -> [Oid -> Tid]]
    /\ cache \in [Process -> [Oid -> SUBSET [tid : 1..MaxTid, frozen : BOOLEAN]]]
    /\ temp \in [Process -> [Oid -> Tid]]
    /\ bad \in [Process -> SUBSET Oid]
    /\ tries \in [Process -> 0..RemoveTries]

\* What the cache gives a viewer is the object's state in the viewer's
\* snapshot, whichever process wrote it into the file, whenever.
ReadsCurrent ==
    \A p \in Process : pc[p] = "up" /\ open[p] =>
        \A o \in Oid : Hits(p, o) \subseteq {TidAt(o, hvt[p])}

\* No process, however late it saves, replaces a row of the file by an
\* older one.
RowsMoveForward ==
    [][\A o \in Oid : rows'[o] # None => rows'[o] >= rows[o]]_vars

\* The poll of the next process starts no earlier than that of this one,
\* in whatever order the processes save.
CheckpointMovesForward == [][checkpoint' >= checkpoint]_vars

\* A process that restores its cache gets to work, even if others keep on
\* locking the file.
RestoreEnds ==
    \A p \in Process : pc[p] \in {"rows", "poll", "remove"} ~> pc[p] \in {"up", "down"}
=============================================================================
