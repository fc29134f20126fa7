--------------------------- MODULE MvccCache_proofs ---------------------------
(***************************************************************************)
(* Proofs about MvccCache: the heap of buckets keeps its shape and the     *)
(* coordinator's index goes forward, for any deployment; and in a pool of  *)
(* open instances that do not revert, an index has no entry that is not of *)
(* the snapshot, no instance holds what it cannot see yet, and each poll   *)
(* tells of every change, whatever polls, vacuums and loads the threads    *)
(* interleave.  A lone instance that reverts with its replica forgets the  *)
(* index from its future.                                                  *)
(***************************************************************************)
EXTENDS MvccCache, CachedValues_proofs

-----------------------------------------------------------------------------
(* The invariant of the heap. *)

Stages == Waiting \cup {"build", "find", "collect", "move", "detach", "vacuum", "freeze"}
Locked == {"detach", "vacuum", "freeze"}
HasNew == {"find", "collect", "move"} \cup Locked
HasPolled == {"initial", "revert", "install", "build"} \cup HasNew
HasCurrent == {"install", "build", "revert", "find", "collect", "move", "detach", "freeze"}

Bucket == [hvt : Tid, cst : Tid \cup {Incomplete}, open : BOOLEAN, map : [Oid -> Tid]]
Poll == [cur : Slot \cup {None}, since : Tid, polled : Tid, new : Slot \cup {None},
         moved : BOOLEAN, changes : SUBSET Oid]

\* The types that TypeOK leaves out.
HeapType ==
    /\ bucket \in [Slot -> Bucket]
    /\ maps \in [Slot -> Seq(Slot)]
    /\ pc \in [Viewer -> Stages]
    /\ poll \in [Viewer -> Poll]
    /\ loading \in [Viewer -> {<<>>} \cup (Oid \X Tid)]

\* The indexes that a thread may look into.  While a viewer vacuums, cur is
\* a bucket that it removed.
Indexes == ({object_index} \cup {index[v] : v \in Viewer} \cup {poll[v].new : v \in Viewer}
            \cup {poll[v].cur : v \in {w \in Viewer : pc[w] \notin {"vacuum", "freeze"}}}) \ {None}

\* An index begins with its own bucket, and none of its buckets is freed.
HeadInv ==
    /\ \A s \in Slot : maps[s] # <<>> => maps[s][1] = s
    /\ \A i \in Roots \ {None} : maps[i] # <<>>
    /\ \A i \in Indexes : \A k \in 1..Len(maps[i]) : maps[maps[i][k]] # <<>>

\* What the viewers have when they get to a place.
StageInv ==
    \A v \in Viewer :
        /\ pc[v] \in Locked <=> lock = v
        /\ pc[v] \in HasNew => poll[v].new # None
        /\ pc[v] \in HasCurrent => poll[v].cur # None
        /\ pc[v] \notin {"idle", "stale", "query"} => snapshot[v] # 0
        /\ pc[v] = "loading" => loading[v] # <<>> /\ index[v] # None
        /\ pc[v] \in HasPolled => poll[v].polled # 0

HistoryInv == \A o \in Oid : InitTid \in history[o] /\ \A t \in history[o] : t <= dbTid

HInv ==
    /\ TypeOK
    /\ HeapType
    /\ HeadInv
    /\ StageInv
    /\ HistoryInv

-----------------------------------------------------------------------------
(* The invariant of a pool whose instances do not revert. *)

Entry(i, k, o) == bucket[maps[i][k]].map[o]
HvtOf(i, k) == bucket[maps[i][k]].hvt
Open(i, k) == bucket[maps[i][k]].open
At(i) == 1..Len(maps[i])

\* Where a viewer and its poll are.  A load expects what the index had when
\* it began.
ViewerInv(v) ==
    /\ index[v] # None
    /\ pc[v] \notin {"initial", "revert"}
    /\ pc[v] = "query" => poll[v].cur # None
    /\ snapshot[v] <= dbTid
    /\ hvt[v] = Front(index[v]).hvt
    /\ pc[v] \in {"query", "install", "build"} =>
          poll[v].since = Front(poll[v].cur).hvt /\ poll[v].since <= Front(object_index).hvt
    /\ pc[v] \in {"install", "build"} =>
          poll[v].polled = snapshot[v] /\ poll[v].since <= poll[v].polled
    /\ pc[v] \in {"find", "collect", "move"} => Front(poll[v].new).hvt = snapshot[v]
    /\ pc[v] \in {"open", "loading"} \cup Locked => hvt[v] = snapshot[v]
    /\ pc[v] = "loading" => loading[v][2] \in {None, TidAt(loading[v][1], hvt[v])}

\* Nobody flushes the coordinator.
PoolInv ==
    /\ object_index # None
    /\ \A s \in Slot : bucket[s].hvt <= dbTid
    /\ \A v \in Viewer : ViewerInv(v)

\* The newest bucket comes first.
OrderInv ==
    \A i \in Indexes : \A k, l \in At(i) : k < l => HvtOf(i, k) > HvtOf(i, l)

\* An entry is the object's tid at the tid of the bucket.  A bucket that is
\* open and complete for a range has the objects that changed in the range.
EntryInv ==
    \A s \in Slot, o \in Oid :
        /\ bucket[s].map[o] \in {None, TidAt(o, bucket[s].hvt)}
        /\ bucket[s].open /\ bucket[s].cst # Incomplete /\ TidAt(o, bucket[s].hvt) > bucket[s].cst
              => bucket[s].map[o] # None

\* The newest entry of an object in an index is its tid at that of the index.
LookupInv ==
    \A i \in Indexes : \A l \in At(i), o \in Oid :
        Entry(i, l, o) # None /\ (\A k \in At(i) : k < l => Entry(i, k, o) = None)
            => Entry(i, l, o) = TidAt(o, HvtOf(i, 1))

\* An object that open buckets of an index do not have did not change there.
CoverInv ==
    \A i \in Indexes : \A k, l \in At(i), o \in Oid :
        k < l /\ (\A m \in k..(l - 1) : Open(i, m) /\ Entry(i, m, o) = None)
            => TidAt(o, HvtOf(i, k)) = TidAt(o, HvtOf(i, l))

\* Buckets are closed from the oldest on.
ClosedInv ==
    \A i \in Indexes : \A k, l \in At(i) : k < l /\ Open(i, l) => Open(i, k)

\* Of two indexes that share a bucket, one may have lost an older bucket: it
\* is closed, and its entries did not change up to the bucket they share.
SharedInv ==
    \A i, j \in Indexes : \A a \in At(i), b, c \in At(j) :
        maps[i][a] = maps[j][b] /\ b < c /\ (\A k \in At(i) : maps[i][k] # maps[j][c])
            => /\ ~ Open(j, c)
               /\ \A o \in Oid : Entry(j, c, o) \in {None, TidAt(o, HvtOf(j, b))}

HeapInv ==
    /\ OrderInv
    /\ EntryInv
    /\ LookupInv
    /\ CoverInv
    /\ ClosedInv
    /\ SharedInv

IInv ==
    /\ HInv
    /\ HeapInv
    /\ PoolInv

-----------------------------------------------------------------------------
(* Operators. *)

\* Numbers of the model.
LEMMA Numbers ==
    /\ Tid \subseteq Nat /\ 0 \in Tid /\ InitTid \in Tid /\ None = 0 /\ Incomplete \notin Tid
    /\ None \notin Slot /\ Slot \subseteq Nat /\ 1 \in Slot
BY MvccAssumption DEF Tid, InitTid, None, Incomplete, Slot

\* The newest of some tids up to a tid.
LEMMA NewestUpTo ==
    ASSUME NEW H, H \subseteq 1..MaxTid, NEW s \in Nat, NEW N, N = NewestOf({t \in H : t <= s})
    PROVE  /\ N \in Tid /\ N <= s
           /\ N # None => N \in H
           /\ \A t \in H : t <= s => t <= N
<1> DEFINE S == {t \in H : t <= s}
<1>1. MaxTid \in Nat /\ None = 0 /\ \A t \in S : t \in 1..MaxTid /\ t <= s /\ t \in H
  BY MvccAssumption DEF None
<1>2. CASE S = {}
  BY <1>1, <1>2 DEF NewestOf, Tid
<1>3. CASE S # {}
  <2>1. N = Max(S)
    BY <1>3 DEF NewestOf
  <2> HIDE DEF S
  <2>2. S \subseteq Nat /\ \A t \in S : t <= MaxTid
    BY <1>1
  <2>3. N \in S /\ \A t \in S : t <= N
    BY <1>1, <1>3, <2>1, <2>2, MaxOfTids
  <2> QED BY <1>1, <2>3 DEF S, Tid
<1> QED BY <1>2, <1>3

\* The tid of an object at a tid.
LEMMA TidAtNewest ==
    ASSUME TypeOK, NEW o \in Oid, NEW s \in Nat
    PROVE  /\ TidAt(o, s) \in Tid /\ TidAt(o, s) <= s
           /\ TidAt(o, s) # None => TidAt(o, s) \in history[o]
           /\ \A t \in history[o] : t <= s => t <= TidAt(o, s)
<1>1. history[o] \subseteq 1..MaxTid
  BY DEF TypeOK
<1> QED BY <1>1, NewestUpTo DEF TidAt

\* Every object exists since the first tid.
LEMMA TidAtExists ==
    ASSUME TypeOK, HistoryInv, NEW o \in Oid, NEW s \in Nat \ {0}
    PROVE  TidAt(o, s) \in 1..MaxTid
<1>1. TidAt(o, s) \in Tid /\ \A t \in history[o] : t <= s => t <= TidAt(o, s)
  BY TidAtNewest
<1>2. 1 <= TidAt(o, s)
  BY <1>1 DEF HistoryInv, InitTid
<1> QED BY <1>1, <1>2, MvccAssumption DEF Tid

\* The rows of a poll are tids.
LEMMA ChangesType ==
    ASSUME TypeOK, NEW since, NEW s \in Nat
    PROVE  ChangesAfter(since, s) \in [Oid -> Tid]
BY TidAtNewest, Numbers DEF ChangesAfter

\* The indexes in use and their buckets are not garbage.
LEMMA IndexesReachable ==
    ASSUME HInv
    PROVE  /\ Indexes \subseteq Slot
           /\ \A i \in Roots \ {None} : i \in Slot /\ maps[i] # <<>> /\ maps[i][1] = i /\ 1 \in At(i)
           /\ \A i \in Roots \ {None} : i \in Reachable /\ \A k \in At(i) : maps[i][k] \in Reachable
           /\ Indexes \subseteq Roots \ {None}
           /\ Reachable \subseteq Slot
<1>0. TypeOK /\ HeapType /\ HeadInv
  BY DEF HInv
<1>1. Roots \ {None} \subseteq Slot
  BY <1>0 DEF TypeOK, HeapType, Poll, Roots
<1>2. Indexes \subseteq Roots \ {None}
  BY DEF Indexes, Roots
<1>3. \A i \in Roots \ {None} : maps[i] \in Seq(Slot) /\ maps[i] # <<>> /\ maps[i][1] = i
  BY <1>0, <1>1 DEF HeapType, HeadInv
<1>4. \A i \in Roots \ {None} : 1 \in At(i) /\ \A k \in At(i) : maps[i][k] \in Slot
  BY <1>3 DEF At
<1>5. \A i \in Roots \ {None} : \A k \in At(i) : maps[i][k] \in Reachable
  BY DEF Reachable, At, Depth
<1>6. Reachable \subseteq Slot
  BY <1>4 DEF Reachable, At, Depth
<1> QED BY <1>1, <1>2, <1>3, <1>4, <1>5, <1>6

\* A new bucket goes where nobody looks, and leaves the others alone.
LEMMA Pushed ==
    ASSUME HInv, NEW s, NEW i \in Indexes \cup {None}, NEW h \in Tid,
           NEW cst \in Tid \cup {Incomplete}, NEW changes \in [Oid -> Tid],
           PushBucket(s, i, h, cst, changes)
    PROVE  /\ s \in Slot /\ s \notin Reachable
           /\ bucket' \in [Slot -> Bucket] /\ maps' \in [Slot -> Seq(Slot)]
           /\ bucket'[s] = NewBucket(h, cst, changes)
           /\ maps'[s] = <<s>> \o (IF i = None THEN <<>> ELSE maps[i])
           /\ \A r \in Reachable : bucket'[r] = bucket[r] /\ maps'[r] = maps[r]
           /\ \A r \in Slot : r # s /\ r \notin Reachable => bucket'[r] = Free
           /\ \A r \in Slot : maps'[r] # <<>> => maps'[r][1] = r
           /\ \A k \in 1..Len(maps'[s]) : maps'[maps'[s][k]] # <<>>
<1>0. TypeOK /\ HeapType /\ HeadInv
  BY DEF HInv
<1>1. s \in Slot /\ s \notin Reachable /\ Reachable \subseteq Slot
  BY IndexesReachable DEF PushBucket
<1>2. NewBucket(h, cst, changes) \in Bucket /\ Free \in Bucket
  BY Numbers DEF NewBucket, Free, Bucket, EmptyMap
<1>3. bucket' \in [Slot -> Bucket]
  BY <1>0, <1>1, <1>2 DEF PushBucket, HeapType
<1> DEFINE tail == IF i = None THEN <<>> ELSE maps[i]
           list == <<s>> \o tail
<1>4. /\ tail \in Seq(Slot)
      /\ \A k \in 1..Len(tail) : tail[k] \in Reachable /\ maps[tail[k]] # <<>>
  <2>1. CASE i = None
    BY <2>1
  <2>2. CASE i # None
    <3>1. i \in Indexes
      BY <2>2
    <3>2. i \in Slot /\ \A k \in At(i) : maps[i][k] \in Reachable
      BY <3>1, IndexesReachable
    <3> QED BY <1>0, <2>2, <3>1, <3>2 DEF HeapType, HeadInv, At
  <2> QED BY <2>1, <2>2
<1> HIDE DEF tail
<1>5. /\ list \in Seq(Slot) /\ list # <<>> /\ list[1] = s /\ Len(list) = Len(tail) + 1
      /\ \A k \in 1..Len(list) : k # 1 => k - 1 \in 1..Len(tail) /\ list[k] = tail[k - 1]
  BY <1>1, <1>4
<1> HIDE DEF list
<1>6. maps' = [r \in Slot |-> IF r = s THEN list ELSE IF r \in Reachable THEN maps[r] ELSE <<>>]
  BY DEF PushBucket, list, tail
<1>7. maps' \in [Slot -> Seq(Slot)]
  BY <1>0, <1>1, <1>5, <1>6 DEF HeapType
<1>8. /\ bucket'[s] = NewBucket(h, cst, changes)
      /\ \A r \in Reachable : bucket'[r] = bucket[r] /\ maps'[r] = maps[r]
      /\ \A r \in Slot : r # s /\ r \notin Reachable => bucket'[r] = Free
  BY <1>1, <1>6 DEF PushBucket
<1>9. \A r \in Slot : maps'[r] # <<>> => maps'[r][1] = r
  BY <1>0, <1>5, <1>6 DEF HeadInv
<1>10. \A k \in 1..Len(list) : maps'[list[k]] # <<>>
  <2> SUFFICES ASSUME NEW k \in 1..Len(list) PROVE maps'[list[k]] # <<>>
    OBVIOUS
  <2>1. CASE k = 1
    BY <1>1, <1>5, <1>6, <2>1
  <2>2. CASE k # 1
    <3>1. k - 1 \in 1..Len(tail) /\ list[k] = tail[k - 1]
      BY <1>5, <2>2
    <3>2. tail[k - 1] \in Reachable /\ maps[tail[k - 1]] # <<>>
      BY <1>4, <3>1
    <3> QED BY <1>8, <3>1, <3>2
  <2> QED BY <2>1, <2>2
<1>11. maps'[s] = list
  BY <1>1, <1>6
<1> QED BY <1>1, <1>3, <1>7, <1>8, <1>9, <1>10, <1>11 DEF list, tail

\* What the viewers and the coordinator hold.
LEMMA InUse ==
    /\ object_index \in Indexes \cup {None}
    /\ \A w \in Viewer : /\ index[w] \in Indexes \cup {None}
                         /\ poll[w].new \in Indexes \cup {None}
                         /\ poll[w].cur \in Roots
                         /\ pc[w] \notin {"vacuum", "freeze"} => poll[w].cur \in Indexes \cup {None}
BY DEF Indexes, Roots

\* What they can hold after a step.
LEMMA InUseNext ==
    ASSUME NEW S, object_index' \in Indexes \cup S \cup {None},
           \A w \in Viewer :
              /\ index'[w] \in Indexes \cup S \cup {None}
              /\ poll'[w].new \in Indexes \cup S \cup {None}
              /\ poll'[w].cur \in Roots \cup S \cup {None}
              /\ pc'[w] \notin {"vacuum", "freeze"} => poll'[w].cur \in Indexes \cup S \cup {None}
    PROVE  Roots' \subseteq Roots \cup S \cup {None} /\ Indexes' \subseteq Indexes \cup S
<1>1. Indexes \subseteq Roots
  BY DEF Indexes, Roots
<1>2. Roots' \subseteq Roots \cup S \cup {None}
  BY <1>1 DEF Roots
<1>3. Indexes' \subseteq Indexes \cup S
  BY DEF Indexes
<1> QED BY <1>2, <1>3

\* A step that gets its indexes from those in use keeps the heap's shape.
LEMMA SameHeads ==
    ASSUME HInv, maps' = maps, Roots' \subseteq Roots \cup {None}, Indexes' \subseteq Indexes
    PROVE  HeadInv'
BY DEF HInv, HeadInv

\* So does a step that pushes a bucket.
LEMMA PushedHeads ==
    ASSUME HInv, NEW s, NEW i \in Indexes \cup {None}, NEW h \in Tid,
           NEW cst \in Tid \cup {Incomplete}, NEW changes \in [Oid -> Tid],
           PushBucket(s, i, h, cst, changes),
           Roots' \subseteq Roots \cup {None, s}, Indexes' \subseteq Indexes \cup {s}
    PROVE  HeadInv'
<1>0. HeadInv
  BY DEF HInv
<1>1. /\ s \in Slot /\ maps' \in [Slot -> Seq(Slot)]
      /\ \A r \in Reachable : maps'[r] = maps[r]
      /\ \A r \in Slot : maps'[r] # <<>> => maps'[r][1] = r
      /\ \A k \in 1..Len(maps'[s]) : maps'[maps'[s][k]] # <<>>
      /\ maps'[s] = <<s>> \o (IF i = None THEN <<>> ELSE maps[i])
  BY Pushed
<1>2. /\ \A j \in Roots \ {None} : j \in Reachable /\ maps[j] # <<>>
      /\ \A j \in Indexes : j \in Reachable /\ \A k \in 1..Len(maps[j]) : maps[j][k] \in Reachable
  BY IndexesReachable DEF At
<1>3. maps'[s] # <<>>
  <2>1. (IF i = None THEN <<>> ELSE maps[i]) \in Seq(Slot)
    BY IndexesReachable DEF HInv, HeapType
  <2> QED BY <1>1, <2>1
<1>4. \A j \in Roots' \ {None} : maps'[j] # <<>>
  BY <1>1, <1>2, <1>3
<1>5. ASSUME NEW j \in Indexes', NEW k \in 1..Len(maps'[j]) PROVE maps'[maps'[j][k]] # <<>>
  <2>1. CASE j = s
    BY <1>1, <1>5, <2>1
  <2>2. CASE j # s
    <3>1. j \in Indexes /\ maps'[j] = maps[j] /\ maps[j][k] \in Reachable
      BY <1>1, <1>2, <1>5, <2>2
    <3>2. maps[maps[j][k]] # <<>>
      BY <1>0, <1>5, <3>1 DEF HeadInv
    <3> QED BY <1>1, <3>1, <3>2
  <2> QED BY <2>1, <2>2
<1> QED BY <1>1, <1>4, <1>5 DEF HeadInv

-----------------------------------------------------------------------------
(* Each step keeps the invariant of the heap. *)

\* A poll begins with the installed index.
LEMMA PollStartHeap ==
    ASSUME HInv, NEW v \in Viewer, PollStart(v)
    PROVE  HInv'
<1>0. TypeOK /\ HeapType /\ HeadInv /\ StageInv /\ HistoryInv
  BY DEF HInv
<1>1. /\ pc[v] \in {"idle", "open", "stale"} /\ LockFree
      /\ pc' = [pc EXCEPT ![v] = "query"]
      /\ UNCHANGED <<history, dbTid, object_index, bucket, maps, cache, toDelete, lock, hvt, detached,
                     index, snapshot, loading, zodb, committed, deployment>>
  BY DEF PollStart, Goto, database, heap, viewer
<1> DEFINE p == [NoPoll EXCEPT !.cur = object_index,
                     !.since = IF object_index = None THEN 0 ELSE Front(object_index).hvt]
<1>2. p \in Poll /\ p.cur = object_index /\ p.new = None /\ poll' = [poll EXCEPT ![v] = p]
  <2>1. object_index # None => Front(object_index).hvt \in Tid
    BY <1>0 DEF TypeOK, Front
  <2> QED BY <1>0, <2>1, Numbers DEF PollStart, NoPoll, Poll, TypeOK
<1> HIDE DEF p
<1>3. HeapType'
  BY <1>0, <1>1, <1>2 DEF HeapType, Stages, Waiting
<1>4. TypeOK'
  BY <1>0, <1>1 DEF TypeOK
<1>5. Roots' \subseteq Roots \cup {None} /\ Indexes' \subseteq Indexes
  BY <1>0, <1>1, <1>2 DEF Roots, Indexes, HeapType
<1>6. StageInv'
  BY <1>0, <1>1, <1>2 DEF StageInv, HeapType, Locked, HasNew, HasPolled, HasCurrent, Waiting
<1>7. HeadInv' /\ HistoryInv'
  BY <1>0, <1>1, <1>5, SameHeads DEF HistoryInv
<1> QED BY <1>3, <1>4, <1>6, <1>7 DEF HInv

\* The query fixes the snapshot.
LEMMA QueryHeap ==
    ASSUME HInv, NEW v \in Viewer, NEW s \in InitTid..MaxTid, Query(v, s)
    PROVE  HInv'
<1>0. TypeOK /\ HeapType /\ HeadInv /\ StageInv /\ HistoryInv
  BY DEF HInv
<1>1. /\ pc[v] = "query" /\ snapshot' = [snapshot EXCEPT ![v] = s]
      /\ zodb' \in {zodb, [zodb EXCEPT ![v] = EmptyMap]}
      /\ UNCHANGED <<history, dbTid, object_index, bucket, maps, cache, toDelete, lock, hvt, detached,
                     index, loading, committed, deployment>>
  BY DEF Query, InvalidateAll, database, heap, viewer
<1>2. \E p \in {"initial", "install", "revert", "stale"} :
         pc' = [pc EXCEPT ![v] = p] /\ (p \in {"install", "revert"} => poll[v].cur # None)
  BY DEF Query, Goto
<1>3. PICK t \in Tid \ {0} : poll' = [poll EXCEPT ![v].polled = t]
  <2>1. s \in Tid \ {0} /\ poll[v].since \in Tid
    BY <1>0, MvccAssumption DEF InitTid, Tid, HeapType, Poll
  <2>2. s > poll[v].since \/ poll[v].since # 0
    BY <2>1, Numbers
  <2> QED BY <2>1, <2>2 DEF Query
<1>4. /\ poll' \in [Viewer -> Poll] /\ poll'[v].polled = t
      /\ \A w \in Viewer : poll'[w].cur = poll[w].cur /\ poll'[w].new = poll[w].new
  BY SMTT(30), <1>0, <1>3 DEF HeapType, Poll
<1>5. HeapType'
  BY ZenonT(30), <1>0, <1>1, <1>2, <1>4 DEF HeapType, Stages, Waiting
<1>6. TypeOK'
  <2>1. s \in Tid /\ EmptyMap \in [Oid -> Tid]
    BY MvccAssumption, Numbers DEF InitTid, Tid, EmptyMap
  <2> QED BY <1>0, <1>1, <2>1 DEF TypeOK
<1>7. Roots' \subseteq Roots \cup {None} /\ Indexes' \subseteq Indexes
  <2>1. \A w \in Viewer : pc[w] \in {"vacuum", "freeze"} => pc'[w] = pc[w]
    BY <1>0, <1>1, <1>2 DEF HeapType
  <2> QED BY <1>1, <1>4, <2>1, InUse, InUseNext
<1>8. StageInv'
  <2>1. s # 0
    BY DEF InitTid
  <2>2. \A w \in Viewer : w # v => poll'[w] = poll[w] /\ snapshot'[w] = snapshot[w]
    BY <1>0, <1>1, <1>3 DEF HeapType, TypeOK
  <2>3. snapshot'[v] = s
    BY <1>0, <1>1 DEF TypeOK
  <2> QED BY <1>0, <1>1, <1>2, <1>4, <2>1, <2>2, <2>3
        DEF StageInv, HeapType, Locked, HasNew, HasPolled, HasCurrent, Waiting
<1>9. HeadInv' /\ HistoryInv'
  BY <1>0, <1>1, <1>7, SameHeads DEF HistoryInv
<1> QED BY <1>5, <1>6, <1>8, <1>9 DEF HInv

\* The first poll, or one after a flush.
LEMMA InitialPollHeap ==
    ASSUME HInv, NEW v \in Viewer, InitialPoll(v)
    PROVE  HInv'
<1>0. TypeOK /\ HeapType /\ HeadInv /\ StageInv /\ HistoryInv
  BY DEF HInv
<1>1. /\ pc[v] = "initial" /\ pc' = [pc EXCEPT ![v] = "open"]
      /\ poll' = [poll EXCEPT ![v] = NoPoll] /\ zodb' = [zodb EXCEPT ![v] = EmptyMap]
      /\ UNCHANGED <<history, dbTid, cache, toDelete, lock, snapshot, loading, committed, deployment>>
  BY DEF InitialPoll, Goto, InvalidateAll, database
<1>2. NoPoll \in Poll /\ NoPoll.cur = None /\ NoPoll.new = None /\ EmptyMap \in [Oid -> Tid]
  BY Numbers DEF NoPoll, Poll, EmptyMap
<1>3. /\ poll[v].polled \in Tid
      /\ object_index \in Slot => Front(object_index).hvt \in Tid
  BY <1>0 DEF HeapType, Poll, TypeOK, Front
<1>4. /\ pc' \in [Viewer -> Stages] /\ poll' \in [Viewer -> Poll]
      /\ \A w \in Viewer : w # v => pc'[w] = pc[w] /\ poll'[w] = poll[w]
      /\ pc'[v] = "open" /\ poll'[v] = NoPoll
  BY <1>0, <1>1, <1>2 DEF HeapType, Stages, Waiting
<1>5. StageInv' /\ HistoryInv'
  <2>1. \E i : index' = [index EXCEPT ![v] = i]
    BY DEF InitialPoll, SetViewerState
  <2>2. \A w \in Viewer : w # v => index'[w] = index[w]
    BY <1>0, <2>1 DEF TypeOK
  <2> QED BY <1>0, <1>1, <1>4, <2>2 DEF StageInv, HistoryInv, Locked, HasNew, HasPolled, HasCurrent, Waiting
<1>6. ASSUME NEW s \in Slot,
             PushBucket(s, None, poll[v].polled, Incomplete, EmptyMap), object_index' = s,
             index' = [index EXCEPT ![v] = s], hvt' = [hvt EXCEPT ![v] = poll[v].polled],
             detached' = [detached EXCEPT ![v] = FALSE]
      PROVE  HInv'
  <2>1. bucket' \in [Slot -> Bucket] /\ maps' \in [Slot -> Seq(Slot)]
    BY <1>2, <1>3, <1>6, Pushed
  <2>2. HeapType'
    BY <1>0, <1>1, <1>4, <2>1 DEF HeapType
  <2>3. TypeOK'
    BY <1>0, <1>1, <1>2, <1>3, <1>6, <2>1 DEF TypeOK, Bucket
  <2>4. Roots' \subseteq Roots \cup {s} \cup {None} /\ Indexes' \subseteq Indexes \cup {s}
    <3>1. \A w \in Viewer : index'[w] \in {index[w], s}
      BY <1>0, <1>6 DEF TypeOK
    <3>2. /\ object_index' \in Indexes \cup {s} \cup {None}
          /\ \A w \in Viewer :
                /\ index'[w] \in Indexes \cup {s} \cup {None}
                /\ poll'[w].new \in Indexes \cup {s} \cup {None}
                /\ poll'[w].cur \in Roots \cup {s} \cup {None}
                /\ pc'[w] \notin {"vacuum", "freeze"} => poll'[w].cur \in Indexes \cup {s} \cup {None}
      BY <1>2, <1>4, <1>6, <3>1, InUse
    <3> QED BY <3>2, InUseNext
  <2>5. HeadInv'
    BY <1>2, <1>3, <1>6, <2>4, PushedHeads
  <2> QED BY <1>5, <2>2, <2>3, <2>5 DEF HInv
<1>7. ASSUME object_index # None, SetViewerState(v, object_index),
             UNCHANGED <<object_index, bucket, maps>>
      PROVE  HInv'
  <2>1. HeapType'
    BY <1>0, <1>1, <1>4, <1>7 DEF HeapType
  <2>2. object_index \in Slot
    BY <1>0, <1>7 DEF TypeOK
  <2>3. TypeOK'
    BY <1>0, <1>1, <1>2, <1>3, <1>7, <2>2 DEF TypeOK, SetViewerState
  <2>4. Roots' \subseteq Roots \cup {None} /\ Indexes' \subseteq Indexes
    <3>1. \A w \in Viewer : index'[w] \in {index[w], object_index}
      BY <1>0, <1>7 DEF TypeOK, SetViewerState
    <3> QED BY <1>2, <1>4, <1>7, <3>1, InUse, InUseNext
  <2>5. HeadInv'
    BY <1>7, <2>4, SameHeads
  <2> QED BY <1>5, <2>1, <2>3, <2>5 DEF HInv
<1> QED BY <1>6, <1>7 DEF InitialPoll, heap

\* flush_all leaves buckets to the garbage collection.
LEMMA RevertHeap ==
    ASSUME HInv, NEW v \in Viewer, Revert(v)
    PROVE  HInv'
<1>0. TypeOK /\ HeapType /\ HeadInv /\ StageInv /\ HistoryInv
  BY DEF HInv
<1>1. /\ pc[v] = "revert" /\ pc' = [pc EXCEPT ![v] = "open"] /\ object_index' = None
      /\ poll' = [poll EXCEPT ![v] = NoPoll] /\ zodb' = [zodb EXCEPT ![v] = EmptyMap]
      /\ index' = [index EXCEPT ![v] = None] /\ hvt' = [hvt EXCEPT ![v] = None]
      /\ detached' = [w \in Viewer |-> w # v]
      /\ UNCHANGED <<history, dbTid, bucket, maps, cache, toDelete, lock, snapshot, loading, committed,
                     deployment>>
  BY DEF Revert, FlushAll, Goto, InvalidateAll, database, heap
<1>2. NoPoll \in Poll /\ NoPoll.cur = None /\ NoPoll.new = None /\ EmptyMap \in [Oid -> Tid]
  BY Numbers DEF NoPoll, Poll, EmptyMap
<1>3. /\ pc' \in [Viewer -> Stages] /\ poll' \in [Viewer -> Poll]
      /\ \A w \in Viewer : w # v => pc'[w] = pc[w] /\ poll'[w] = poll[w] /\ index'[w] = index[w]
      /\ pc'[v] = "open" /\ poll'[v] = NoPoll /\ index'[v] = None
  BY <1>0, <1>1, <1>2 DEF HeapType, TypeOK, Stages, Waiting
<1>4. StageInv' /\ HistoryInv'
  BY <1>0, <1>1, <1>3 DEF StageInv, HistoryInv, Locked, HasNew, HasPolled, HasCurrent, Waiting
<1>5. HeapType'
  BY <1>0, <1>1, <1>3 DEF HeapType
<1>6. TypeOK'
  <2>1. None \in Tid /\ detached' \in [Viewer -> BOOLEAN]
    BY <1>1, Numbers
  <2> QED BY <1>0, <1>1, <1>2, <2>1 DEF TypeOK
<1>7. Roots' \subseteq Roots \cup {None} /\ Indexes' \subseteq Indexes
  BY <1>1, <1>2, <1>3, InUse, InUseNext
<1>8. HeadInv'
  BY <1>1, <1>7, SameHeads
<1> QED BY <1>4, <1>5, <1>6, <1>8 DEF HInv

\* A poll that finds the coordinator flushed.
LEMMA LosePollHeap ==
    ASSUME HInv, NEW v \in Viewer, LosePoll(v), pc[v] \in {"install", "move"},
           UNCHANGED <<database, cache, toDelete, lock, snapshot, loading, committed, deployment>>
    PROVE  HInv'
<1>0. TypeOK /\ HeapType /\ HeadInv /\ StageInv /\ HistoryInv
  BY DEF HInv
<1>1. /\ pc' = [pc EXCEPT ![v] = "open"]
      /\ poll' = [poll EXCEPT ![v] = NoPoll] /\ zodb' = [zodb EXCEPT ![v] = EmptyMap]
      /\ index' = [index EXCEPT ![v] = None] /\ hvt' = [hvt EXCEPT ![v] = None]
      /\ detached' = [detached EXCEPT ![v] = FALSE]
      /\ UNCHANGED <<history, dbTid, object_index, bucket, maps>>
  BY DEF LosePoll, SetViewerState, Goto, InvalidateAll, database, heap
<1>2. NoPoll \in Poll /\ NoPoll.cur = None /\ NoPoll.new = None /\ EmptyMap \in [Oid -> Tid]
  BY Numbers DEF NoPoll, Poll, EmptyMap
<1>3. /\ pc' \in [Viewer -> Stages] /\ poll' \in [Viewer -> Poll]
      /\ \A w \in Viewer : w # v => pc'[w] = pc[w] /\ poll'[w] = poll[w] /\ index'[w] = index[w]
      /\ pc'[v] = "open" /\ poll'[v] = NoPoll /\ index'[v] = None
  BY <1>0, <1>1, <1>2 DEF HeapType, TypeOK, Stages, Waiting
<1>4. StageInv' /\ HistoryInv'
  BY <1>0, <1>1, <1>3 DEF StageInv, HistoryInv, Locked, HasNew, HasPolled, HasCurrent, Waiting
<1>5. HeapType'
  BY <1>0, <1>1, <1>3 DEF HeapType
<1>6. TypeOK'
  BY <1>0, <1>1, <1>2, Numbers DEF TypeOK
<1>7. Roots' \subseteq Roots \cup {None} /\ Indexes' \subseteq Indexes
  BY <1>1, <1>2, <1>3, InUse, InUseNext
<1>8. HeadInv'
  BY <1>1, <1>7, SameHeads
<1> QED BY <1>4, <1>5, <1>6, <1>8 DEF HInv

\* A viewer sets some locals of its poll, but not where it began.
PollNext(v, new) ==
    /\ poll' \in [Viewer -> Poll]
    /\ \A w \in Viewer : w # v => poll'[w] = poll[w]
    /\ poll'[v].new = new
    /\ poll'[v].cur = poll[v].cur /\ poll'[v].since = poll[v].since
    /\ poll'[v].polled = poll[v].polled

\* It gets an index,
LEMMA PollNew ==
    ASSUME HeapType, NEW v \in Viewer, NEW n \in Slot \cup {None},
           \/ poll' = [poll EXCEPT ![v].new = n]
           \/ poll' = [poll EXCEPT ![v].new = n, ![v].moved = TRUE]
    PROVE  PollNext(v, n)
<1>1. poll \in [Viewer -> Poll]
  BY DEF HeapType
<1>2. CASE poll' = [poll EXCEPT ![v].new = n]
  BY <1>1, <1>2 DEF PollNext, Poll
<1>3. CASE poll' = [poll EXCEPT ![v].new = n, ![v].moved = TRUE]
  BY ZenonT(30), <1>1, <1>3 DEF PollNext, Poll
<1> QED BY <1>2, <1>3

\* and the objects that changed.
LEMMA PollChanges ==
    ASSUME HeapType, NEW v \in Viewer, NEW changes \in SUBSET Oid,
           poll' = [poll EXCEPT ![v].changes = changes]
    PROVE  PollNext(v, poll[v].new) /\ poll'[v].changes = changes
BY DEF HeapType, PollNext, Poll

\* A poll pushes a bucket, and goes on with the index it made.
LEMMA PushHeap ==
    ASSUME HInv, NEW v \in Viewer, pc[v] \in {"install", "build"}, NEW s \in Slot,
           NEW i \in Indexes,
           PushBucket(s, i, poll[v].polled, poll[v].since, ChangesAfter(poll[v].since, snapshot[v])),
           object_index' \in {object_index, s}, PollNext(v, s),
           pc' = [pc EXCEPT ![v] = "find"],
           UNCHANGED <<database, cache, toDelete, lock, viewer, snapshot, loading, zodb, committed,
                       deployment>>
    PROVE  HInv'
<1>0. TypeOK /\ HeapType /\ HeadInv /\ StageInv /\ HistoryInv
  BY DEF HInv
<1>1. UNCHANGED <<history, dbTid, cache, toDelete, lock, hvt, detached, index, snapshot, loading, zodb,
                  committed, deployment>>
  BY DEF database, viewer
<1>2. poll[v].polled \in Tid /\ poll[v].since \in Tid /\ snapshot[v] \in Nat
  BY <1>0, Numbers DEF HeapType, Poll, TypeOK
<1>3. ChangesAfter(poll[v].since, snapshot[v]) \in [Oid -> Tid]
  BY <1>0, <1>2, ChangesType
<1>4. bucket' \in [Slot -> Bucket] /\ maps' \in [Slot -> Seq(Slot)]
  BY <1>2, <1>3, Pushed
<1>5. /\ poll'[v].new = s /\ poll'[v].cur = poll[v].cur /\ poll'[v].polled = poll[v].polled
      /\ \A w \in Viewer : w # v => poll'[w] = poll[w]
      /\ poll' \in [Viewer -> Poll]
  BY DEF PollNext
<1>6. /\ pc' \in [Viewer -> Stages] /\ pc'[v] = "find"
      /\ \A w \in Viewer : w # v => pc'[w] = pc[w]
  BY <1>0 DEF HeapType, Stages
<1>7. HeapType'
  BY <1>0, <1>1, <1>4, <1>5, <1>6 DEF HeapType
<1>8. TypeOK'
  BY <1>0, <1>1, <1>4 DEF TypeOK, Bucket
<1>9. StageInv' /\ HistoryInv'
  BY <1>0, <1>1, <1>5, <1>6, Numbers DEF StageInv, HistoryInv, Locked, HasNew, HasPolled, HasCurrent
<1>10. Roots' \subseteq Roots \cup {s} \cup {None} /\ Indexes' \subseteq Indexes \cup {s}
  <2>1. /\ object_index' \in Indexes \cup {s} \cup {None}
        /\ \A w \in Viewer :
              /\ index'[w] \in Indexes \cup {s} \cup {None}
              /\ poll'[w].new \in Indexes \cup {s} \cup {None}
              /\ poll'[w].cur \in Roots \cup {s} \cup {None}
              /\ pc'[w] \notin {"vacuum", "freeze"} => poll'[w].cur \in Indexes \cup {s} \cup {None}
    BY <1>1, <1>5, <1>6, InUse
  <2> QED BY <2>1, InUseNext
<1>11. HeadInv'
  BY <1>2, <1>3, <1>10, PushedHeads
<1> QED BY <1>7, <1>8, <1>9, <1>11 DEF HInv

\* Steps of a poll that only look at the heap.
LEMMA LookHeap ==
    ASSUME HInv, NEW v \in Viewer, NEW new \in Indexes \cup {None}, PollNext(v, new),
           NEW p \in {"build", "find", "collect", "move"},
           pc[v] \in {"install", "build", "find", "collect"},
           p # "build" => new # None, pc' = [pc EXCEPT ![v] = p],
           UNCHANGED <<database, object_index, heap, cache, toDelete, lock, viewer, snapshot, loading,
                       zodb, committed, deployment>>
    PROVE  HInv'
<1>0. TypeOK /\ HeapType /\ HeadInv /\ StageInv /\ HistoryInv
  BY DEF HInv
<1>1. UNCHANGED <<history, dbTid, object_index, bucket, maps, cache, toDelete, lock, hvt, detached,
                  index, snapshot, loading, zodb, committed, deployment>>
  BY DEF database, viewer, heap
<1>2. /\ poll'[v].new = new /\ poll'[v].cur = poll[v].cur /\ poll'[v].polled = poll[v].polled
      /\ \A w \in Viewer : w # v => poll'[w] = poll[w]
      /\ poll' \in [Viewer -> Poll]
  BY DEF PollNext
<1>3. /\ pc' \in [Viewer -> Stages] /\ pc'[v] = p
      /\ \A w \in Viewer : w # v => pc'[w] = pc[w]
  BY <1>0 DEF HeapType, Stages
<1>4. HeapType'
  BY <1>0, <1>1, <1>2, <1>3 DEF HeapType
<1>5. TypeOK'
  BY <1>0, <1>1 DEF TypeOK
<1>6. StageInv' /\ HistoryInv'
  BY <1>0, <1>1, <1>2, <1>3 DEF StageInv, HistoryInv, Locked, HasNew, HasPolled, HasCurrent
<1>7. Roots' \subseteq Roots \cup {None} /\ Indexes' \subseteq Indexes
  BY SMTT(30), <1>1, <1>2, <1>3, InUse, InUseNext
<1>8. HeadInv'
  BY <1>1, <1>7, SameHeads
<1> QED BY <1>4, <1>5, <1>6, <1>8 DEF HInv

\* The first locked section of a poll.
LEMMA InstallHeap ==
    ASSUME HInv, NEW v \in Viewer, Install(v)
    PROVE  HInv'
<1>0. TypeOK /\ HeapType /\ StageInv
  BY DEF HInv
<1>1. pc[v] = "install"
      /\ UNCHANGED <<database, cache, toDelete, lock, snapshot, loading, committed, deployment>>
  BY DEF Install
<1>2. CASE LosePoll(v)
  BY <1>1, <1>2, LosePollHeap
<1>3. ASSUME object_index # None, Front(object_index).hvt < poll[v].polled, NEW s \in Slot,
             PushBucket(s, object_index, poll[v].polled, poll[v].since,
                        ChangesAfter(poll[v].since, snapshot[v])),
             object_index' = s, poll' = [poll EXCEPT ![v].new = s, ![v].moved = TRUE],
             Goto(v, "find"), UNCHANGED <<viewer, zodb>>
      PROVE  HInv'
  <2>1. object_index \in Indexes
    BY <1>3, InUse
  <2>2. PollNext(v, s)
    BY <1>0, <1>3, PollNew
  <2> QED BY <1>1, <1>3, <2>1, <2>2, PushHeap DEF Goto
<1>4. CASE /\ object_index # None /\ NoWork(v)
           /\ poll' = [poll EXCEPT ![v].new = object_index]
           /\ Goto(v, "find")
           /\ UNCHANGED <<object_index, heap, viewer, zodb>>
  <2>1. object_index \in Indexes /\ object_index \in Slot
    BY <1>0, <1>4, InUse DEF TypeOK
  <2>2. PollNext(v, object_index)
    BY <1>0, <1>4, <2>1, PollNew
  <2> QED BY <1>1, <1>4, <2>1, <2>2, LookHeap DEF Goto
<1>5. CASE /\ object_index # None /\ Front(object_index).hvt > poll[v].polled
           /\ Goto(v, "build")
           /\ UNCHANGED <<object_index, heap, viewer, poll, zodb>>
  <2>1. poll[v].new \in Indexes \cup {None}
    BY InUse
  <2>2. PollNext(v, poll[v].new)
    BY <1>0, <1>5 DEF HeapType, PollNext
  <2> QED BY <1>1, <1>5, <2>1, <2>2, LookHeap DEF Goto
<1> QED BY <1>2, <1>3, <1>4, <1>5 DEF Install

\* An index of the viewer's own.
LEMMA BuildHeap ==
    ASSUME HInv, NEW v \in Viewer, Build(v)
    PROVE  HInv'
<1>0. TypeOK /\ HeapType /\ StageInv
  BY DEF HInv
<1>1. /\ pc[v] = "build" /\ Goto(v, "find")
      /\ UNCHANGED <<database, object_index, cache, toDelete, lock, viewer, snapshot, loading, zodb,
                     committed, deployment>>
  BY DEF Build
<1>2. poll[v].cur \in Indexes /\ poll[v].cur \in Slot
  BY <1>0, <1>1, InUse DEF StageInv, HasCurrent, HeapType, Poll
<1>3. CASE poll' = [poll EXCEPT ![v].new = poll[v].cur] /\ UNCHANGED heap
  <2>1. PollNext(v, poll[v].cur)
    BY <1>0, <1>2, <1>3, PollNew
  <2>2. poll[v].cur # None
    BY <1>2, Numbers
  <2> QED BY <1>1, <1>2, <1>3, <2>1, <2>2, LookHeap DEF Goto
<1>4. ASSUME NEW s \in Slot,
             PushBucket(s, poll[v].cur, poll[v].polled, poll[v].since,
                        ChangesAfter(poll[v].since, snapshot[v])),
             poll' = [poll EXCEPT ![v].new = s]
      PROVE  HInv'
  <2>1. PollNext(v, s)
    BY <1>0, <1>4, PollNew
  <2> QED BY <1>1, <1>2, <1>4, <2>1, PushHeap DEF Goto
<1> QED BY <1>3, <1>4 DEF Build, CurrentIndex

\* What the viewer has to invalidate.
LEMMA FindHeap ==
    ASSUME HInv, NEW v \in Viewer, FindChanges(v) \/ CollectChanges(v)
    PROVE  HInv'
<1>0. TypeOK /\ HeapType /\ StageInv
  BY DEF HInv
<1>1. /\ pc[v] \in {"find", "collect"}
      /\ UNCHANGED <<database, object_index, heap, cache, toDelete, lock, viewer, snapshot, loading,
                     zodb, committed, deployment>>
  BY DEF FindChanges, CollectChanges
<1>2. poll[v].new \in Indexes \cup {None} /\ poll[v].new # None
  BY <1>0, <1>1, InUse DEF StageInv, HasNew
<1>3. PollNext(v, poll[v].new)
  <2>1. UNCHANGED poll \/ \E c \in SUBSET Oid : poll' = [poll EXCEPT ![v].changes = c]
    BY DEF FindChanges, CollectChanges
  <2>2. CASE UNCHANGED poll
    BY <1>0, <2>2 DEF HeapType, PollNext
  <2>3. ASSUME NEW c \in SUBSET Oid, poll' = [poll EXCEPT ![v].changes = c]
        PROVE  PollNext(v, poll[v].new)
    BY <1>0, <2>3, PollChanges
  <2> QED BY <2>1, <2>2, <2>3
<1>4. \E p \in {"collect", "move"} : pc' = [pc EXCEPT ![v] = p]
  BY DEF FindChanges, CollectChanges, Goto
<1> QED BY <1>1, <1>2, <1>3, <1>4, LookHeap

\* The second locked section: the viewer moves to its new index.
LEMMA MoveViewerHeap ==
    ASSUME HInv, NEW v \in Viewer, MoveViewer(v)
    PROVE  HInv'
<1>0. TypeOK /\ HeapType /\ HeadInv /\ StageInv /\ HistoryInv
  BY DEF HInv
<1>1. /\ pc[v] = "move" /\ lock = NoViewer
      /\ UNCHANGED <<database, cache, toDelete, snapshot, loading, committed, deployment>>
  BY DEF MoveViewer, LockFree
<1>2. CASE LosePoll(v) /\ UNCHANGED lock
  BY <1>1, <1>2, LosePollHeap
<1>3. ASSUME SetViewerState(v, poll[v].new), Invalidate(v, poll[v].changes),
             \/ lock' = v /\ Goto(v, "detach") /\ UNCHANGED poll
             \/ lock' = lock /\ Goto(v, "open") /\ poll' = [poll EXCEPT ![v] = NoPoll],
             UNCHANGED <<object_index, heap>>
      PROVE  HInv'
  <2>1. UNCHANGED <<history, dbTid, object_index, bucket, maps, cache, toDelete, snapshot, loading,
                    committed, deployment>>
    BY <1>1, <1>3 DEF database, heap
  <2>2. poll[v].new \in Slot /\ poll[v].new \in Indexes
    BY <1>0, <1>1, InUse DEF StageInv, HasNew, HeapType, Poll
  <2>3. Front(poll[v].new).hvt \in Tid
    BY <1>0, <2>2 DEF TypeOK, Front
  <2>4. /\ index' = [index EXCEPT ![v] = poll[v].new]
        /\ hvt' = [hvt EXCEPT ![v] = Front(poll[v].new).hvt]
        /\ detached' = [detached EXCEPT ![v] = FALSE]
    BY <1>3, <2>2, Numbers DEF SetViewerState
  <2>5. zodb' \in [Viewer -> [Oid -> Tid]]
    BY <1>0, <1>3, Numbers DEF TypeOK, Invalidate
  <2>6. TypeOK'
    BY <1>0, <1>3, <2>1, <2>2, <2>3, <2>4, <2>5 DEF TypeOK
  <2>7. NoPoll \in Poll /\ NoPoll.cur = None /\ NoPoll.new = None
    BY Numbers DEF NoPoll, Poll
  <2>8. /\ pc' \in [Viewer -> Stages] /\ poll' \in [Viewer -> Poll]
        /\ \A w \in Viewer : w # v => pc'[w] = pc[w] /\ poll'[w] = poll[w] /\ index'[w] = index[w]
        /\ \/ pc'[v] = "detach" /\ poll'[v] = poll[v] /\ lock' = v
           \/ pc'[v] = "open" /\ poll'[v] = NoPoll /\ lock' = NoViewer
    <3>1. \A w \in Viewer : w # v => index'[w] = index[w]
      BY <1>0, <2>4 DEF TypeOK
    <3>2. CASE lock' = v /\ Goto(v, "detach") /\ UNCHANGED poll
      BY <1>0, <3>1, <3>2 DEF HeapType, Stages, Goto
    <3>3. CASE lock' = lock /\ Goto(v, "open") /\ poll' = [poll EXCEPT ![v] = NoPoll]
      BY <1>0, <1>1, <2>7, <3>1, <3>3 DEF HeapType, Stages, Waiting, Goto
    <3> QED BY <1>3, <3>2, <3>3
  <2>9. HeapType'
    BY <1>0, <2>1, <2>8 DEF HeapType
  <2>10. StageInv' /\ HistoryInv'
    BY <1>0, <1>1, <2>1, <2>8, MvccAssumption
       DEF StageInv, HistoryInv, Locked, HasNew, HasPolled, HasCurrent, Waiting
  <2>11. Roots' \subseteq Roots \cup {None} /\ Indexes' \subseteq Indexes
    <3>1. index'[v] = poll[v].new
      BY <1>0, <2>4 DEF TypeOK
    <3> QED BY <1>1, <2>1, <2>2, <2>7, <2>8, <3>1, InUse, InUseNext
  <2>12. HeadInv'
    BY <2>1, <2>11, SameHeads
  <2> QED BY <2>6, <2>9, <2>10, <2>12 DEF HInv
<1> QED BY <1>2, <1>3 DEF MoveViewer

\* Viewers are cut off, buckets are frozen, the vacuum ends.
LEMMA VacuumHeap ==
    ASSUME HInv, NEW v \in Viewer, DetachOldest(v) \/ Freeze(v) \/ VacuumDone(v)
    PROVE  HInv'
<1>0. TypeOK /\ HeapType /\ HeadInv /\ StageInv /\ HistoryInv
  BY DEF HInv
<1>1. /\ pc[v] \in Locked
      /\ UNCHANGED <<history, dbTid, object_index, bucket, maps, hvt, index, snapshot, loading, zodb,
                     committed, deployment>>
  BY DEF DetachOldest, Freeze, VacuumDone, Locked, database, heap, viewer
<1>2. NoPoll \in Poll /\ NoPoll.cur = None /\ NoPoll.new = None
  BY Numbers DEF NoPoll, Poll
<1>3. /\ pc' \in [Viewer -> Stages] /\ poll' \in [Viewer -> Poll]
      /\ \A w \in Viewer : w # v => pc'[w] = pc[w] /\ poll'[w] = poll[w]
      /\ \/ pc'[v] = "vacuum" /\ poll'[v] = poll[v] /\ lock' = lock
         \/ pc'[v] = "open" /\ poll'[v] = NoPoll /\ lock' = NoViewer
  BY ZenonT(30), <1>0, <1>1, <1>2
    DEF DetachOldest, Freeze, VacuumDone, HeapType, Stages, Waiting, Goto
<1>4. cache' \in [Oid -> SUBSET [tid : 1..MaxTid, frozen : BOOLEAN]]
  <2>1. ASSUME NEW o \in Oid, NEW t
        PROVE  /\ FreezeToTid(cache[o], t) \subseteq [tid : 1..MaxTid, frozen : BOOLEAN]
               /\ DiscardingTidsBefore(cache[o], t) \subseteq [tid : 1..MaxTid, frozen : BOOLEAN]
    <3>1. cache[o] \subseteq [tid : 1..MaxTid, frozen : BOOLEAN]
      BY <1>0 DEF TypeOK
    <3>2. DiscardingTidsBefore(cache[o], t) \subseteq cache[o]
      BY DiscardingKeeps
    <3>3. ASSUME NEW e \in cache[o]
          PROVE  [e EXCEPT !.frozen = @ \/ e.tid = t] \in [tid : 1..MaxTid, frozen : BOOLEAN]
      <4>1. e \in [tid : 1..MaxTid, frozen : BOOLEAN]
        BY <3>1
      <4> QED BY <4>1
    <3> QED BY <3>1, <3>2, <3>3 DEF FreezeToTid
  <2>2. CASE DetachOldest(v)
    BY <1>0, <2>2 DEF DetachOldest, TypeOK
  <2>3. CASE Freeze(v)
    BY <1>0, <2>1, <2>3 DEF Freeze, TypeOK
  <2>4. CASE VacuumDone(v)
    BY <1>0, <2>1, <2>4 DEF VacuumDone, TypeOK
  <2> QED BY <2>2, <2>3, <2>4
<1>5. detached' \in [Viewer -> BOOLEAN]
  BY <1>0 DEF DetachOldest, Freeze, VacuumDone, DetachViewersAtMinimum, TypeOK, viewer
<1>6. toDelete' \in [Oid -> Tid]
  BY <1>0, Numbers DEF DetachOldest, Freeze, VacuumDone, TypeOK, EmptyMap
<1>7. TypeOK'
  <2>1. lock' \in Viewer \cup {NoViewer}
    BY <1>0, <1>3 DEF TypeOK
  <2> QED BY <1>0, <1>1, <1>4, <1>5, <1>6, <2>1 DEF TypeOK
<1>8. HeapType'
  BY <1>0, <1>1, <1>3 DEF HeapType
<1>9. StageInv' /\ HistoryInv'
  BY <1>0, <1>1, <1>3, MvccAssumption
     DEF StageInv, HistoryInv, Locked, HasNew, HasPolled, HasCurrent, Waiting
<1>10. Roots' \subseteq Roots \cup {None} /\ Indexes' \subseteq Indexes
  BY <1>1, <1>2, <1>3, InUse, InUseNext
<1>11. HeadInv'
  BY <1>1, <1>10, SameHeads
<1> QED BY <1>7, <1>8, <1>9, <1>11 DEF HInv

\* The least number of a set is the one that is not greater than another.
LEMMA MinIs ==
    ASSUME NEW S, S \subseteq Nat, NEW k \in S, \A l \in S : k <= l
    PROVE  Min(S) = k
<1>1. \E x \in S : \A y \in S : x <= y
  OBVIOUS
<1>2. Min(S) \in S /\ \A y \in S : Min(S) <= y
  BY <1>1 DEF Min
<1> DEFINE m == Min(S)
<1>3. m \in Nat /\ k \in Nat /\ m <= k /\ k <= m
  BY <1>2
<1> HIDE DEF m
<1>4. m = k
  BY <1>3
<1> QED BY <1>4 DEF m

\* A set of numbers that is not empty has a least one.
LEMMA LeastOf ==
    ASSUME NEW S, S \subseteq Nat, S # {}
    PROVE  \E x \in S : Min(S) = x /\ \A y \in S : x <= y
<1>1. \E x \in S : \A y \in S : ~ (<<y, x>> \in OpToRel(<, Nat))
  BY NatLessThanWellFounded, WFMin
<1>2. PICK x \in S : \A y \in S : ~ (<<y, x>> \in OpToRel(<, Nat))
  BY <1>1
<1>3. \A y \in S : ~ (y < x)
  BY <1>2 DEF OpToRel
<1>4. \A y \in S : x <= y
  BY <1>3
<1> QED BY <1>4, MinIs

\* remove_oldest_transaction_and_collect_invalidations: the oldest bucket
\* leaves the index and is closed; the entries it keeps have no newer ones in
\* the index, or equal ones.
Removed(i, old, S) ==
    /\ i \in Indexes /\ Len(maps[i]) \in Nat /\ Len(maps[i]) > 1
    /\ old \in Slot /\ old = maps[i][Len(maps[i])]
    /\ maps' \in [Slot -> Seq(Slot)]
    /\ Len(maps'[i]) = Len(maps[i]) - 1
    /\ \A k \in 1..(Len(maps[i]) - 1) : maps'[i][k] = maps[i][k]
    /\ \A s \in Slot : s # i => maps'[s] = maps[s]
    /\ bucket' \in [Slot -> Bucket]
    /\ \A s \in Slot : s # old => bucket'[s] = bucket[s]
    /\ bucket'[old].hvt = bucket[old].hvt /\ bucket'[old].cst = bucket[old].cst
    /\ bucket'[old].open = FALSE
    /\ \A o \in Oid : bucket'[old].map[o] = IF o \in S THEN None ELSE bucket[old].map[o]
    /\ \A o \in Oid \ S : bucket[old].map[o] # None =>
          \A k \in 1..(Len(maps[i]) - 1) :
             Entry(i, k, o) # None /\ (\A l \in At(i) : l < k => Entry(i, l, o) = None)
                => Entry(i, k, o) = bucket[old].map[o]

\* That is what the step of the vacuum does.
LEMMA RemoveOldestRemoves ==
    ASSUME HInv, NEW v \in Viewer, RemoveOldest(v)
    PROVE  \E S \in SUBSET Oid :
              /\ Removed(poll[v].new, maps[poll[v].new][Len(maps[poll[v].new])], S)
              /\ toDelete' \in [Oid -> Tid]
<1>0. TypeOK /\ HeapType /\ HeadInv /\ StageInv /\ HistoryInv
  BY DEF HInv
<1> DEFINE i == poll[v].new
           n == Len(maps[i])
           old == maps[i][n]
           rest == SubSeq(maps[i], 1, n - 1)
           Newest(o) == LET ks == Positions(i, o) \ {n}
                        IN IF ks = {} THEN None ELSE bucket[rest[Min(ks)]].map[o]
           S == {o \in Oid : bucket[old].map[o] # None /\ Newest(o) \notin {None, bucket[old].map[o]}}
<1>1. /\ pc[v] = "vacuum" /\ ~ StillNeeded(i) /\ maps' = [maps EXCEPT ![i] = rest]
      /\ bucket' = [bucket EXCEPT ![old].open = FALSE,
                       ![old].map = [o \in Oid |-> IF o \in S THEN None ELSE @[o]]]
      /\ toDelete' = [o \in Oid |-> IF o \in S THEN bucket[old].map[o] ELSE toDelete[o]]
  BY DEF RemoveOldest, Depth
<1>2. i \in Indexes /\ i \in Slot
  BY <1>0, <1>1, InUse DEF StageInv, HasNew, Locked, HeapType, Poll
<1>3. maps[i] \in Seq(Slot) /\ n \in Nat /\ n > 1
  <2>1. n > 1
    BY <1>1 DEF StillNeeded, Depth
  <2>2. maps[i] \in Seq(Slot)
    BY <1>0, <1>2 DEF HeapType
  <2>3. n \in Nat
    BY <2>2
  <2> QED BY <2>1, <2>2, <2>3
<1>4. old \in Slot
  BY <1>3
<1>5. rest \in Seq(Slot) /\ Len(rest) = n - 1 /\ \A k \in 1..(n - 1) : rest[k] = maps[i][k]
  BY <1>3
<1>6. S \subseteq Oid
  OBVIOUS
<1>7. ASSUME NEW o \in Oid \ S, bucket[old].map[o] # None, NEW k \in 1..(n - 1),
             Entry(i, k, o) # None, \A l \in At(i) : l < k => Entry(i, l, o) = None
      PROVE  Entry(i, k, o) = bucket[old].map[o]
  <2> DEFINE ks == Positions(i, o) \ {n}
  <2>1. \A x : x \in ks <=> x \in 1..n /\ x # n /\ Entry(i, x, o) # None
    BY DEF Positions, Depth, Entry
  <2>2. k \in ks /\ ks \subseteq Nat /\ \A l \in ks : k <= l
    <3>0. \A l \in 1..n : l < k => Entry(i, l, o) = None
      BY <1>7 DEF At
    <3> HIDE DEF ks, n, i, S, Newest, rest, old
    <3>1. k \in ks
      BY <1>3, <1>7, <2>1
    <3>2. ks \subseteq Nat
      BY <1>3, <2>1
    <3>3. ASSUME NEW l \in ks PROVE k <= l
      BY <1>3, <2>1, <3>0, <3>2, <3>3
    <3> QED BY <3>1, <3>2, <3>3
  <2>3. Min(ks) = k
    <3> HIDE DEF ks
    <3> QED BY <2>2, MinIs
  <2>4. Newest(o) = bucket[rest[k]].map[o]
    BY <2>2, <2>3
  <2>5. Newest(o) = Entry(i, k, o)
    BY <1>5, <2>4 DEF Entry
  <2> HIDE DEF Newest
  <2> QED BY <1>7, <2>5
<1> HIDE DEF S
<1>8. /\ bucket' \in [Slot -> Bucket]
      /\ \A s \in Slot : s # old => bucket'[s] = bucket[s]
      /\ bucket'[old].hvt = bucket[old].hvt /\ bucket'[old].cst = bucket[old].cst
      /\ bucket'[old].open = FALSE
      /\ \A o \in Oid : bucket'[old].map[o] = IF o \in S THEN None ELSE bucket[old].map[o]
  <2> HIDE DEF old
  <2>1. [o \in Oid |-> IF o \in S THEN None ELSE bucket[old].map[o]] \in [Oid -> Tid]
    BY <1>0, <1>4, Numbers DEF HeapType, Bucket
  <2> DEFINE m == [o \in Oid |-> IF o \in S THEN None ELSE bucket[old].map[o]]
  <2>2. bucket' = [bucket EXCEPT ![old].open = FALSE, ![old].map = m]
    BY <1>0, <1>1, <1>4 DEF old, HeapType, Bucket
  <2>3. \A o \in Oid : m[o] = IF o \in S THEN None ELSE bucket[old].map[o]
    OBVIOUS
  <2> HIDE DEF m
  <2>4. bucket' \in [Slot -> Bucket]
    BY ZenonT(30), <1>0, <1>4, <2>1, <2>2 DEF HeapType, Bucket, m
  <2>5. /\ \A s \in Slot : s # old => bucket'[s] = bucket[s]
        /\ bucket'[old].hvt = bucket[old].hvt /\ bucket'[old].cst = bucket[old].cst
        /\ bucket'[old].open = FALSE /\ bucket'[old].map = m
    BY <1>0, <1>4, <2>2 DEF HeapType, Bucket
  <2> QED BY <2>3, <2>4, <2>5
<1>9. toDelete' \in [Oid -> Tid]
  BY <1>0, <1>1, <1>4 DEF TypeOK
<1>10. maps' \in [Slot -> Seq(Slot)]
  BY <1>0, <1>1, <1>2, <1>5 DEF HeapType
<1>11. maps'[i] = rest /\ \A s \in Slot : s # i => maps'[s] = maps[s]
  BY <1>0, <1>1, <1>2 DEF HeapType
<1>12. Removed(i, old, S)
  <2> HIDE DEF rest
  <2> QED BY <1>2, <1>3, <1>4, <1>5, <1>7, <1>8, <1>10, <1>11 DEF Removed
<1> QED BY <1>6, <1>9, <1>12

\* The oldest bucket leaves the index under vacuum, and only that one.
LEMMA RemoveOldestHeap ==
    ASSUME HInv, NEW v \in Viewer, RemoveOldest(v)
    PROVE  HInv'
<1>0. TypeOK /\ HeapType /\ HeadInv /\ StageInv /\ HistoryInv
  BY DEF HInv
<1> DEFINE i == poll[v].new
           old == maps[i][Len(maps[i])]
<1>1. /\ pc[v] = "vacuum" /\ poll' = [poll EXCEPT ![v].cur = old]
      /\ pc' = [pc EXCEPT ![v] = "freeze"]
      /\ UNCHANGED <<history, dbTid, object_index, cache, lock, hvt, detached, index, snapshot, loading,
                     zodb, committed, deployment>>
  BY DEF RemoveOldest, Depth, Goto, database, viewer
<1>2. PICK S \in SUBSET Oid : Removed(i, old, S) /\ toDelete' \in [Oid -> Tid]
  BY RemoveOldestRemoves
<1>3. old \in Slot /\ i \in Indexes /\ bucket' \in [Slot -> Bucket] /\ maps' \in [Slot -> Seq(Slot)]
  BY <1>2 DEF Removed
<1>4. i \in Slot /\ maps[i] \in Seq(Slot) /\ maps[old] # <<>>
  <2>1. i \in Slot /\ maps[i] \in Seq(Slot)
    BY <1>0, <1>3, IndexesReachable DEF HeapType
  <2>2. Len(maps[i]) \in 1..Len(maps[i])
    <3>1. Len(maps[i]) \in Nat /\ Len(maps[i]) > 1
      BY <1>2 DEF Removed
    <3> QED BY <3>1
  <2> QED BY <1>0, <1>3, <2>1, <2>2 DEF HeadInv
<1>5. \A s \in Slot : /\ maps[s] # <<>> => maps'[s] # <<>> /\ maps'[s][1] = maps[s][1]
                      /\ Len(maps'[s]) <= Len(maps[s])
                      /\ \A k \in 1..Len(maps'[s]) : maps'[s][k] = maps[s][k] /\ k \in 1..Len(maps[s])
                      /\ maps[s] = <<>> => maps'[s] = <<>>
  <2> SUFFICES ASSUME NEW s \in Slot
               PROVE  /\ maps[s] # <<>> => maps'[s] # <<>> /\ maps'[s][1] = maps[s][1]
                      /\ Len(maps'[s]) <= Len(maps[s])
                      /\ \A k \in 1..Len(maps'[s]) : maps'[s][k] = maps[s][k] /\ k \in 1..Len(maps[s])
                      /\ maps[s] = <<>> => maps'[s] = <<>>
    OBVIOUS
  <2>1. maps[s] \in Seq(Slot) /\ maps'[s] \in Seq(Slot)
    BY <1>0, <1>3 DEF HeapType
  <2>2. CASE s = i
    <3>1. /\ Len(maps'[s]) = Len(maps[s]) - 1 /\ Len(maps[s]) > 1 /\ Len(maps[s]) \in Nat
          /\ \A k \in 1..(Len(maps[s]) - 1) : maps'[s][k] = maps[s][k]
      BY <1>2, <2>2 DEF Removed
    <3> QED BY <2>1, <3>1
  <2>3. CASE s # i
    <3>1. maps'[s] = maps[s]
      BY <1>2, <2>3 DEF Removed
    <3> QED BY <2>1, <3>1
  <2> QED BY <2>2, <2>3
<1> HIDE DEF old, i
<1>6. /\ pc' \in [Viewer -> Stages] /\ poll' \in [Viewer -> Poll]
      /\ \A w \in Viewer : w # v => pc'[w] = pc[w] /\ poll'[w] = poll[w]
      /\ pc'[v] = "freeze" /\ poll'[v].cur = old /\ poll'[v].new = poll[v].new
      /\ poll'[v].polled = poll[v].polled
  BY ZenonT(30), <1>0, <1>1, <1>3 DEF HeapType, Poll, Stages
<1>7. HeapType'
  BY <1>0, <1>1, <1>3, <1>6 DEF HeapType
<1>8. TypeOK'
  BY <1>0, <1>1, <1>2, <1>3 DEF TypeOK, Bucket
<1>9. StageInv' /\ HistoryInv'
  BY <1>0, <1>1, <1>3, <1>6, Numbers DEF StageInv, HistoryInv, Locked, HasNew, HasPolled, HasCurrent
<1>10. Roots' \subseteq Roots \cup {old} \cup {None}
  BY <1>1, <1>6 DEF Roots
<1>11. Indexes' \subseteq Indexes
  BY <1>1, <1>6 DEF Indexes
<1>12. HeadInv'
  <2>1. \A s \in Slot : maps'[s] # <<>> => maps'[s][1] = s
    BY <1>0, <1>5 DEF HeadInv
  <2>2. \A j \in Roots' \ {None} : maps'[j] # <<>>
    BY <1>3, <1>4, <1>5, <1>10, IndexesReachable
  <2>3. ASSUME NEW j \in Indexes', NEW k \in 1..Len(maps'[j]) PROVE maps'[maps'[j][k]] # <<>>
    <3>1. j \in Indexes /\ j \in Slot
      BY <1>11, IndexesReachable
    <3>2. maps'[j][k] = maps[j][k] /\ k \in 1..Len(maps[j])
      BY <1>5, <3>1
    <3>3. maps[maps[j][k]] # <<>> /\ maps[j][k] \in Slot
      BY <1>0, <3>1, <3>2 DEF HeadInv, HeapType
    <3> QED BY <1>5, <3>2, <3>3
  <2> QED BY <2>1, <2>2, <2>3 DEF HeadInv
<1> QED BY <1>7, <1>8, <1>9, <1>12 DEF HInv

-----------------------------------------------------------------------------
(* Loads, commits and the rest. *)

\* __setitem__ enters the tid of an object into an open bucket, at most.
ItemSet(i, o, t) ==
    /\ bucket' \in [Slot -> Bucket]
    /\ \/ bucket' = bucket
       \/ \E k \in At(i) :
             LET r == maps[i][k] IN
             /\ bucket[r].open /\ t <= bucket[r].hvt
             /\ bucket[r].cst = Incomplete \/ t <= bucket[r].cst
             /\ \A s \in Slot : s # r => bucket'[s] = bucket[s]
             /\ bucket'[r].hvt = bucket[r].hvt /\ bucket'[r].cst = bucket[r].cst
             /\ bucket'[r].open = bucket[r].open
             /\ \A p \in Oid : bucket'[r].map[p] = IF p = o THEN t ELSE bucket[r].map[p]

\* That is what it does.
LEMMA SetItemSets ==
    ASSUME HInv, NEW i \in Indexes, NEW o \in Oid, NEW t \in Tid, bucket' = SetItem(i, o, t)
    PROVE  ItemSet(i, o, t)
<1>0. TypeOK /\ HeapType
  BY DEF HInv
<1>1. i \in Slot /\ maps[i] \in Seq(Slot)
  BY <1>0, IndexesReachable DEF HeapType
<1> DEFINE n == Len(maps[i])
           Possible(k) == /\ bucket[maps[i][k]].open
                          /\ \/ t > bucket[maps[i][k]].hvt
                             \/ bucket[maps[i][k]].cst = Incomplete
                             \/ t <= bucket[maps[i][k]].cst
           P == {k \in 1..n : Possible(k)}
           k == SetPosition(i, t)
<1>2. k = NewestOf(P)
  BY DEF SetPosition, Depth
<1>3. n \in Nat /\ P \subseteq Nat /\ \A l \in P : l <= n
  <2>1. n \in Nat
    BY <1>1
  <2> QED BY <2>1
<1>4. k # 0 => k \in P
  <2> HIDE DEF P, n, k
  <2>1. CASE P = {}
    BY <1>2, <2>1 DEF NewestOf, None
  <2>2. CASE P # {}
    BY <1>2, <1>3, <2>2, MaxOfTids DEF NewestOf
  <2> QED BY <2>1, <2>2
<1>5. CASE k # 0 /\ t <= bucket[maps[i][k]].hvt
  <2> DEFINE r == maps[i][k]
  <2>1. k \in At(i) /\ r \in Slot
    BY <1>1, <1>4, <1>5 DEF At
  <2>2. Possible(k)
    BY <1>4, <1>5
  <2>3. bucket' = [bucket EXCEPT ![r].map[o] = t]
    BY <1>5 DEF SetItem
  <2> HIDE DEF k
  <2>4. bucket[r].hvt \in Nat /\ t \in Nat
    BY <1>0, <2>1, Numbers DEF TypeOK
  <2>5. bucket[r].open /\ (bucket[r].cst = Incomplete \/ t <= bucket[r].cst)
    BY <1>5, <2>2, <2>4
  <2> HIDE DEF r, Possible
  <2>6. bucket \in [Slot -> Bucket] /\ bucket[r].map \in [Oid -> Tid]
    BY <1>0, <2>1 DEF HeapType, TypeOK
  <2> DEFINE m == [bucket[r].map EXCEPT ![o] = t]
  <2>7. m \in [Oid -> Tid] /\ \A p \in Oid : m[p] = IF p = o THEN t ELSE bucket[r].map[p]
    BY <2>6
  <2>8. bucket' = [bucket EXCEPT ![r].map = m]
    BY <2>3
  <2> HIDE DEF m
  <2>9. bucket' \in [Slot -> Bucket]
    BY ZenonT(30), <2>1, <2>6, <2>7, <2>8 DEF Bucket
  <2>10. /\ \A s \in Slot : s # r => bucket'[s] = bucket[s]
         /\ bucket'[r].hvt = bucket[r].hvt /\ bucket'[r].cst = bucket[r].cst
         /\ bucket'[r].open = bucket[r].open /\ bucket'[r].map = m
    BY <2>1, <2>6, <2>8 DEF Bucket
  <2>11. t <= bucket[r].hvt
    BY <1>5 DEF r
  <2> QED BY <2>1, <2>5, <2>7, <2>9, <2>10, <2>11 DEF ItemSet, r
<1>6. CASE ~ (k # 0 /\ t <= bucket[maps[i][k]].hvt)
  <2>1. bucket' = bucket
    BY <1>6 DEF SetItem
  <2> QED BY <1>0, <2>1 DEF ItemSet, HeapType
<1> QED BY <1>5, <1>6

\* Steps of a viewer that does not poll.
LEMMA QuietHeap ==
    ASSUME HInv, TypeOK', HistoryInv', bucket' \in [Slot -> Bucket],
           loading' \in [Viewer -> {<<>>} \cup (Oid \X Tid)], UNCHANGED <<maps, poll, lock>>,
           NEW v \in Viewer, NEW p \in {"idle", "open", "loading", "finish"},
           pc[v] \in {"idle", "open", "stale", "loading", "finish"}, pc' = [pc EXCEPT ![v] = p],
           \A w \in Viewer : w # v => /\ index'[w] = index[w] /\ snapshot'[w] = snapshot[w]
                                      /\ loading'[w] = loading[w],
           index'[v] \in {index[v], None}, object_index' \in {object_index, None},
           p # "idle" => snapshot'[v] # 0,
           p = "loading" => loading'[v] # <<>> /\ index'[v] # None
    PROVE  HInv'
<1>0. TypeOK /\ HeapType /\ HeadInv /\ StageInv
  BY DEF HInv
<1>1. /\ pc' \in [Viewer -> Stages] /\ pc'[v] = p
      /\ \A w \in Viewer : w # v => pc'[w] = pc[w]
  BY <1>0 DEF HeapType, Stages, Waiting
<1>2. HeapType'
  BY <1>0, <1>1 DEF HeapType
<1>3. StageInv'
  BY <1>0, <1>1 DEF StageInv, Locked, HasNew, HasPolled, HasCurrent, Waiting
<1>4. Roots' \subseteq Roots \cup {None} /\ Indexes' \subseteq Indexes
  <2>1. /\ object_index' \in Indexes \cup {None}
        /\ \A w \in Viewer :
              /\ index'[w] \in Indexes \cup {None}
              /\ poll'[w].new \in Indexes \cup {None}
              /\ poll'[w].cur \in Roots \cup {None}
              /\ pc'[w] \notin {"vacuum", "freeze"} => poll'[w].cur \in Indexes \cup {None}
    BY <1>1, InUse
  <2> QED BY <2>1, InUseNext
<1>5. HeadInv'
  BY <1>4, SameHeads
<1> QED BY <1>2, <1>3, <1>5 DEF HInv

\* Steps that leave the viewers where they are.
LEMMA ElsewhereHeap ==
    ASSUME HInv, TypeOK', HistoryInv',
           UNCHANGED <<object_index, bucket, maps, lock, pc, index, snapshot, poll, loading>>
    PROVE  HInv'
<1>1. HeapType' /\ StageInv'
  BY DEF HInv, HeapType, StageInv
<1>2. Roots' = Roots /\ Indexes' = Indexes
  BY DEF Roots, Indexes
<1>3. HeadInv'
  BY <1>2 DEF HInv, HeadInv
<1> QED BY <1>1, <1>3 DEF HInv

\* A cached value that is added has the tid of a state.
LEMMA CacheType ==
    ASSUME TypeOK, NEW o \in Oid, NEW t \in 1..MaxTid
    PROVE  AddingValue(cache[o], t) \subseteq [tid : 1..MaxTid, frozen : BOOLEAN]
<1>1. cache[o] \subseteq [tid : 1..MaxTid, frozen : BOOLEAN]
  BY DEF TypeOK
<1>2. Value(t) \in [tid : 1..MaxTid, frozen : BOOLEAN]
  BY DEF Value
<1> QED BY <1>1, <1>2, AddingValueAdds

\* A hit of the cache has the tid of a state.
LEMMA HitsType ==
    ASSUME TypeOK, NEW v \in Viewer, NEW o \in Oid, NEW t \in Hits(v, o)
    PROVE  t \in 1..MaxTid
<1>1. t \in MatchingTid(cache[o], Lookup(index[v], o))
  BY DEF Hits
<1>2. cache[o] \subseteq [tid : 1..MaxTid, frozen : BOOLEAN] /\ MaxTid \in Nat
  BY MvccAssumption DEF TypeOK
<1>3. \E e \in cache[o] : e.tid = t
  BY <1>1, <1>2, MatchingTidFinds
<1> QED BY <1>2, <1>3

\* An index looks up tids.
LEMMA LookupType ==
    ASSUME HInv, NEW i \in Indexes, NEW o \in Oid
    PROVE  /\ Lookup(i, o) \in Tid
           /\ Lookup(i, o) # None =>
                 \E l \in At(i) : /\ Lookup(i, o) = Entry(i, l, o)
                                  /\ \A k \in At(i) : k < l => Entry(i, k, o) = None
           /\ Lookup(i, o) = None => \A k \in At(i) : Entry(i, k, o) = None
<1>1. i \in Slot /\ maps[i] \in Seq(Slot) /\ bucket \in [Slot -> Bucket]
  BY IndexesReachable DEF HInv, HeapType
<1> DEFINE P == Positions(i, o)
<1>2. \A k : k \in P <=> k \in At(i) /\ Entry(i, k, o) # None
  BY DEF Positions, At, Depth, Entry
<1>3. At(i) \subseteq Nat /\ P \subseteq Nat
  <2>1. Len(maps[i]) \in Nat
    BY <1>1
  <2>2. At(i) \subseteq Nat
    BY <2>1 DEF At
  <2> HIDE DEF P
  <2> QED BY <1>2, <2>2
<1>4. \A k \in At(i) : Entry(i, k, o) \in Tid
  BY <1>1 DEF At, Entry, Bucket
<1>5. CASE P = {}
  BY <1>2, <1>5, Numbers DEF Lookup
<1>6. CASE P # {}
  <2> HIDE DEF P
  <2>2. PICK x \in P : Min(P) = x /\ \A y \in P : x <= y
    BY <1>3, <1>6, LeastOf
  <2>4. Lookup(i, o) = Entry(i, x, o)
    BY <1>6, <2>2 DEF Lookup, P, Entry
  <2>5. x \in At(i) /\ Entry(i, x, o) # None
    BY <1>2
  <2>6. \A k \in At(i) : k < x => Entry(i, k, o) = None
    BY <1>2, <1>3, <2>2
  <2> QED BY <1>4, <2>4, <2>5, <2>6
<1> QED BY <1>5, <1>6

\* The application gets a state.
LEMMA RememberType ==
    ASSUME TypeOK, NEW v \in Viewer, NEW o \in Oid, NEW t \in Tid, Remember(v, o, t)
    PROVE  zodb' \in [Viewer -> [Oid -> Tid]]
BY DEF TypeOK, Remember

\* Loads that the cache answers, and those that go to the database.
LEMMA LoadHeap ==
    ASSUME HInv, NEW v \in Viewer, NEW o \in Oid,
           LoadWithoutIndex(v, o) \/ LoadFromCache(v, o) \/ LoadMiss(v, o)
    PROVE  HInv'
<1>0. TypeOK /\ HeapType /\ StageInv /\ HistoryInv
  BY DEF HInv
<1>1. pc[v] = "open" /\ snapshot[v] # 0
  BY <1>0 DEF LoadWithoutIndex, LoadFromCache, LoadMiss, StageInv
<1>2. CASE LoadWithoutIndex(v, o) \/ LoadFromCache(v, o)
  <2>1. UNCHANGED <<history, dbTid, object_index, bucket, maps, cache, toDelete, lock, pc, hvt, detached,
                    index, snapshot, poll, loading, committed, deployment>>
    BY <1>2 DEF LoadWithoutIndex, LoadFromCache, database, heap, viewer
  <2>2. zodb' \in [Viewer -> [Oid -> Tid]]
    <3>1. CASE LoadWithoutIndex(v, o)
      <4>1. snapshot[v] \in Nat
        BY <1>0, Numbers DEF TypeOK
      <4>2. TidAt(o, snapshot[v]) \in Tid
        BY <1>0, <4>1, TidAtNewest
      <4> QED BY <1>0, <3>1, <4>2, RememberType DEF LoadWithoutIndex
    <3>2. CASE LoadFromCache(v, o)
      <4>1. PICK t \in Hits(v, o) : Remember(v, o, t)
        BY <3>2 DEF LoadFromCache
      <4>2. t \in 1..MaxTid
        BY <1>0, HitsType
      <4>3. t \in Tid
        BY <4>2, MvccAssumption DEF Tid
      <4> QED BY <1>0, <4>1, <4>3, RememberType
    <3> QED BY <1>2, <3>1, <3>2
  <2>3. TypeOK'
    BY <1>0, <2>1, <2>2 DEF TypeOK
  <2>4. HistoryInv'
    BY <1>0, <2>1 DEF HistoryInv
  <2> QED BY <2>1, <2>3, <2>4, ElsewhereHeap
<1>3. CASE LoadMiss(v, o)
  <2>1. /\ index[v] # None /\ loading' = [loading EXCEPT ![v] = <<o, Lookup(index[v], o)>>]
        /\ pc' = [pc EXCEPT ![v] = "loading"]
        /\ UNCHANGED <<history, dbTid, object_index, bucket, maps, cache, toDelete, lock, hvt, detached,
                       index, snapshot, poll, zodb, committed, deployment>>
    BY <1>3 DEF LoadMiss, Goto, database, heap, viewer
  <2>2. index[v] \in Indexes
    BY <2>1, InUse
  <2>3. Lookup(index[v], o) \in Tid
    BY <2>2, LookupType
  <2>4. /\ loading' \in [Viewer -> {<<>>} \cup (Oid \X Tid)] /\ loading'[v] # <<>>
        /\ \A w \in Viewer : w # v => loading'[w] = loading[w]
    BY <1>0, <2>1, <2>3 DEF HeapType
  <2>5. TypeOK' /\ HistoryInv'
    BY <1>0, <2>1 DEF TypeOK, HistoryInv
  <2>6. bucket' \in [Slot -> Bucket]
    BY <1>0, <2>1 DEF HeapType
  <2> QED BY <1>1, <2>1, <2>4, <2>5, <2>6, QuietHeap
<1> QED BY <1>2, <1>3

\* The database answers: the state enters the index and the cache.
LEMMA LoadFromDatabaseHeap ==
    ASSUME HInv, NEW v \in Viewer, LoadFromDatabase(v)
    PROVE  /\ HInv'
           /\ index[v] \in Indexes /\ loading[v] \in Oid \X Tid
           /\ ItemSet(index[v], loading[v][1], Actual(v))
<1>0. TypeOK /\ HeapType /\ StageInv /\ HistoryInv
  BY DEF HInv
<1>1. /\ pc[v] = "loading" /\ bucket' = SetItem(index[v], loading[v][1], Actual(v))
      /\ cache' = [cache EXCEPT ![loading[v][1]] = AddingValue(cache[loading[v][1]], Actual(v))]
      /\ Remember(v, loading[v][1], Actual(v))
      /\ loading' = [loading EXCEPT ![v] = <<>>] /\ pc' = [pc EXCEPT ![v] = "open"]
      /\ UNCHANGED <<history, dbTid, object_index, maps, toDelete, lock, hvt, detached, index, snapshot,
                     poll, committed, deployment>>
  BY DEF LoadFromDatabase, Goto, database, viewer
<1>2. snapshot[v] # 0 /\ loading[v] # <<>> /\ index[v] # None
  BY <1>0, <1>1 DEF StageInv
<1>3. loading[v] \in Oid \X Tid /\ loading[v][1] \in Oid /\ index[v] \in Indexes
  BY <1>0, <1>2, InUse DEF HeapType
<1>4. Actual(v) \in 1..MaxTid /\ Actual(v) \in Tid
  <2>1. snapshot[v] \in Nat \ {0}
    BY <1>0, <1>2, Numbers DEF TypeOK
  <2>2. Actual(v) \in 1..MaxTid
    BY <1>0, <1>3, <2>1, TidAtExists DEF Actual
  <2> QED BY <2>2, MvccAssumption DEF Tid
<1>5. ItemSet(index[v], loading[v][1], Actual(v))
  BY <1>1, <1>3, <1>4, SetItemSets
<1>6. bucket' \in [Slot -> Bucket]
  BY <1>5 DEF ItemSet
<1>7. cache' \in [Oid -> SUBSET [tid : 1..MaxTid, frozen : BOOLEAN]]
  BY <1>0, <1>1, <1>3, <1>4, CacheType DEF TypeOK
<1>8. zodb' \in [Viewer -> [Oid -> Tid]]
  BY <1>0, <1>1, <1>3, <1>4, RememberType
<1>9. TypeOK'
  BY <1>0, <1>1, <1>6, <1>7, <1>8 DEF TypeOK, Bucket
<1>10. HistoryInv'
  BY <1>0, <1>1 DEF HistoryInv
<1>11. /\ loading' \in [Viewer -> {<<>>} \cup (Oid \X Tid)]
       /\ \A w \in Viewer : w # v => loading'[w] = loading[w]
  BY <1>0, <1>1 DEF HeapType
<1>12. HInv'
  BY <1>1, <1>2, <1>6, <1>9, <1>10, <1>11, QuietHeap
<1> QED BY <1>3, <1>5, <1>12

\* Loads that fail.
LEMMA LoadFailsHeap ==
    ASSUME HInv, NEW v \in Viewer, LoadConflict(v) \/ LoadInconsistent(v)
    PROVE  HInv'
<1>0. TypeOK /\ HeapType /\ StageInv /\ HistoryInv
  BY DEF HInv
<1>1. /\ pc[v] = "loading" /\ loading' = [loading EXCEPT ![v] = <<>>]
      /\ pc' = [pc EXCEPT ![v] = "idle"]
      /\ UNCHANGED <<history, dbTid, bucket, maps, cache, toDelete, lock, snapshot, poll, zodb, committed,
                     deployment>>
  BY DEF LoadConflict, LoadInconsistent, Goto, database, heap
<1>2. /\ \A w \in Viewer : w # v => index'[w] = index[w]
      /\ index'[v] \in {index[v], None} /\ object_index' \in {object_index, None}
      /\ index' \in [Viewer -> Slot \cup {None}] /\ hvt' \in [Viewer -> Tid]
      /\ detached' \in [Viewer -> BOOLEAN]
  <2>1. CASE LoadConflict(v)
    BY <1>0, <2>1 DEF LoadConflict, viewer, TypeOK
  <2>2. CASE LoadInconsistent(v)
    BY <1>0, <2>2, Numbers DEF LoadInconsistent, FlushAll, TypeOK
  <2> QED BY <2>1, <2>2
<1>3. TypeOK'
  BY <1>0, <1>1, <1>2 DEF TypeOK
<1>4. HistoryInv' /\ bucket' \in [Slot -> Bucket]
  BY <1>0, <1>1 DEF HistoryInv, HeapType
<1>5. /\ loading' \in [Viewer -> {<<>>} \cup (Oid \X Tid)]
      /\ \A w \in Viewer : w # v => loading'[w] = loading[w]
  BY <1>0, <1>1 DEF HeapType
<1> QED BY <1>1, <1>2, <1>3, <1>4, <1>5, QuietHeap

\* A transaction commits: the history grows by the next tid.
LEMMA WriteHistory ==
    ASSUME TypeOK, HistoryInv, NEW oids \in SUBSET Oid, Write(oids)
    PROVE  /\ HistoryInv' /\ history' \in [Oid -> SUBSET (1..MaxTid)] /\ dbTid' \in 1..MaxTid
           /\ dbTid' = dbTid + 1
           /\ \A o \in Oid : history'[o] = history[o] \cup (IF o \in oids THEN {dbTid + 1} ELSE {})
<1>1. /\ dbTid < MaxTid /\ dbTid' = dbTid + 1 /\ MaxTid \in Nat /\ dbTid \in 1..MaxTid
      /\ history' = [o \in Oid |-> IF o \in oids THEN history[o] \cup {dbTid + 1} ELSE history[o]]
  BY MvccAssumption DEF Write, TypeOK
<1>2. dbTid' \in 1..MaxTid /\ dbTid + 1 \in 1..MaxTid
  BY <1>1
<1>3. \A o \in Oid : history'[o] = history[o] \cup (IF o \in oids THEN {dbTid + 1} ELSE {})
  BY <1>1
<1>4. history' \in [Oid -> SUBSET (1..MaxTid)]
  BY <1>1, <1>2 DEF TypeOK
<1>5. ASSUME NEW o \in Oid
      PROVE  InitTid \in history'[o] /\ \A t \in history'[o] : t <= dbTid'
  <2>1. InitTid \in history[o] /\ \A t \in history[o] : t <= dbTid /\ t \in 1..MaxTid
    BY DEF HistoryInv, TypeOK
  <2>2. ASSUME NEW t \in history'[o] PROVE t <= dbTid'
    BY <1>1, <1>3, <2>1
  <2> QED BY <1>3, <2>1, <2>2
<1> QED BY <1>1, <1>2, <1>3, <1>4, <1>5 DEF HistoryInv

\* A commit of an instance.
LEMMA CommitHeap ==
    ASSUME HInv, NEW v \in Viewer, NEW oids \in SUBSET Oid, Commit(v, oids)
    PROVE  HInv'
<1>0. TypeOK /\ HeapType /\ StageInv /\ HistoryInv
  BY DEF HInv
<1>1. /\ pc[v] = "open" /\ Write(oids)
      /\ committed' = [committed EXCEPT ![v] = dbTid + 1]
      /\ pc' = [pc EXCEPT ![v] = "finish"]
      /\ UNCHANGED <<object_index, bucket, maps, cache, toDelete, lock, hvt, detached, index, snapshot,
                     poll, loading, deployment>>
  BY DEF Commit, Goto, heap, viewer
<1>2. /\ HistoryInv' /\ history' \in [Oid -> SUBSET (1..MaxTid)]
      /\ dbTid' \in 1..MaxTid /\ dbTid' = dbTid + 1
  BY <1>0, <1>1, WriteHistory
<1>3. dbTid + 1 \in Tid
  BY <1>2, MvccAssumption DEF Tid
<1>4. zodb' \in [Viewer -> [Oid -> Tid]]
  <2> DEFINE new == [o \in Oid |-> IF o \notin oids THEN zodb[v][o]
                        ELSE IF TidAt(o, dbTid) = TidAt(o, snapshot[v]) THEN dbTid + 1 ELSE None]
  <2>1. new \in [Oid -> Tid]
    BY <1>0, <1>3, Numbers DEF TypeOK
  <2>2. zodb' = [zodb EXCEPT ![v] = new]
    BY DEF Commit
  <2> HIDE DEF new
  <2> QED BY <1>0, <2>1, <2>2 DEF TypeOK
<1>5. TypeOK'
  BY <1>0, <1>1, <1>2, <1>3, <1>4 DEF TypeOK
<1>6. bucket' \in [Slot -> Bucket] /\ loading' \in [Viewer -> {<<>>} \cup (Oid \X Tid)]
  BY <1>0, <1>1 DEF HeapType
<1>7. snapshot'[v] # 0
  BY <1>0, <1>1 DEF StageInv
<1> QED BY <1>1, <1>2, <1>5, <1>6, <1>7, QuietHeap

\* after_tpc_finish, and a release.
LEMMA FinishHeap ==
    ASSUME HInv, NEW v \in Viewer, AfterTpcFinish(v) \/ Release(v)
    PROVE  HInv'
<1>0. TypeOK /\ HeapType /\ StageInv /\ HistoryInv
  BY DEF HInv
<1>1. /\ pc[v] \in {"idle", "open", "stale", "finish"} /\ pc' = [pc EXCEPT ![v] = "idle"]
      /\ UNCHANGED <<history, dbTid, object_index, bucket, maps, toDelete, lock, poll, loading,
                     deployment>>
  BY DEF AfterTpcFinish, Release, Goto, database, heap
<1>2. /\ cache' \in [Oid -> SUBSET [tid : 1..MaxTid, frozen : BOOLEAN]]
      /\ index' \in [Viewer -> Slot \cup {None}] /\ hvt' \in [Viewer -> Tid]
      /\ detached' \in [Viewer -> BOOLEAN] /\ snapshot' \in [Viewer -> Tid]
      /\ committed' \in [Viewer -> Tid] /\ zodb' \in [Viewer -> [Oid -> Tid]]
      /\ \A w \in Viewer : w # v => index'[w] = index[w] /\ snapshot'[w] = snapshot[w]
      /\ index'[v] \in {index[v], None}
  <2>1. CASE AfterTpcFinish(v)
    <3>1. ASSUME NEW o \in Oid, committed[v] \in history[o]
          PROVE  AddingValue(cache[o], committed[v]) \subseteq [tid : 1..MaxTid, frozen : BOOLEAN]
      <4>1. committed[v] \in 1..MaxTid
        BY <1>0, <3>1 DEF TypeOK
      <4> QED BY <1>0, <4>1, CacheType
    <3>2. cache' \in [Oid -> SUBSET [tid : 1..MaxTid, frozen : BOOLEAN]]
      BY <1>0, <2>1, <3>1 DEF AfterTpcFinish, TypeOK
    <3>3. UNCHANGED <<hvt, detached, index, snapshot, zodb, committed>>
      BY <2>1 DEF AfterTpcFinish, viewer
    <3> QED BY <1>0, <3>2, <3>3 DEF TypeOK
  <2>2. CASE Release(v)
    <3>1. EmptyMap \in [Oid -> Tid] /\ None \in Tid /\ 0 \in Tid
      BY Numbers DEF EmptyMap
    <3> QED BY <1>0, <2>2, <3>1 DEF Release, InvalidateAll, TypeOK
  <2> QED BY <2>1, <2>2
<1>3. TypeOK'
  BY <1>0, <1>1, <1>2 DEF TypeOK
<1>4. HistoryInv' /\ bucket' \in [Slot -> Bucket] /\ loading' \in [Viewer -> {<<>>} \cup (Oid \X Tid)]
  BY <1>0, <1>1 DEF HistoryInv, HeapType
<1> QED BY <1>1, <1>2, <1>3, <1>4, QuietHeap

\* Other processes commit, the cache evicts.
LEMMA ElseHeap ==
    ASSUME HInv, \/ \E oids \in SUBSET Oid : ExternalCommit(oids)
                 \/ \E o \in Oid : Evict(o)
                 \/ UNCHANGED vars
    PROVE  HInv'
<1>0. TypeOK /\ HistoryInv
  BY DEF HInv
<1>1. UNCHANGED <<object_index, bucket, maps, toDelete, lock, pc, hvt, detached, index, snapshot, poll,
                  loading, zodb, committed, deployment>>
  BY DEF ExternalCommit, Evict, vars, heap, viewer
<1>2. /\ HistoryInv' /\ history' \in [Oid -> SUBSET (1..MaxTid)] /\ dbTid' \in 1..MaxTid
      /\ cache' \in [Oid -> SUBSET [tid : 1..MaxTid, frozen : BOOLEAN]]
  <2>1. CASE \E oids \in SUBSET Oid : ExternalCommit(oids)
    <3>1. PICK oids \in SUBSET Oid : Write(oids) /\ UNCHANGED cache
      BY <2>1 DEF ExternalCommit
    <3>2. HistoryInv' /\ history' \in [Oid -> SUBSET (1..MaxTid)] /\ dbTid' \in 1..MaxTid
      BY <1>0, <3>1, WriteHistory
    <3> QED BY <1>0, <3>1, <3>2 DEF TypeOK
  <2>2. CASE \E o \in Oid : Evict(o)
    <3>1. PICK o \in Oid : cache' = [cache EXCEPT ![o] = {}] /\ UNCHANGED <<history, dbTid>>
      BY <2>2 DEF Evict, database
    <3> QED BY <1>0, <3>1 DEF TypeOK, HistoryInv
  <2>3. CASE UNCHANGED vars
    BY <1>0, <2>3 DEF vars, database, TypeOK, HistoryInv
  <2> QED BY <2>1, <2>2, <2>3
<1>3. TypeOK'
  BY <1>0, <1>1, <1>2 DEF TypeOK
<1> QED BY <1>1, <1>2, <1>3, ElsewhereHeap

\* The first states.
LEMMA StartHeap ==
    ASSUME NEW indexed \in BOOLEAN, NEW polled \in BOOLEAN, polled => indexed, Start(indexed, polled)
    PROVE  HInv
<1>1. InitTid = 1 /\ 1 \in 1..MaxTid /\ 1 \in Tid /\ MaxTid \in Nat
  BY MvccAssumption DEF InitTid, Tid
<1>2. EmptyMap \in [Oid -> Tid]
  BY Numbers DEF EmptyMap
<1>3. NewBucket(InitTid, Incomplete, EmptyMap) \in Bucket /\ Free \in Bucket
  BY <1>1, <1>2, Numbers DEF NewBucket, Free, Bucket
<1>4. NoPoll \in Poll /\ NoPoll.cur = None /\ NoPoll.new = None
  BY Numbers DEF NoPoll, Poll
<1>5. bucket \in [Slot -> Bucket] /\ maps \in [Slot -> Seq(Slot)]
  BY <1>3, Numbers DEF Start
<1>6. HeapType
  BY <1>4, <1>5 DEF Start, HeapType, Stages, Waiting
<1>7. TypeOK
  <2>1. cache \in [Oid -> SUBSET [tid : 1..MaxTid, frozen : BOOLEAN]]
    BY <1>1 DEF Start
  <2>2. \A s \in Slot : /\ bucket[s].hvt \in Tid /\ bucket[s].cst \in Tid \cup {Incomplete}
                        /\ bucket[s].open \in BOOLEAN /\ bucket[s].map \in [Oid -> Tid]
                        /\ \A k \in 1..Len(maps[s]) : maps[s][k] \in Slot
    BY <1>5 DEF Bucket
  <2>3. /\ history \in [Oid -> SUBSET (1..MaxTid)] /\ dbTid \in 1..MaxTid
        /\ object_index \in Slot \cup {None} /\ toDelete \in [Oid -> Tid]
        /\ lock \in Viewer \cup {NoViewer} /\ deployment \in Deployment
    BY <1>1, <1>2, Numbers DEF Start
  <2>4. /\ hvt \in [Viewer -> Tid] /\ detached \in [Viewer -> BOOLEAN]
        /\ index \in [Viewer -> Slot \cup {None}] /\ snapshot \in [Viewer -> Tid]
        /\ zodb \in [Viewer -> [Oid -> Tid]] /\ committed \in [Viewer -> Tid]
    BY <1>1, <1>2, Numbers DEF Start
  <2> QED BY <2>1, <2>2, <2>3, <2>4 DEF TypeOK
<1>8. StageInv /\ HistoryInv
  BY <1>1, <1>4, MvccAssumption
     DEF Start, StageInv, HistoryInv, Locked, HasNew, HasPolled, HasCurrent, Waiting
<1>9. HeadInv
  <2>1. \A s \in Slot : maps[s] # <<>> => maps[s] = <<1>> /\ s = 1
    BY DEF Start
  <2>2. \A i \in Roots \ {None} : i = 1 /\ maps[i] = <<1>>
    BY <1>4, Numbers DEF Start, Roots
  <2>3. Indexes \subseteq Roots \ {None}
    BY DEF Indexes, Roots
  <2> QED BY <2>1, <2>2, <2>3 DEF HeadInv
<1> QED BY <1>6, <1>7, <1>8, <1>9 DEF HInv

\* Every step keeps the invariant of the heap.
LEMMA NextHeap ==
    ASSUME HInv, [Next]_vars
    PROVE  HInv'
<1>1. ASSUME NEW v \in Viewer, PollStep(v) PROVE HInv'
  BY <1>1, PollStartHeap, QueryHeap, InitialPollHeap, RevertHeap, InstallHeap, BuildHeap, FindHeap,
     MoveViewerHeap, VacuumHeap, RemoveOldestHeap DEF PollStep
<1>2. ASSUME NEW v \in Viewer, LoadStep(v) PROVE HInv'
  BY <1>2, LoadHeap, LoadFromDatabaseHeap, LoadFailsHeap DEF LoadStep
<1>3. ASSUME NEW v \in Viewer, NEW oids \in SUBSET Oid, Commit(v, oids) PROVE HInv'
  BY <1>3, CommitHeap
<1>4. ASSUME NEW v \in Viewer, AfterTpcFinish(v) \/ Release(v) PROVE HInv'
  BY <1>4, FinishHeap
<1> QED BY <1>1, <1>2, <1>3, <1>4, ElseHeap DEF Next, NextPool

\* The invariant of the heap, for any deployment.
THEOREM HeapInvariant == Spec => []HInv
<1>1. Init => HInv
  BY StartHeap, MvccAssumption DEF Init
<1>2. HInv /\ [Next]_vars => HInv'
  BY NextHeap
<1> QED BY <1>1, <1>2, PTL DEF Spec

\* Every variable of the cache keeps its type, whatever the instances, the
\* other processes and a lagging replica do.
THEOREM CacheTypes == Spec => []TypeOK
<1>1. HInv => TypeOK
  BY DEF HInv
<1> QED BY <1>1, HeapInvariant, PTL

\* A step installs an index that is as new as the one before, or flushes.
LEMMA Forward ==
    ASSUME HInv, [Next]_vars, object_index # None, object_index' # None
    PROVE  bucket'[object_index'].hvt >= Front(object_index).hvt
<1>0. TypeOK /\ HeapType /\ StageInv
  BY DEF HInv
<1>1. object_index \in Indexes /\ object_index \in Slot /\ object_index \in Reachable
  BY InUse, IndexesReachable
<1>2. Front(object_index).hvt \in Nat /\ Front(object_index) = bucket[object_index]
  BY <1>0, <1>1, Numbers DEF TypeOK, Front
<1> DEFINE Same == object_index' = object_index /\ bucket'[object_index].hvt = bucket[object_index].hvt
<1>3. Same => bucket'[object_index'].hvt >= Front(object_index).hvt
  BY <1>2
<1>4. UNCHANGED <<object_index, bucket>> => Same
  OBVIOUS
<1> HIDE DEF Same
<1>5. ASSUME NEW v \in Viewer, InitialPoll(v) PROVE Same
  BY <1>4, <1>5 DEF InitialPoll, GotHereFirst, heap
<1>6. ASSUME NEW v \in Viewer, Install(v) PROVE bucket'[object_index'].hvt >= Front(object_index).hvt
  <2>1. CASE UNCHANGED <<object_index, bucket>>
    BY <1>3, <1>4, <2>1
  <2>2. ASSUME NEW s \in Slot, Front(object_index).hvt < poll[v].polled, object_index' = s,
               PushBucket(s, object_index, poll[v].polled, poll[v].since,
                          ChangesAfter(poll[v].since, snapshot[v]))
        PROVE  bucket'[object_index'].hvt >= Front(object_index).hvt
    <3>1. bucket'[s] = NewBucket(poll[v].polled, poll[v].since,
                                 ChangesAfter(poll[v].since, snapshot[v]))
      BY <2>2 DEF PushBucket
    <3>2. bucket'[s].hvt = poll[v].polled
      BY <3>1 DEF NewBucket
    <3>3. poll[v].polled \in Nat
      BY <1>0, Numbers DEF HeapType, Poll
    <3> QED BY <1>2, <2>2, <3>2, <3>3
  <2> QED BY <1>6, <2>1, <2>2 DEF Install, LosePoll, heap
<1>7. ASSUME NEW v \in Viewer, Build(v) PROVE Same
  <2>1. CASE UNCHANGED <<object_index, bucket>>
    BY <1>4, <2>1
  <2>2. ASSUME NEW s \in Slot, UNCHANGED object_index,
               PushBucket(s, CurrentIndex(v), poll[v].polled, poll[v].since,
                          ChangesAfter(poll[v].since, snapshot[v]))
        PROVE  Same
    BY <1>1, <2>2 DEF PushBucket, Same
  <2> QED BY <1>7, <2>1, <2>2 DEF Build, heap
<1>8. ASSUME NEW v \in Viewer, RemoveOldest(v) PROVE Same
  <2>1. PICK S \in SUBSET Oid : Removed(poll[v].new, maps[poll[v].new][Len(maps[poll[v].new])], S)
    BY <1>8, RemoveOldestRemoves
  <2>2. UNCHANGED object_index
    BY <1>8 DEF RemoveOldest
  <2> QED BY <1>1, <2>1, <2>2 DEF Removed, Same
<1>9. ASSUME NEW v \in Viewer, LoadFromDatabase(v) PROVE Same
  <2>1. ItemSet(index[v], loading[v][1], Actual(v))
    BY <1>9, LoadFromDatabaseHeap
  <2>2. UNCHANGED object_index
    BY <1>9 DEF LoadFromDatabase
  <2>3. bucket'[object_index].hvt = bucket[object_index].hvt
    BY <1>1, <2>1 DEF ItemSet
  <2> QED BY <2>2, <2>3 DEF Same
<1>10. ASSUME NEW v \in Viewer, PollStep(v) PROVE bucket'[object_index'].hvt >= Front(object_index).hvt
  <2>1. CASE UNCHANGED <<object_index, bucket>>
    BY <1>3, <1>4, <2>1
  <2>2. CASE Revert(v)
    BY <2>2 DEF Revert, FlushAll
  <2>3. CASE MoveViewer(v)
    BY <2>1, <2>3 DEF MoveViewer, LosePoll, heap
  <2>4. CASE \/ PollStart(v) \/ (\E s \in InitTid..MaxTid : Query(v, s)) \/ FindChanges(v)
             \/ CollectChanges(v) \/ DetachOldest(v) \/ Freeze(v) \/ VacuumDone(v)
    BY <2>1, <2>4
       DEF PollStart, Query, FindChanges, CollectChanges, DetachOldest, Freeze, VacuumDone, heap
  <2> QED BY <1>3, <1>5, <1>6, <1>7, <1>8, <1>10, <2>2, <2>3, <2>4 DEF PollStep
<1>11. ASSUME NEW v \in Viewer, LoadStep(v) PROVE bucket'[object_index'].hvt >= Front(object_index).hvt
  BY <1>3, <1>4, <1>9, <1>11
     DEF LoadStep, LoadWithoutIndex, LoadFromCache, LoadMiss, LoadConflict, LoadInconsistent, FlushAll, heap
<1>12. ASSUME \/ \E v \in Viewer :
                  (\E oids \in SUBSET Oid : Commit(v, oids)) \/ AfterTpcFinish(v) \/ Release(v)
              \/ \E oids \in SUBSET Oid : ExternalCommit(oids)
              \/ \E o \in Oid : Evict(o)
              \/ UNCHANGED vars
       PROVE  Same
  BY <1>4, <1>12 DEF Commit, AfterTpcFinish, Release, ExternalCommit, Evict, vars, heap
<1> QED BY <1>3, <1>10, <1>11, <1>12 DEF Next, NextPool

\* The coordinator's index goes forward unless it is flushed, whichever
\* viewers poll at once and whatever their replicas return.
THEOREM IndexGoesForward == Spec => IndexMovesForward
<1>1. HInv /\ [Next]_vars =>
         [object_index # None /\ object_index' # None =>
             bucket'[object_index'].hvt >= Front(object_index).hvt]_vars
  BY Forward
<1> QED BY <1>1, HeapInvariant, PTL DEF Spec, IndexMovesForward

-----------------------------------------------------------------------------
(* The tid of an object at a tid. *)

\* It grows with the tid.
LEMMA TidAtMonotone ==
    ASSUME TypeOK, NEW o \in Oid, NEW a \in Nat, NEW b \in Nat, a <= b
    PROVE  TidAt(o, a) <= TidAt(o, b)
<1>1. /\ TidAt(o, a) \in Nat /\ TidAt(o, b) \in Nat /\ TidAt(o, a) <= a
      /\ TidAt(o, a) # None => TidAt(o, a) \in history[o]
      /\ \A t \in history[o] : t <= b => t <= TidAt(o, b)
  BY TidAtNewest, Numbers
<1>2. CASE TidAt(o, a) = None
  BY <1>1, <1>2 DEF None
<1>3. CASE TidAt(o, a) # None
  BY <1>1, <1>3
<1> QED BY <1>2, <1>3

\* An object that did not change after a tid is the same since that tid.
LEMMA TidAtSame ==
    ASSUME TypeOK, NEW o \in Oid, NEW a \in Nat, NEW b \in Nat, a <= b, TidAt(o, b) <= a
    PROVE  TidAt(o, a) = TidAt(o, b)
<1>1. /\ TidAt(o, a) \in Nat /\ TidAt(o, b) \in Nat
      /\ TidAt(o, b) # None => TidAt(o, b) \in history[o]
      /\ \A t \in history[o] : t <= a => t <= TidAt(o, a)
  BY TidAtNewest, Numbers
<1>2. TidAt(o, a) <= TidAt(o, b)
  BY TidAtMonotone
<1>3. CASE TidAt(o, b) = None
  BY <1>1, <1>2, <1>3 DEF None
<1>4. CASE TidAt(o, b) # None
  BY <1>1, <1>2, <1>4
<1> QED BY <1>3, <1>4

\* One that is the same at two tids is the same between them.
LEMMA TidAtBetween ==
    ASSUME TypeOK, NEW o \in Oid, NEW a \in Nat, NEW b \in Nat, NEW m \in Nat, a <= m, m <= b,
           TidAt(o, a) = TidAt(o, b)
    PROVE  TidAt(o, m) = TidAt(o, a)
<1>1. TidAt(o, a) \in Nat /\ TidAt(o, b) \in Nat /\ TidAt(o, m) \in Nat
  BY TidAtNewest, Numbers
<1>2. TidAt(o, a) <= TidAt(o, m) /\ TidAt(o, m) <= TidAt(o, b)
  BY TidAtMonotone
<1> QED BY <1>1, <1>2

\* A commit does not change the past.
LEMMA WriteKeepsPast ==
    ASSUME TypeOK, HistoryInv, NEW oids \in SUBSET Oid, Write(oids), NEW o \in Oid, NEW s \in Nat,
           s <= dbTid
    PROVE  TidAt(o, s)' = TidAt(o, s)
<1>1. dbTid \in Nat /\ history'[o] = history[o] \cup (IF o \in oids THEN {dbTid + 1} ELSE {})
  BY WriteHistory, MvccAssumption DEF TypeOK
<1>2. {t \in history'[o] : t <= s} = {t \in history[o] : t <= s}
  BY <1>1
<1> QED BY <1>2 DEF TidAt

-----------------------------------------------------------------------------
(* Indexes. *)

\* The shape of an index in use.
LEMMA Shape ==
    ASSUME HInv, NEW i \in Indexes
    PROVE  /\ i \in Slot /\ i \in Reachable /\ 1 \in At(i) /\ At(i) \subseteq Nat \ {0}
           /\ Len(maps[i]) \in Nat /\ Len(maps[i]) \in At(i)
           /\ maps[i][1] = i
           /\ \A k \in At(i) : /\ maps[i][k] \in Slot /\ maps[i][k] \in Reachable
                               /\ HvtOf(i, k) \in Nat /\ k <= Len(maps[i])
                               /\ \A o \in Oid : Entry(i, k, o) \in Tid
<1>0. HeapType
  BY DEF HInv
<1>1. /\ i \in Slot /\ i \in Reachable /\ 1 \in At(i) /\ maps[i][1] = i
      /\ \A k \in At(i) : maps[i][k] \in Reachable
      /\ Reachable \subseteq Slot
  BY IndexesReachable
<1>2. maps[i] \in Seq(Slot)
  BY <1>0, <1>1 DEF HeapType
<1>3. Len(maps[i]) \in Nat
  BY <1>2
<1>4. At(i) \subseteq Nat \ {0} /\ Len(maps[i]) \in At(i) /\ \A k \in At(i) : k <= Len(maps[i])
  BY <1>1, <1>3 DEF At
<1>5. ASSUME NEW k \in At(i)
      PROVE  HvtOf(i, k) \in Nat /\ \A o \in Oid : Entry(i, k, o) \in Tid
  <2>1. bucket[maps[i][k]] \in Bucket
    BY <1>0, <1>1 DEF HeapType
  <2> QED BY <2>1, Numbers DEF Bucket, HvtOf, Entry
<1> QED BY <1>1, <1>3, <1>4, <1>5

\* No bucket is twice in an index, and the first one is the newest.
LEMMA Ordered ==
    ASSUME HInv, OrderInv, NEW i \in Indexes, NEW k \in At(i), NEW l \in At(i)
    PROVE  /\ maps[i][k] = maps[i][l] => k = l
           /\ k <= l => HvtOf(i, k) >= HvtOf(i, l)
           /\ HvtOf(i, k) > HvtOf(i, l) => k < l
<1>1. k \in Nat /\ l \in Nat /\ HvtOf(i, k) \in Nat /\ HvtOf(i, l) \in Nat
  BY Shape
<1>2. (k < l => HvtOf(i, k) > HvtOf(i, l)) /\ (l < k => HvtOf(i, l) > HvtOf(i, k))
  BY DEF OrderInv
<1>3. maps[i][k] = maps[i][l] => HvtOf(i, k) = HvtOf(i, l)
  BY DEF HvtOf
<1> QED BY <1>1, <1>2, <1>3

\* A step that leaves an index alone.
SameIndex(i) ==
    /\ maps'[i] = maps[i]
    /\ \A k \in At(i) : bucket'[maps[i][k]] = bucket[maps[i][k]]

\* Its buckets are the same.
LEMMA SameIndexSame ==
    ASSUME NEW i, SameIndex(i)
    PROVE  /\ At(i)' = At(i)
           /\ \A k \in At(i) : /\ HvtOf(i, k)' = HvtOf(i, k)
                               /\ (Open(i, k)' <=> Open(i, k))
                               /\ \A o \in Oid : Entry(i, k, o)' = Entry(i, k, o)
BY DEF SameIndex, At, HvtOf, Open, Entry

\* Steps that leave the heap alone; a commit may go on.
LEMMA SameHeapInv ==
    ASSUME HInv, HeapInv, UNCHANGED <<bucket, maps>>, Indexes' \subseteq Indexes,
           \A s \in Slot : bucket[s].hvt <= dbTid,
           \A o \in Oid, s \in Nat : s <= dbTid => TidAt(o, s)' = TidAt(o, s)
    PROVE  HeapInv'
<1>0. \A s \in Slot : bucket[s].hvt \in Nat
  BY Numbers DEF HInv, TypeOK
<1>1. \A i \in Indexes : At(i) \subseteq Nat /\ \A k \in At(i) : HvtOf(i, k) \in Nat /\ maps[i][k] \in Slot
  BY Shape
<1>2. /\ \A i : At(i)' = At(i)
      /\ \A i, k : HvtOf(i, k)' = HvtOf(i, k) /\ (Open(i, k)' <=> Open(i, k))
      /\ \A i, k, o : Entry(i, k, o)' = Entry(i, k, o)
  BY DEF At, HvtOf, Open, Entry
<1>3. \A o \in Oid, s \in Slot : TidAt(o, bucket[s].hvt)' = TidAt(o, bucket[s].hvt)
  <2> SUFFICES ASSUME NEW o \in Oid, NEW s \in Slot
               PROVE  TidAt(o, bucket[s].hvt)' = TidAt(o, bucket[s].hvt)
    OBVIOUS
  <2> DEFINE h == bucket[s].hvt
  <2>1. h \in Nat /\ h <= dbTid /\ h' = h
    BY <1>0
  <2> HIDE DEF h
  <2>2. TidAt(o, h)' = TidAt(o, h)
    BY <2>1 DEF TidAt
  <2> QED BY <2>2 DEF h
<1>4. \A i \in Indexes : \A k \in At(i), o \in Oid : TidAt(o, HvtOf(i, k))' = TidAt(o, HvtOf(i, k))
  BY <1>1, <1>3 DEF HvtOf
<1>5. OrderInv'
  BY <1>2 DEF HeapInv, OrderInv
<1>6. EntryInv'
  BY <1>3 DEF HeapInv, EntryInv
<1>7. LookupInv'
  <2>1. \A i \in Indexes : 1 \in At(i)
    BY Shape
  <2> QED BY <1>2, <1>4, <2>1 DEF HeapInv, LookupInv
<1>8. CoverInv'
  BY <1>2, <1>4 DEF HeapInv, CoverInv
<1>9. ClosedInv'
  BY <1>2 DEF HeapInv, ClosedInv
<1>10. SharedInv'
  BY <1>2, <1>4 DEF HeapInv, SharedInv
<1> QED BY <1>5, <1>6, <1>7, <1>8, <1>9, <1>10 DEF HeapInv

\* A bucket before those of an index: its own index, and the others the same.
PushedOn(s, i, h, since) ==
    /\ s \in Slot /\ s \notin Indexes /\ \A j \in Indexes : \A k \in At(j) : maps[j][k] # s
    /\ \A j \in Indexes : SameIndex(j)
    /\ At(s)' = 1..(Len(maps[i]) + 1)
    /\ maps'[s][1] = s /\ \A k \in At(i) : maps'[s][k + 1] = maps[i][k]
    /\ HvtOf(s, 1)' = h /\ Open(s, 1)'
    /\ \A o \in Oid : Entry(s, 1, o)' = IF TidAt(o, h) > since THEN TidAt(o, h) ELSE None
    /\ \A k \in At(i) : /\ HvtOf(s, k + 1)' = HvtOf(i, k) /\ (Open(s, k + 1)' <=> Open(i, k))
                        /\ \A o \in Oid : Entry(s, k + 1, o)' = Entry(i, k, o)
    /\ \A r \in Slot : \/ bucket'[r] = bucket[r]
                       \/ bucket'[r] = Free
                       \/ bucket'[r] = NewBucket(h, since, ChangesAfter(since, h))

\* That is what with_polled_changes makes.
LEMMA PushedOnIndex ==
    ASSUME HInv, NEW s, NEW i \in Indexes, NEW h \in Tid, NEW since \in Tid,
           PushBucket(s, i, h, since, ChangesAfter(since, h))
    PROVE  PushedOn(s, i, h, since)
<1>0. TypeOK /\ HeapType /\ h \in Nat
  BY Numbers DEF HInv
<1>1. i # None /\ i \in Slot /\ ChangesAfter(since, h) \in [Oid -> Tid]
  BY <1>0, IndexesReachable, ChangesType, Numbers
<1>2. /\ s \in Slot /\ s \notin Reachable
      /\ bucket'[s] = NewBucket(h, since, ChangesAfter(since, h))
      /\ maps'[s] = <<s>> \o maps[i]
      /\ \A r \in Reachable : bucket'[r] = bucket[r] /\ maps'[r] = maps[r]
      /\ \A r \in Slot : r # s /\ r \notin Reachable => bucket'[r] = Free
  BY <1>1, Pushed
<1>3. \A j \in Indexes : j \in Reachable /\ \A k \in At(j) : maps[j][k] \in Reachable
  BY Shape
<1>4. \A j \in Indexes : SameIndex(j)
  BY <1>2, <1>3 DEF SameIndex
<1>5. maps[i] \in Seq(Slot) /\ Len(maps[i]) \in Nat
  BY <1>0, <1>1 DEF HeapType
<1>6. /\ Len(maps'[s]) = Len(maps[i]) + 1 /\ maps'[s][1] = s
      /\ \A k \in 1..Len(maps[i]) : maps'[s][k + 1] = maps[i][k]
  BY <1>2, <1>5
<1>7. At(s)' = 1..(Len(maps[i]) + 1) /\ \A k \in At(i) : maps'[s][k + 1] = maps[i][k]
  BY <1>6 DEF At
<1>8. HvtOf(s, 1)' = h /\ Open(s, 1)'
  BY <1>2, <1>6 DEF HvtOf, Open, NewBucket
<1>9. \A o \in Oid : Entry(s, 1, o)' = IF TidAt(o, h) > since THEN TidAt(o, h) ELSE None
  BY <1>2, <1>6 DEF Entry, NewBucket, ChangesAfter
<1>10. ASSUME NEW k \in At(i)
       PROVE  /\ HvtOf(s, k + 1)' = HvtOf(i, k) /\ (Open(s, k + 1)' <=> Open(i, k))
              /\ \A o \in Oid : Entry(s, k + 1, o)' = Entry(i, k, o)
  <2>1. bucket'[maps'[s][k + 1]] = bucket[maps[i][k]]
    BY <1>2, <1>3, <1>7
  <2> QED BY <2>1 DEF HvtOf, Open, Entry
<1> QED BY <1>2, <1>3, <1>4, <1>6, <1>7, <1>8, <1>9, <1>10 DEF PushedOn

\* The positions of the new index.
LEMMA PushedPositions ==
    ASSUME HInv, NEW i \in Indexes, NEW k \in 1..(Len(maps[i]) + 1)
    PROVE  k \in Nat /\ (k # 1 => k > 1 /\ k - 1 \in At(i) /\ (k - 1) + 1 = k)
BY Shape DEF At

\* Pushing the changes since a tid that the index covers keeps the invariant.
LEMMA PushHeapInv ==
    ASSUME HInv, HeapInv, UNCHANGED history, NEW s, NEW i \in Indexes, NEW h \in Tid,
           NEW since \in Tid, PushBucket(s, i, h, since, ChangesAfter(since, h)),
           since <= Front(i).hvt, Front(i).hvt < h, Indexes' \subseteq Indexes \cup {s}
    PROVE  HeapInv'
<1>0. TypeOK /\ PushedOn(s, i, h, since) /\ h \in Nat /\ since \in Nat
  BY PushedOnIndex, Numbers DEF HInv
<1>1. \A o, a : TidAt(o, a)' = TidAt(o, a)
  BY DEF TidAt
<1>2. \A j \in Indexes : /\ maps'[j] = maps[j] /\ At(j)' = At(j)
                         /\ \A k \in At(j) : /\ HvtOf(j, k)' = HvtOf(j, k)
                                             /\ (Open(j, k)' <=> Open(j, k))
                                             /\ \A o \in Oid : Entry(j, k, o)' = Entry(j, k, o)
  BY <1>0, SameIndexSame DEF PushedOn, SameIndex
<1>3. HvtOf(i, 1) = Front(i).hvt /\ HvtOf(i, 1) \in Nat /\ 1 \in At(i)
  BY Shape DEF HvtOf, Front
<1>4. /\ At(s)' = 1..(Len(maps[i]) + 1) /\ HvtOf(s, 1)' = h /\ Open(s, 1)' /\ s \notin Indexes
      /\ \A o \in Oid : Entry(s, 1, o)' = IF TidAt(o, h) > since THEN TidAt(o, h) ELSE None
      /\ \A k \in At(i) : /\ HvtOf(s, k + 1)' = HvtOf(i, k) /\ (Open(s, k + 1)' <=> Open(i, k))
                          /\ \A o \in Oid : Entry(s, k + 1, o)' = Entry(i, k, o)
                          /\ maps'[s][k + 1] = maps[i][k]
  BY <1>0 DEF PushedOn
<1>5. ASSUME NEW o \in Oid, Entry(s, 1, o)' = None
      PROVE  TidAt(o, h) = TidAt(o, HvtOf(i, 1))
  <2>1. TidAt(o, h) \in Nat
    BY <1>0, TidAtNewest, Numbers
  <2>2. TidAt(o, h) <= since
    BY <1>0, <1>4, <1>5, <2>1 DEF None
  <2>3. TidAt(o, h) <= HvtOf(i, 1) /\ HvtOf(i, 1) <= h
    BY <1>0, <1>3, <2>1, <2>2
  <2> QED BY <1>0, <1>3, <2>3, TidAtSame
<1>6. OrderInv'
  <2> SUFFICES ASSUME NEW j \in Indexes', NEW k \in At(j)', NEW l \in At(j)', k < l
               PROVE  HvtOf(j, k)' > HvtOf(j, l)'
    BY DEF OrderInv
  <2>1. CASE j # s
    BY <1>2, <2>1 DEF HeapInv, OrderInv
  <2>2. CASE j = s
    <3>1. l > 1 /\ l - 1 \in At(i) /\ HvtOf(s, l)' = HvtOf(i, l - 1) /\ l \in Nat /\ k \in Nat
      BY <1>4, <2>2, PushedPositions
    <3>2. CASE k = 1
      <4>1. HvtOf(i, 1) >= HvtOf(i, l - 1) /\ HvtOf(i, l - 1) \in Nat
        BY <1>3, <3>1, Ordered, Shape DEF HeapInv
      <4> QED BY <1>0, <1>3, <1>4, <2>2, <3>1, <3>2, <4>1
    <3>3. CASE k # 1
      <4>1. k - 1 \in At(i) /\ HvtOf(s, k)' = HvtOf(i, k - 1)
        BY <1>4, <2>2, <3>3, PushedPositions
      <4>2. k - 1 < l - 1
        BY <3>1
      <4> QED BY <2>2, <3>1, <4>1, <4>2 DEF HeapInv, OrderInv
    <3> QED BY <3>2, <3>3
  <2> QED BY <2>1, <2>2
<1>7. EntryInv'
  <2> SUFFICES ASSUME NEW r \in Slot, NEW o \in Oid
               PROVE  /\ bucket'[r].map[o] \in {None, TidAt(o, bucket'[r].hvt)}
                      /\ bucket'[r].open /\ bucket'[r].cst # Incomplete
                            /\ TidAt(o, bucket'[r].hvt) > bucket'[r].cst
                         => bucket'[r].map[o] # None
    BY <1>1 DEF EntryInv
  <2>1. CASE bucket'[r] = bucket[r]
    BY <2>1 DEF HeapInv, EntryInv
  <2>2. CASE bucket'[r] = Free
    BY <2>2 DEF Free, EmptyMap
  <2>3. CASE bucket'[r] = NewBucket(h, since, ChangesAfter(since, h))
    <3>1. /\ bucket'[r].hvt = h /\ bucket'[r].cst = since
          /\ bucket'[r].map[o] = IF TidAt(o, h) > since THEN TidAt(o, h) ELSE None
      BY <2>3 DEF NewBucket, ChangesAfter
    <3>2. TidAt(o, h) \in Nat
      BY <1>0, TidAtNewest, Numbers
    <3> QED BY <1>0, <3>1, <3>2 DEF None
  <2> QED BY <1>0, <2>1, <2>2, <2>3 DEF PushedOn
<1>8. LookupInv'
  <2> SUFFICES ASSUME NEW j \in Indexes', NEW l \in At(j)', NEW o \in Oid,
                      Entry(j, l, o)' # None,
                      \A k \in At(j)' : k < l => Entry(j, k, o)' = None
               PROVE  Entry(j, l, o)' = TidAt(o, HvtOf(j, 1)')
    BY <1>1 DEF LookupInv
  <2>1. CASE j # s
    <3>1. j \in Indexes /\ 1 \in At(j)
      BY <2>1, Shape
    <3>2. Entry(j, l, o) = TidAt(o, HvtOf(j, 1))
      BY <1>2, <3>1 DEF HeapInv, LookupInv
    <3> QED BY <1>2, <3>1, <3>2
  <2>2. CASE j = s /\ l = 1
    BY <1>4, <2>2
  <2>3. CASE j = s /\ l # 1
    <3>1. l > 1 /\ l - 1 \in At(i) /\ Entry(s, l, o)' = Entry(i, l - 1, o) /\ l \in Nat
      BY <1>4, <2>3, PushedPositions
    <3>2. 1 \in At(s)'
      BY <1>4, Shape
    <3>3. Entry(s, 1, o)' = None
      BY <2>3, <3>1, <3>2
    <3>4. ASSUME NEW k \in At(i), k < l - 1 PROVE Entry(i, k, o) = None
      <4>1. k + 1 \in At(s)' /\ k + 1 < l
        BY <1>4, <3>1, <3>4, Shape DEF At
      <4> QED BY <1>4, <2>3, <4>1
    <3>5. Entry(i, l - 1, o) = TidAt(o, HvtOf(i, 1))
      BY <2>3, <3>1, <3>4 DEF HeapInv, LookupInv
    <3> QED BY <1>4, <1>5, <2>3, <3>1, <3>3, <3>5
  <2> QED BY <2>1, <2>2, <2>3
<1>9. CoverInv'
  <2> SUFFICES ASSUME NEW j \in Indexes', NEW k \in At(j)', NEW l \in At(j)', NEW o \in Oid, k < l,
                      \A m \in k..(l - 1) : Open(j, m)' /\ Entry(j, m, o)' = None
               PROVE  TidAt(o, HvtOf(j, k)') = TidAt(o, HvtOf(j, l)')
    BY <1>1 DEF CoverInv
  <2>1. CASE j # s
    <3>1. j \in Indexes /\ k \in At(j) /\ l \in At(j) /\ k \in Nat /\ l \in Nat
      BY <1>2, <2>1, Shape
    <3>2. \A m \in k..(l - 1) : m \in At(j)
      BY <3>1, Shape DEF At
    <3>3. TidAt(o, HvtOf(j, k)) = TidAt(o, HvtOf(j, l))
      BY <1>2, <3>1, <3>2 DEF HeapInv, CoverInv
    <3> QED BY <1>2, <3>1, <3>3
  <2>2. CASE j = s
    <3>1. l > 1 /\ l - 1 \in At(i) /\ HvtOf(s, l)' = HvtOf(i, l - 1) /\ l \in Nat /\ k \in Nat
      BY <1>4, <2>2, PushedPositions
    <3>2. ASSUME NEW a \in At(i), k <= a + 1, a < l - 1
          PROVE  TidAt(o, HvtOf(i, a)) = TidAt(o, HvtOf(i, l - 1))
      <4>1. ASSUME NEW m \in a..((l - 1) - 1) PROVE Open(i, m) /\ Entry(i, m, o) = None
        <5>1. m \in At(i) /\ m + 1 \in k..(l - 1)
          BY SMTT(30), <3>1, <3>2, <4>1, Shape DEF At
        <5> QED BY <1>4, <2>2, <5>1
      <4> QED BY <3>1, <3>2, <4>1 DEF HeapInv, CoverInv
    <3>3. CASE k = 1
      <4>1. Entry(s, 1, o)' = None
        BY <2>2, <3>1, <3>3
      <4>2. TidAt(o, h) = TidAt(o, HvtOf(i, 1))
        BY <1>5, <4>1
      <4>3. CASE l = 2
        BY <1>4, <2>2, <3>1, <3>3, <4>2, <4>3
      <4>4. CASE l # 2
        <5>1. TidAt(o, HvtOf(i, 1)) = TidAt(o, HvtOf(i, l - 1))
          BY <1>3, <3>1, <3>2, <3>3, <4>4
        <5> QED BY <1>4, <2>2, <3>1, <3>3, <4>2, <5>1
      <4> QED BY <4>3, <4>4
    <3>4. CASE k # 1
      <4>1. k - 1 \in At(i) /\ HvtOf(s, k)' = HvtOf(i, k - 1) /\ k <= (k - 1) + 1 /\ k - 1 < l - 1
        BY <1>4, <2>2, <3>1, <3>4, PushedPositions
      <4>2. TidAt(o, HvtOf(i, k - 1)) = TidAt(o, HvtOf(i, l - 1))
        BY <3>2, <4>1
      <4> QED BY <2>2, <3>1, <4>1, <4>2
    <3> QED BY <3>3, <3>4
  <2> QED BY <2>1, <2>2
<1>10. ClosedInv'
  <2> SUFFICES ASSUME NEW j \in Indexes', NEW k \in At(j)', NEW l \in At(j)', k < l, Open(j, l)'
               PROVE  Open(j, k)'
    BY DEF ClosedInv
  <2>1. CASE j # s
    BY <1>2, <2>1 DEF HeapInv, ClosedInv
  <2>2. CASE j = s /\ k = 1
    BY <1>4, <2>2
  <2>3. CASE j = s /\ k # 1
    <3>1. l > 1 /\ l - 1 \in At(i) /\ Open(i, l - 1) /\ l \in Nat /\ k \in Nat
      BY <1>4, <2>3, PushedPositions
    <3>2. k - 1 \in At(i) /\ (k - 1) + 1 = k /\ k - 1 < l - 1
      BY <1>4, <2>3, <3>1, PushedPositions
    <3>3. Open(i, k - 1)
      BY <3>1, <3>2 DEF HeapInv, ClosedInv
    <3> QED BY <1>4, <2>3, <3>2, <3>3
  <2> QED BY <2>1, <2>2, <2>3
<1>11. SharedInv'
  <2> SUFFICES ASSUME NEW x \in Indexes', NEW j \in Indexes', NEW a \in At(x)', NEW b \in At(j)',
                      NEW c \in At(j)', maps'[x][a] = maps'[j][b], b < c,
                      \A k \in At(x)' : maps'[x][k] # maps'[j][c]
               PROVE  /\ ~ Open(j, c)'
                      /\ \A o \in Oid : Entry(j, c, o)' \in {None, TidAt(o, HvtOf(j, b)')}
    BY <1>1 DEF SharedInv
  <2>0. \A y \in Indexes : \A k \in At(y) : maps[y][k] # s
    BY <1>0 DEF PushedOn
  <2>00. maps'[s][1] = s
    BY <1>0 DEF PushedOn
  <2>1. CASE x # s /\ j # s
    BY <1>2, <2>1 DEF HeapInv, SharedInv
  <2>2. CASE x = s /\ j # s
    <3>1. j \in Indexes /\ b \in At(j) /\ c \in At(j) /\ maps'[j] = maps[j]
      BY <1>2, <2>2
    <3>2. a # 1
      BY <2>0, <2>00, <2>2, <3>1
    <3>3. a - 1 \in At(i) /\ maps'[s][a] = maps[i][a - 1]
      BY <1>4, <2>2, <3>2, PushedPositions
    <3>4. ASSUME NEW k \in At(i) PROVE maps[i][k] # maps[j][c]
      <4>1. k + 1 \in At(s)'
        BY <1>4, Shape DEF At
      <4> QED BY <1>4, <2>2, <3>1, <4>1
    <3>5. /\ ~ Open(j, c)
          /\ \A o \in Oid : Entry(j, c, o) \in {None, TidAt(o, HvtOf(j, b))}
      BY <2>2, <3>1, <3>3, <3>4 DEF HeapInv, SharedInv
    <3> QED BY <1>2, <3>1, <3>5
  <2>3. CASE x # s /\ j = s
    <3>1. x \in Indexes /\ a \in At(x) /\ maps'[x] = maps[x]
      BY <1>2, <2>3
    <3>2. b # 1
      BY <2>0, <2>00, <2>3, <3>1
    <3>3. /\ b - 1 \in At(i) /\ maps'[s][b] = maps[i][b - 1] /\ HvtOf(s, b)' = HvtOf(i, b - 1)
          /\ b \in Nat /\ b >= 1
      BY <1>4, <2>3, <3>2, PushedPositions
    <3>4. c \in Nat /\ c # 1
      BY <1>4, <2>3, <3>3, PushedPositions
    <3>5. /\ c - 1 \in At(i) /\ maps'[s][c] = maps[i][c - 1] /\ (Open(s, c)' <=> Open(i, c - 1))
          /\ \A o \in Oid : Entry(s, c, o)' = Entry(i, c - 1, o)
      BY <1>4, <2>3, <3>4, PushedPositions
    <3>6. b - 1 < c - 1
      BY <3>3, <3>4
    <3>7. /\ ~ Open(i, c - 1)
          /\ \A o \in Oid : Entry(i, c - 1, o) \in {None, TidAt(o, HvtOf(i, b - 1))}
      <4>1. maps[x][a] = maps[i][b - 1] /\ \A k \in At(x) : maps[x][k] # maps[i][c - 1]
        BY <1>2, <2>3, <3>1, <3>3, <3>5
      <4> QED BY <3>1, <3>3, <3>5, <3>6, <4>1 DEF HeapInv, SharedInv
    <3> QED BY <2>3, <3>3, <3>5, <3>7
  <2>4. CASE x = s /\ j = s
    BY <2>4
  <2> QED BY <2>1, <2>2, <2>3, <2>4
<1> QED BY <1>6, <1>7, <1>8, <1>9, <1>10, <1>11 DEF HeapInv

\* An entry of a load in an open bucket keeps the invariant: the object did
\* not change between the bucket and the index.
LEMMA SetItemHeapInv ==
    ASSUME HInv, HeapInv, UNCHANGED <<history, maps>>, NEW i \in Indexes, NEW o \in Oid,
           NEW t \in Tid, t # None, t = TidAt(o, Front(i).hvt), ItemSet(i, o, t),
           Indexes' \subseteq Indexes
    PROVE  HeapInv'
<1>0. TypeOK /\ \A p, a : TidAt(p, a)' = TidAt(p, a)
  BY DEF HInv, TidAt
<1>1. HvtOf(i, 1) = Front(i).hvt /\ HvtOf(i, 1) \in Nat /\ 1 \in At(i)
  BY Shape DEF HvtOf, Front
<1>2. CASE bucket' = bucket
  <2>1. \A j : /\ At(j)' = At(j)
               /\ \A k : /\ HvtOf(j, k)' = HvtOf(j, k) /\ (Open(j, k)' <=> Open(j, k))
                         /\ \A p : Entry(j, k, p)' = Entry(j, k, p)
    BY <1>2 DEF At, HvtOf, Open, Entry
  <2>2. OrderInv' /\ ClosedInv'
    BY <2>1 DEF HeapInv, OrderInv, ClosedInv
  <2>3. EntryInv'
    BY <1>0, <1>2 DEF HeapInv, EntryInv
  <2>4. LookupInv'
    BY <1>0, <2>1 DEF HeapInv, LookupInv
  <2>5. CoverInv'
    BY <1>0, <2>1 DEF HeapInv, CoverInv
  <2>6. SharedInv'
    BY <1>0, <2>1 DEF HeapInv, SharedInv
  <2> QED BY <2>2, <2>3, <2>4, <2>5, <2>6 DEF HeapInv
<1>3. ASSUME NEW q \in At(i), NEW r, r = maps[i][q],
             bucket[r].open, t <= bucket[r].hvt,
             \A s \in Slot : s # r => bucket'[s] = bucket[s],
             bucket'[r].hvt = bucket[r].hvt, bucket'[r].cst = bucket[r].cst,
             bucket'[r].open = bucket[r].open,
             \A p \in Oid : bucket'[r].map[p] = IF p = o THEN t ELSE bucket[r].map[p]
      PROVE  HeapInv'
  <2>1. r \in Slot /\ bucket[r].hvt \in Nat /\ bucket[r].hvt <= HvtOf(i, 1)
    <3>1. r \in Slot /\ bucket[r].hvt = HvtOf(i, q) /\ HvtOf(i, q) \in Nat /\ 1 <= q
      BY <1>3, Shape DEF HvtOf
    <3>2. HvtOf(i, 1) >= HvtOf(i, q)
      BY <1>1, <3>1, Ordered DEF HeapInv
    <3> QED BY <1>1, <3>1, <3>2
  <2>2. TidAt(o, bucket[r].hvt) = t
    BY <1>0, <1>1, <1>3, <2>1, TidAtSame
  <2>3. bucket[r].map[o] \in {None, t}
    BY <2>1, <2>2 DEF HeapInv, EntryInv
  <2>4. \A j \in Indexes : /\ At(j)' = At(j) /\ maps'[j] = maps[j]
                           /\ \A k \in At(j) : maps[j][k] \in Slot
    BY Shape DEF At
  <2>5. \A j \in Indexes : \A k \in At(j) :
           /\ HvtOf(j, k)' = HvtOf(j, k)
           /\ (Open(j, k)' <=> Open(j, k))
           /\ \A p \in Oid : Entry(j, k, p)' = IF p = o /\ maps[j][k] = r THEN t ELSE Entry(j, k, p)
    <3> SUFFICES ASSUME NEW j \in Indexes, NEW k \in At(j)
                 PROVE  /\ HvtOf(j, k)' = HvtOf(j, k)
                        /\ (Open(j, k)' <=> Open(j, k))
                        /\ \A p \in Oid : Entry(j, k, p)' =
                               IF p = o /\ maps[j][k] = r THEN t ELSE Entry(j, k, p)
      OBVIOUS
    <3>1. CASE maps[j][k] = r
      BY <1>3, <2>4, <3>1 DEF HvtOf, Open, Entry
    <3>2. CASE maps[j][k] # r
      <4>1. bucket'[maps[j][k]] = bucket[maps[j][k]]
        BY <1>3, <2>4, <3>2
      <4> QED BY <3>2, <4>1 DEF HvtOf, Open, Entry
    <3> QED BY <3>1, <3>2
  <2>6. \A j \in Indexes : \A k \in At(j), p \in Oid : Entry(j, k, p)' = None => Entry(j, k, p) = None
    BY <2>5
  <2>7. OrderInv' /\ ClosedInv'
    BY <2>4, <2>5 DEF HeapInv, OrderInv, ClosedInv
  <2>8. EntryInv'
    <3> SUFFICES ASSUME NEW s \in Slot, NEW p \in Oid
                 PROVE  /\ bucket'[s].map[p] \in {None, TidAt(p, bucket'[s].hvt)}
                        /\ bucket'[s].open /\ bucket'[s].cst # Incomplete
                              /\ TidAt(p, bucket'[s].hvt) > bucket'[s].cst
                           => bucket'[s].map[p] # None
      BY <1>0 DEF EntryInv
    <3>1. /\ bucket[s].map[p] \in {None, TidAt(p, bucket[s].hvt)}
          /\ bucket[s].open /\ bucket[s].cst # Incomplete /\ TidAt(p, bucket[s].hvt) > bucket[s].cst
             => bucket[s].map[p] # None
      BY DEF HeapInv, EntryInv
    <3>2. CASE s # r
      BY <1>3, <3>1, <3>2
    <3>3. CASE s = r /\ p = o
      BY <1>3, <2>2, <3>3
    <3>4. CASE s = r /\ p # o
      <4>1. bucket'[s].map[p] = bucket[s].map[p]
        BY <1>3, <3>4
      <4>2. bucket'[s].hvt = bucket[s].hvt /\ bucket'[s].cst = bucket[s].cst
        BY <1>3, <3>4
      <4>3. bucket'[s].open <=> bucket[s].open
        BY <1>3, <3>4
      <4> QED BY <3>1, <4>1, <4>2, <4>3
    <3> QED BY <3>2, <3>3, <3>4
  <2>9. LookupInv'
    <3> SUFFICES ASSUME NEW j \in Indexes, NEW l \in At(j), NEW p \in Oid,
                        Entry(j, l, p)' # None,
                        \A k \in At(j) : k < l => Entry(j, k, p)' = None
                 PROVE  Entry(j, l, p)' = TidAt(p, HvtOf(j, 1)')
      BY <1>0, <2>4 DEF LookupInv
    <3>0. 1 \in At(j) /\ HvtOf(j, 1)' = HvtOf(j, 1) /\ l \in Nat \ {0}
      BY <2>5, Shape
    <3>1. \A k \in At(j) : k < l => Entry(j, k, p) = None
      BY <2>6
    <3>2. CASE Entry(j, l, p) # None
      <4>1. Entry(j, l, p) = TidAt(p, HvtOf(j, 1))
        BY <3>1, <3>2 DEF HeapInv, LookupInv
      <4>2. Entry(j, l, p)' = Entry(j, l, p)
        BY <2>3, <2>5, <3>2 DEF Entry
      <4> QED BY <3>0, <4>1, <4>2
    <3>3. CASE Entry(j, l, p) = None
      <4>1. p = o /\ maps[j][l] = r /\ Entry(j, l, p)' = t
        BY <2>5, <3>3
      <4>2. Open(j, l) /\ HvtOf(j, l) = bucket[r].hvt
        BY <1>3, <4>1 DEF Open, HvtOf
      <4>3. CASE l = 1
        BY <2>2, <3>0, <4>1, <4>2, <4>3
      <4>4. CASE l # 1
        <5>1. 1 < l
          BY <3>0, <4>4
        <5>2. ASSUME NEW m \in 1..(l - 1) PROVE Open(j, m) /\ Entry(j, m, o) = None
          <6>1. m \in At(j) /\ m < l
            BY <3>0, <5>2, Shape DEF At
          <6>2. Open(j, m)
            BY <4>2, <6>1 DEF HeapInv, ClosedInv
          <6> QED BY <3>1, <4>1, <6>1, <6>2
        <5>3. TidAt(o, HvtOf(j, 1)) = TidAt(o, HvtOf(j, l))
          BY <3>0, <5>1, <5>2 DEF HeapInv, CoverInv
        <5> QED BY <2>2, <3>0, <4>1, <4>2, <5>3
      <4> QED BY <4>3, <4>4
    <3> QED BY <3>2, <3>3
  <2>10. CoverInv'
    <3> SUFFICES ASSUME NEW j \in Indexes, NEW k \in At(j), NEW l \in At(j), NEW p \in Oid, k < l,
                        \A m \in k..(l - 1) : Open(j, m)' /\ Entry(j, m, p)' = None
                 PROVE  TidAt(p, HvtOf(j, k)') = TidAt(p, HvtOf(j, l)')
      BY <1>0, <2>4 DEF CoverInv
    <3>1. ASSUME NEW m \in k..(l - 1) PROVE Open(j, m) /\ Entry(j, m, p) = None
      <4>1. m \in At(j)
        BY <3>1, Shape DEF At
      <4> QED BY <2>5, <2>6, <4>1
    <3>2. TidAt(p, HvtOf(j, k)) = TidAt(p, HvtOf(j, l))
      BY <3>1 DEF HeapInv, CoverInv
    <3> QED BY <2>5, <3>2
  <2>11. SharedInv'
    <3> SUFFICES ASSUME NEW x \in Indexes, NEW j \in Indexes, NEW a \in At(x), NEW b \in At(j),
                        NEW c \in At(j), maps[x][a] = maps[j][b], b < c,
                        \A k \in At(x) : maps[x][k] # maps[j][c]
                 PROVE  /\ ~ Open(j, c)'
                        /\ \A p \in Oid : Entry(j, c, p)' \in {None, TidAt(p, HvtOf(j, b)')}
      BY <1>0, <2>4 DEF SharedInv
    <3>1. /\ ~ Open(j, c)
          /\ \A p \in Oid : Entry(j, c, p) \in {None, TidAt(p, HvtOf(j, b))}
      BY DEF HeapInv, SharedInv
    <3>2. maps[j][c] # r
      BY <1>3, <3>1 DEF Open
    <3> QED BY <2>5, <3>1, <3>2
  <2> QED BY <2>7, <2>8, <2>9, <2>10, <2>11 DEF HeapInv
<1>4. \/ bucket' = bucket
      \/ \E q \in At(i) :
            LET r == maps[i][q] IN
            /\ bucket[r].open /\ t <= bucket[r].hvt
            /\ \A s \in Slot : s # r => bucket'[s] = bucket[s]
            /\ bucket'[r].hvt = bucket[r].hvt /\ bucket'[r].cst = bucket[r].cst
            /\ bucket'[r].open = bucket[r].open
            /\ \A p \in Oid : bucket'[r].map[p] = IF p = o THEN t ELSE bucket[r].map[p]
  BY DEF ItemSet
<1> QED BY <1>2, <1>3, <1>4

\* Removing the oldest bucket of an index keeps the invariant: an entry that
\* another index loses is older than one that it has, or repeated further on.
LEMMA RemoveHeapInv ==
    ASSUME HInv, HeapInv, UNCHANGED history, NEW i, NEW old, NEW S, Removed(i, old, S),
           Indexes' \subseteq Indexes
    PROVE  HeapInv'
<1>0. TypeOK /\ \A p, a : TidAt(p, a)' = TidAt(p, a)
  BY DEF HInv, TidAt
<1> DEFINE n == Len(maps[i])
<1>1. /\ i \in Indexes /\ n \in Nat /\ n > 1 /\ old \in Slot /\ old = maps[i][n]
      /\ Len(maps'[i]) = n - 1 /\ \A k \in 1..(n - 1) : maps'[i][k] = maps[i][k]
      /\ \A s \in Slot : s # i => maps'[s] = maps[s]
  BY DEF Removed
<1>2. n \in At(i)
  BY <1>1, Shape
<1>3. /\ \A s \in Slot : s # old => bucket'[s] = bucket[s]
      /\ bucket'[old].hvt = bucket[old].hvt /\ bucket'[old].cst = bucket[old].cst
      /\ bucket'[old].open = FALSE
      /\ \A o \in Oid : bucket'[old].map[o] = IF o \in S THEN None ELSE bucket[old].map[o]
  BY DEF Removed
<1>4. ASSUME NEW o \in Oid, o \notin S, bucket[old].map[o] # None, NEW k \in 1..(n - 1),
             Entry(i, k, o) # None, \A l \in At(i) : l < k => Entry(i, l, o) = None
      PROVE  Entry(i, k, o) = bucket[old].map[o]
  BY <1>4 DEF Removed
<1> HIDE DEF n
<1>5. \A j \in Indexes : /\ At(j)' \subseteq At(j)
                         /\ \A k \in At(j)' : maps'[j][k] = maps[j][k]
                         /\ j # i => At(j)' = At(j)
  <2> SUFFICES ASSUME NEW j \in Indexes
               PROVE  /\ At(j)' \subseteq At(j)
                      /\ \A k \in At(j)' : maps'[j][k] = maps[j][k]
                      /\ j # i => At(j)' = At(j)
    OBVIOUS
  <2>1. CASE j = i
    <3>1. At(i)' = 1..(n - 1) /\ At(i) = 1..n
      BY <1>1 DEF At, n
    <3>2. 1..(n - 1) \subseteq 1..n
      BY <1>1
    <3> QED BY <1>1, <2>1, <3>1, <3>2
  <2>2. CASE j # i
    <3>1. maps'[j] = maps[j]
      BY <1>1, <2>2, Shape
    <3> QED BY <3>1 DEF At
  <2> QED BY <2>1, <2>2
<1>6. At(i)' = 1..(n - 1)
  BY <1>1 DEF At
<1>7. \A k \in At(i)' : k \in 1..(n - 1) /\ k \in At(i) /\ k < n /\ maps[i][k] # old
  <2> SUFFICES ASSUME NEW k \in At(i)' PROVE k \in At(i) /\ k < n /\ maps[i][k] # old
    BY <1>6
  <2>1. k \in At(i) /\ k < n /\ k # n
    BY <1>1, <1>5, <1>6
  <2> QED BY <1>1, <1>2, <2>1, Ordered DEF HeapInv
<1>8. \A j \in Indexes : \A k \in At(j)' :
         /\ HvtOf(j, k)' = HvtOf(j, k)
         /\ Open(j, k)' => Open(j, k) /\ maps[j][k] # old
         /\ \A o \in Oid : Entry(j, k, o)' =
               IF maps[j][k] = old /\ o \in S THEN None ELSE Entry(j, k, o)
  <2> SUFFICES ASSUME NEW j \in Indexes, NEW k \in At(j)'
               PROVE  /\ HvtOf(j, k)' = HvtOf(j, k)
                      /\ Open(j, k)' => Open(j, k) /\ maps[j][k] # old
                      /\ \A o \in Oid : Entry(j, k, o)' =
                            IF maps[j][k] = old /\ o \in S THEN None ELSE Entry(j, k, o)
    OBVIOUS
  <2>1. k \in At(j) /\ maps'[j][k] = maps[j][k] /\ maps[j][k] \in Slot
    BY <1>5, Shape
  <2>2. CASE maps[j][k] = old
    <3>1. ~ Open(j, k)' /\ HvtOf(j, k)' = HvtOf(j, k)
      BY <1>3, <2>1, <2>2 DEF Open, HvtOf
    <3>2. \A o \in Oid : Entry(j, k, o)' = IF o \in S THEN None ELSE Entry(j, k, o)
      BY <1>3, <2>1, <2>2 DEF Entry
    <3> QED BY <2>2, <3>1, <3>2
  <2>3. CASE maps[j][k] # old
    <3>1. bucket'[maps'[j][k]] = bucket[maps[j][k]]
      BY <1>3, <2>1, <2>3
    <3> QED BY <2>3, <3>1 DEF Open, HvtOf, Entry
  <2> QED BY <2>2, <2>3
<1>9. ASSUME NEW j \in Indexes, NEW c \in At(j), NEW l \in At(j), maps[j][c] = old, c < l
      PROVE  /\ ~ Open(j, l)
             /\ \A o \in Oid : Entry(j, l, o) \in {None, TidAt(o, HvtOf(j, c))}
  <2>1. ASSUME NEW k \in At(i) PROVE maps[i][k] # maps[j][l]
    <3>1. HvtOf(i, k) >= HvtOf(i, n)
      <4>1. k <= n
        BY Shape, <1>1 DEF n
      <4> QED BY <1>1, <1>2, <4>1, Ordered DEF HeapInv
    <3>2. HvtOf(i, n) = HvtOf(j, c) /\ HvtOf(j, c) > HvtOf(j, l)
      BY <1>1, <1>9 DEF HvtOf, HeapInv, OrderInv
    <3>3. HvtOf(i, k) \in Nat /\ HvtOf(j, c) \in Nat /\ HvtOf(j, l) \in Nat
      BY <1>1, Shape
    <3>4. HvtOf(i, k) # HvtOf(j, l)
      BY <3>1, <3>2, <3>3
    <3> QED BY <3>4 DEF HvtOf
  <2> QED BY <1>1, <1>2, <1>9, <2>1 DEF HeapInv, SharedInv
<1>10. OrderInv'
  BY <1>5, <1>8 DEF HeapInv, OrderInv
<1>11. EntryInv'
  <2> SUFFICES ASSUME NEW s \in Slot, NEW p \in Oid
               PROVE  /\ bucket'[s].map[p] \in {None, TidAt(p, bucket'[s].hvt)}
                      /\ bucket'[s].open /\ bucket'[s].cst # Incomplete
                            /\ TidAt(p, bucket'[s].hvt) > bucket'[s].cst
                         => bucket'[s].map[p] # None
    BY <1>0 DEF EntryInv
  <2>1. /\ bucket[s].map[p] \in {None, TidAt(p, bucket[s].hvt)}
        /\ bucket[s].open /\ bucket[s].cst # Incomplete /\ TidAt(p, bucket[s].hvt) > bucket[s].cst
           => bucket[s].map[p] # None
    BY DEF HeapInv, EntryInv
  <2>2. CASE s # old
    BY <1>3, <2>1, <2>2
  <2>3. CASE s = old
    BY <1>3, <2>1, <2>3
  <2> QED BY <2>2, <2>3
<1>12. LookupInv'
  <2> SUFFICES ASSUME NEW j \in Indexes, NEW l \in At(j)', NEW o \in Oid,
                      Entry(j, l, o)' # None,
                      \A k \in At(j)' : k < l => Entry(j, k, o)' = None
               PROVE  Entry(j, l, o)' = TidAt(o, HvtOf(j, 1)')
    BY <1>0 DEF LookupInv
  <2>0. l \in At(j) /\ 1 \in At(j) /\ Entry(j, l, o)' = Entry(j, l, o) /\ Entry(j, l, o) # None
    BY <1>5, <1>8, Shape
  <2>1. HvtOf(j, 1)' = HvtOf(j, 1)
    <3>1. 1 \in At(j)'
      BY <1>1, <1>5, <1>6, <2>0
    <3> QED BY <1>8, <3>1
  <2>2. \A k \in At(j) : k < l => k \in At(j)'
    <3>1. CASE j = i
      BY <1>1, <1>6, <3>1, Shape
    <3>2. CASE j # i
      BY <1>5, <3>2
    <3> QED BY <3>1, <3>2
  <2>3. CASE \A k \in At(j) : k < l => Entry(j, k, o) = None
    <3>1. Entry(j, l, o) = TidAt(o, HvtOf(j, 1))
      BY <2>0, <2>3 DEF HeapInv, LookupInv
    <3> QED BY <2>0, <2>1, <3>1
  <2>4. ASSUME NEW c \in At(j), c < l, Entry(j, c, o) # None
        PROVE  Entry(j, l, o)' = TidAt(o, HvtOf(j, 1)')
    <3>1. maps[j][c] = old
      BY <1>8, <2>2, <2>4
    <3>2. ASSUME NEW k \in At(j), k < c PROVE Entry(j, k, o) = None
      <4>1. k < l /\ k # c
        <5>1. k \in Nat /\ c \in Nat /\ l \in Nat
          BY <2>0, Shape
        <5> QED BY <2>4, <3>2, <5>1
      <4>2. maps[j][k] # old
        BY <3>1, <4>1, Ordered DEF HeapInv
      <4> QED BY <1>8, <2>2, <4>1, <4>2
    <3>3. Entry(j, c, o) = TidAt(o, HvtOf(j, 1))
      BY <2>4, <3>2 DEF HeapInv, LookupInv
    <3>4. Entry(j, c, o) = TidAt(o, HvtOf(j, c))
      BY <1>1, <2>4, <3>1 DEF HeapInv, EntryInv, Entry, HvtOf
    <3>5. Entry(j, l, o) = TidAt(o, HvtOf(j, c))
      BY <1>9, <2>0, <2>4, <3>1
    <3> QED BY <2>0, <2>1, <3>3, <3>4, <3>5
  <2> QED BY <2>3, <2>4
<1>13. CoverInv'
  <2> SUFFICES ASSUME NEW j \in Indexes, NEW k \in At(j)', NEW l \in At(j)', NEW o \in Oid, k < l,
                      \A m \in k..(l - 1) : Open(j, m)' /\ Entry(j, m, o)' = None
               PROVE  TidAt(o, HvtOf(j, k)') = TidAt(o, HvtOf(j, l)')
    BY <1>0 DEF CoverInv
  <2>1. k \in At(j) /\ l \in At(j)
    BY <1>5
  <2>2. ASSUME NEW m \in k..(l - 1) PROVE Open(j, m) /\ Entry(j, m, o) = None
    <3>1. m \in At(j)'
      <4>1. k \in Nat /\ k >= 1 /\ l \in Nat /\ At(j) = 1..Len(maps[j]) /\ Len(maps[j]) \in Nat
        BY <2>1, Shape DEF At
      <4>2. CASE j = i
        BY <1>1, <1>6, <2>2, <4>1, <4>2
      <4>3. CASE j # i
        <5>1. m \in At(j)
          BY <2>1, <2>2, <4>1
        <5> QED BY <1>5, <4>3, <5>1
      <4> QED BY <4>2, <4>3
    <3> QED BY <1>8, <3>1
  <2>3. TidAt(o, HvtOf(j, k)) = TidAt(o, HvtOf(j, l))
    BY <2>1, <2>2 DEF HeapInv, CoverInv
  <2> QED BY <1>8, <2>3
<1>14. ClosedInv'
  <2> SUFFICES ASSUME NEW j \in Indexes, NEW k \in At(j)', NEW l \in At(j)', k < l, Open(j, l)'
               PROVE  Open(j, k)'
    BY DEF ClosedInv
  <2>1. k \in At(j) /\ l \in At(j) /\ Open(j, l) /\ maps'[j][k] = maps[j][k]
    BY <1>5, <1>8
  <2>2. Open(j, k)
    BY <2>1 DEF HeapInv, ClosedInv
  <2>3. maps[j][k] # old
    BY <1>9, <2>1
  <2>4. bucket'[maps[j][k]] = bucket[maps[j][k]]
    BY <1>3, <2>1, <2>3, Shape
  <2> QED BY <2>1, <2>2, <2>4 DEF Open
<1>15. SharedInv'
  <2> SUFFICES ASSUME NEW x \in Indexes, NEW j \in Indexes, NEW a \in At(x)', NEW b \in At(j)',
                      NEW c \in At(j)', maps'[x][a] = maps'[j][b], b < c,
                      \A k \in At(x)' : maps'[x][k] # maps'[j][c]
               PROVE  /\ ~ Open(j, c)'
                      /\ \A o \in Oid : Entry(j, c, o)' \in {None, TidAt(o, HvtOf(j, b)')}
    BY <1>0 DEF SharedInv
  <2>1. /\ a \in At(x) /\ b \in At(j) /\ c \in At(j) /\ maps[x][a] = maps[j][b]
        /\ \A k \in At(x)' : maps[x][k] # maps[j][c]
    BY <1>5
  <2>2. CASE \A k \in At(x) : maps[x][k] # maps[j][c]
    <3>1. ~ Open(j, c) /\ \A o \in Oid : Entry(j, c, o) \in {None, TidAt(o, HvtOf(j, b))}
      BY <2>1, <2>2 DEF HeapInv, SharedInv
    <3> QED BY <1>8, <3>1
  <2>3. ASSUME NEW k \in At(x), maps[x][k] = maps[j][c]
        PROVE  /\ ~ Open(j, c)'
               /\ \A o \in Oid : Entry(j, c, o)' \in {None, TidAt(o, HvtOf(j, b)')}
    <3>1. x = i /\ k = n
      <4>1. k \notin At(x)'
        BY <2>1, <2>3
      <4>2. x = i
        BY <1>5, <4>1
      <4>3. k <= n /\ k \in Nat \ {0}
        BY <1>1, <4>2, Shape DEF n
      <4> QED BY <1>1, <1>6, <4>1, <4>2, <4>3
    <3>2. maps[j][c] = old
      BY <1>1, <2>3, <3>1
    <3>3. ~ Open(j, c)'
      BY <1>8, <3>2
    <3>4. ASSUME NEW o \in Oid, Entry(j, c, o)' # None
          PROVE  Entry(j, c, o)' = TidAt(o, HvtOf(j, b)')
      <4> DEFINE e == bucket[old].map[o]
      <4>1. o \notin S /\ Entry(j, c, o)' = e /\ e # None
        BY <1>8, <3>2, <3>4 DEF Entry
      <4>2. e = Entry(i, n, o) /\ e = TidAt(o, HvtOf(i, n))
        BY <1>1, <4>1 DEF HeapInv, EntryInv, Entry, HvtOf
      <4> HIDE DEF e
      <4>3. Lookup(i, o) # None
        BY <1>1, <1>2, <4>1, <4>2, LookupType
      <4>4. PICK f \in At(i) : Lookup(i, o) = Entry(i, f, o)
                               /\ \A m \in At(i) : m < f => Entry(i, m, o) = None
        BY <1>1, <4>3, LookupType
      <4>5. Entry(i, f, o) = TidAt(o, HvtOf(i, 1))
        BY <1>1, <4>3, <4>4 DEF HeapInv, LookupInv
      <4>6. Entry(i, f, o) = e
        <5>1. CASE f = n
          BY <4>2, <5>1
        <5>2. CASE f # n
          <6>1. f \in 1..(n - 1)
            BY <1>1, <5>2, Shape DEF n
          <6> QED BY <1>4, <4>1, <4>3, <4>4, <6>1 DEF e
        <5> QED BY <5>1, <5>2
      <4>7. /\ HvtOf(i, 1) >= HvtOf(i, a) /\ HvtOf(i, a) >= HvtOf(i, n)
            /\ HvtOf(i, 1) \in Nat /\ HvtOf(i, a) \in Nat /\ HvtOf(i, n) \in Nat
        <5>1. a \in At(i) /\ 1 <= a /\ a <= n /\ 1 \in At(i)
          BY <1>1, <2>1, <3>1, Shape DEF n
        <5> QED BY <1>1, <1>2, <5>1, Ordered, Shape DEF HeapInv
      <4>8. TidAt(o, HvtOf(i, a)) = e
        <5>1. TidAt(o, HvtOf(i, n)) = TidAt(o, HvtOf(i, 1))
          BY <4>2, <4>5, <4>6
        <5>2. HvtOf(i, n) <= HvtOf(i, a) /\ HvtOf(i, a) <= HvtOf(i, 1)
          BY <4>7
        <5> QED BY <1>0, <4>2, <4>7, <5>1, <5>2, TidAtBetween
      <4>9. HvtOf(j, b)' = HvtOf(i, a)
        <5>1. HvtOf(j, b)' = HvtOf(j, b)
          BY <1>8
        <5> QED BY <2>1, <3>1, <5>1 DEF HvtOf
      <4> QED BY <4>1, <4>8, <4>9
    <3> QED BY <3>3, <3>4
  <2> QED BY <2>2, <2>3
<1> QED BY <1>10, <1>11, <1>12, <1>13, <1>14, <1>15 DEF HeapInv

-----------------------------------------------------------------------------
(* Each step keeps the invariant of a pool. *)

\* The indexes that the viewers look into.
LEMMA PoolIndexes ==
    ASSUME HInv, PoolInv
    PROVE  /\ object_index \in Indexes
           /\ \A v \in Viewer :
                 /\ index[v] \in Indexes
                 /\ pc[v] \in {"query", "install", "build"} => poll[v].cur \in Indexes
                 /\ pc[v] \in HasNew => poll[v].new \in Indexes
<1>1. object_index \in Indexes /\ \A v \in Viewer : index[v] \in Indexes
  BY InUse DEF PoolInv, ViewerInv
<1>2. ASSUME NEW v \in Viewer, pc[v] \in {"query", "install", "build"} PROVE poll[v].cur \in Indexes
  <2>1. poll[v].cur # None
    BY <1>2 DEF PoolInv, ViewerInv, HInv, StageInv, HasCurrent
  <2> QED BY <1>2, <2>1, InUse
<1>3. ASSUME NEW v \in Viewer, pc[v] \in HasNew PROVE poll[v].new \in Indexes
  BY <1>3, InUse DEF HInv, StageInv
<1> QED BY <1>1, <1>2, <1>3

\* A step leaves a viewer where it is.
SameViewer(w) ==
    /\ pc'[w] = pc[w] /\ poll'[w] = poll[w] /\ index'[w] = index[w] /\ hvt'[w] = hvt[w]
    /\ snapshot'[w] = snapshot[w] /\ loading'[w] = loading[w]

\* The indexes keep their tids, the coordinator and the database go forward.
Onward ==
    /\ object_index' # None
    /\ bucket'[object_index'].hvt >= bucket[object_index].hvt /\ bucket'[object_index'].hvt \in Nat
    /\ \A i \in Indexes : bucket'[i].hvt = bucket[i].hvt
    /\ dbTid' \in Nat /\ dbTid' >= dbTid
    /\ \A o \in Oid, s \in Nat : s <= dbTid => TidAt(o, s)' = TidAt(o, s)

\* Then the others do not notice.
LEMMA OtherViewer ==
    ASSUME HInv, PoolInv, Onward, NEW w \in Viewer, SameViewer(w)
    PROVE  ViewerInv(w)'
<1>0. TypeOK /\ HeapType /\ StageInv /\ ViewerInv(w)
  BY DEF HInv, PoolInv
<1>1. /\ object_index \in Indexes /\ index[w] \in Indexes
      /\ pc[w] \in {"query", "install", "build"} => poll[w].cur \in Indexes
      /\ pc[w] \in HasNew => poll[w].new \in Indexes
  BY PoolIndexes
<1>2. /\ Front(object_index).hvt \in Nat /\ hvt[w] \in Nat /\ dbTid \in Nat /\ snapshot[w] \in Nat
      /\ poll[w].since \in Nat
  <2>1. object_index \in Slot
    BY <1>1, Shape
  <2>2. Front(object_index).hvt \in Tid /\ hvt[w] \in Tid /\ snapshot[w] \in Tid /\ poll[w].since \in Tid
    BY <1>0, <2>1 DEF TypeOK, Front, HeapType, Poll
  <2>3. dbTid \in Nat
    BY <1>0, MvccAssumption DEF TypeOK
  <2> QED BY <2>2, <2>3, Numbers
<1>3. index'[w] # None /\ pc'[w] \notin {"initial", "revert"} /\ (pc'[w] = "query" => poll'[w].cur # None)
  BY <1>0 DEF ViewerInv, SameViewer
<1>4. snapshot'[w] <= dbTid'
  BY <1>0, <1>2 DEF ViewerInv, SameViewer, Onward
<1>5. hvt'[w] = bucket'[index'[w]].hvt
  BY <1>0, <1>1 DEF ViewerInv, SameViewer, Onward, Front
<1>6. ASSUME pc'[w] \in {"query", "install", "build"}
      PROVE  poll'[w].since = bucket'[poll'[w].cur].hvt /\ poll'[w].since <= bucket'[object_index'].hvt
  <2>1. /\ poll'[w] = poll[w] /\ poll[w].cur \in Indexes
        /\ poll[w].since = bucket[poll[w].cur].hvt /\ poll[w].since <= bucket[object_index].hvt
    BY <1>0, <1>1, <1>6 DEF ViewerInv, SameViewer, Front
  <2>2. bucket[object_index].hvt \in Nat
    BY <1>2 DEF Front
  <2> QED BY <1>2, <2>1, <2>2 DEF Onward
<1>7. pc'[w] \in {"install", "build"} =>
         poll'[w].polled = snapshot'[w] /\ poll'[w].since <= poll'[w].polled
  BY <1>0 DEF ViewerInv, SameViewer
<1>8. pc'[w] \in {"find", "collect", "move"} => bucket'[poll'[w].new].hvt = snapshot'[w]
  BY <1>0, <1>1 DEF ViewerInv, SameViewer, Onward, HasNew, Front
<1>9. pc'[w] \in {"open", "loading"} \cup Locked => hvt'[w] = snapshot'[w]
  BY <1>0 DEF ViewerInv, SameViewer
<1>10. ASSUME pc'[w] = "loading"
       PROVE  (loading[w][2] \in {None, TidAt(loading[w][1], hvt[w])})'
  <2>1. /\ pc[w] = "loading" /\ loading'[w] = loading[w] /\ hvt'[w] = hvt[w]
        /\ loading[w][2] \in {None, TidAt(loading[w][1], hvt[w])}
        /\ hvt[w] = snapshot[w] /\ snapshot[w] <= dbTid
    BY <1>0, <1>10 DEF SameViewer, ViewerInv
  <2>2. loading[w][1] \in Oid
    BY <1>0, <2>1 DEF StageInv, HeapType
  <2>3. PICK o \in Oid : o = loading[w][1]
    BY <2>2
  <2>4. PICK s \in Nat : s = hvt[w] /\ s <= dbTid
    BY <1>2, <2>1
  <2>5. TidAt(o, s)' = TidAt(o, s)
    BY <2>4 DEF Onward
  <2>6. TidAt(loading[w][1], hvt[w])' = TidAt(o, s)'
    BY <2>1, <2>3, <2>4 DEF TidAt
  <2> QED BY <2>1, <2>3, <2>4, <2>5, <2>6
<1> QED BY <1>3, <1>4, <1>5, <1>6, <1>7, <1>8, <1>9, <1>10 DEF ViewerInv, Front

\* A step of one viewer.
LEMMA PoolStep ==
    ASSUME HInv, PoolInv, Onward, \A s \in Slot : bucket'[s].hvt <= dbTid', NEW v \in Viewer,
           \A w \in Viewer : w # v => SameViewer(w), ViewerInv(v)'
    PROVE  PoolInv'
<1>1. ASSUME NEW w \in Viewer PROVE ViewerInv(w)'
  <2>1. CASE w = v
    BY <2>1
  <2>2. CASE w # v
    BY <2>2, OtherViewer
  <2> QED BY <2>1, <2>2
<1> QED BY <1>1 DEF PoolInv, Onward

\* It gets its indexes from those in use.
LEMMA StepIndexes ==
    ASSUME NEW v \in Viewer, NEW S, \A w \in Viewer : w # v => SameViewer(w),
           object_index' \in Indexes \cup S \cup {None}, index'[v] \in Indexes \cup S \cup {None},
           poll'[v].new \in Indexes \cup S \cup {None}, poll'[v].cur \in Roots \cup S \cup {None},
           pc'[v] \notin {"vacuum", "freeze"} => poll'[v].cur \in Indexes \cup S \cup {None}
    PROVE  Indexes' \subseteq Indexes \cup S
<1>1. ASSUME NEW w \in Viewer
      PROVE  /\ index'[w] \in Indexes \cup S \cup {None}
             /\ poll'[w].new \in Indexes \cup S \cup {None}
             /\ poll'[w].cur \in Roots \cup S \cup {None}
             /\ pc'[w] \notin {"vacuum", "freeze"} => poll'[w].cur \in Indexes \cup S \cup {None}
  <2>1. CASE w = v
    BY <2>1
  <2>2. CASE w # v
    <3>1. index'[w] = index[w] /\ poll'[w] = poll[w] /\ pc'[w] = pc[w]
      BY <2>2 DEF SameViewer
    <3> QED BY <3>1, InUse
  <2> QED BY <2>1, <2>2
<1> QED BY <1>1, InUseNext

\* A step that leaves the tids of the buckets alone, and the database.
LEMMA QuietOnward ==
    ASSUME HInv, PoolInv, UNCHANGED <<history, dbTid, object_index>>,
           \A s \in Slot : bucket'[s].hvt = bucket[s].hvt
    PROVE  Onward /\ \A s \in Slot : bucket'[s].hvt <= dbTid'
<1>1. object_index # None /\ object_index \in Slot /\ \A s \in Slot : bucket[s].hvt <= dbTid
  BY PoolIndexes, Shape DEF PoolInv
<1>2. bucket[object_index].hvt \in Nat /\ dbTid \in Nat
  <2>1. bucket[object_index].hvt \in Tid
    BY <1>1 DEF HInv, TypeOK
  <2>2. dbTid \in Nat
    BY MvccAssumption DEF HInv, TypeOK
  <2> QED BY <2>1, <2>2, Numbers
<1>3. \A o \in Oid, s \in Nat : TidAt(o, s)' = TidAt(o, s)
  BY DEF TidAt
<1>4. \A i \in Indexes : bucket'[i].hvt = bucket[i].hvt
  BY Shape
<1> QED BY <1>1, <1>2, <1>3, <1>4 DEF Onward

\* What a step does: it leaves the heap alone, pushes a bucket, adds an
\* entry, or removes a bucket.
Stepped ==
    /\ Onward
    /\ \/ UNCHANGED <<bucket, maps>> /\ Indexes' \subseteq Indexes
       \/ \E s \in Slot, i \in Indexes, h \in Tid, since \in Tid :
             PushedOn(s, i, h, since) /\ Indexes' \subseteq Indexes \cup {s}
       \/ \E i \in Indexes, o \in Oid, t \in Tid :
             ItemSet(i, o, t) /\ UNCHANGED maps /\ Indexes' \subseteq Indexes
       \/ \E v \in Viewer, S \in SUBSET Oid :
             /\ RemoveOldest(v) /\ Indexes' \subseteq Indexes
             /\ Removed(poll[v].new, maps[poll[v].new][Len(maps[poll[v].new])], S)

\* One that leaves the heap alone.
LEMMA QuietPool ==
    ASSUME IInv, HInv', UNCHANGED <<history, dbTid, bucket, maps, object_index>>, NEW v \in Viewer,
           \A w \in Viewer : w # v => SameViewer(w), ViewerInv(v)',
           index'[v] \in Indexes, poll'[v].new \in Indexes \cup {None},
           poll'[v].cur \in Roots \cup {None},
           pc'[v] \notin {"vacuum", "freeze"} => poll'[v].cur \in Indexes \cup {None}
    PROVE  IInv' /\ Stepped
<1>0. HInv /\ PoolInv /\ HeapInv
  BY DEF IInv
<1>1. Onward /\ \A s \in Slot : bucket'[s].hvt <= dbTid'
  BY <1>0, QuietOnward
<1>2. PoolInv'
  BY <1>0, <1>1, PoolStep
<1>3. Indexes' \subseteq Indexes
  <2>1. /\ object_index' \in Indexes \cup {} \cup {None} /\ index'[v] \in Indexes \cup {} \cup {None}
        /\ poll'[v].new \in Indexes \cup {} \cup {None} /\ poll'[v].cur \in Roots \cup {} \cup {None}
        /\ pc'[v] \notin {"vacuum", "freeze"} => poll'[v].cur \in Indexes \cup {} \cup {None}
    BY InUse
  <2>2. Indexes' \subseteq Indexes \cup {}
    BY <2>1, StepIndexes
  <2> QED BY <2>2
<1>4. HeapInv'
  <2>1. /\ \A s \in Slot : bucket[s].hvt <= dbTid
        /\ \A o \in Oid, s \in Nat : s <= dbTid => TidAt(o, s)' = TidAt(o, s)
    BY <1>0, <1>1 DEF PoolInv, Onward
  <2> QED BY <1>0, <1>3, <2>1, SameHeapInv
<1> QED BY <1>1, <1>2, <1>3, <1>4 DEF IInv, Stepped

\* The start of a poll.
LEMMA PollStartPool ==
    ASSUME IInv, NEW v \in Viewer, PollStart(v)
    PROVE  IInv' /\ Stepped
<1>0. HInv /\ PoolInv /\ TypeOK /\ HeapType /\ ViewerInv(v) /\ HInv'
  BY PollStartHeap DEF IInv, HInv, PoolInv
<1>1. /\ pc' = [pc EXCEPT ![v] = "query"]
      /\ UNCHANGED <<history, dbTid, object_index, bucket, maps, hvt, index, snapshot, loading>>
  BY DEF PollStart, Goto, database, heap, viewer
<1> DEFINE p == [NoPoll EXCEPT !.cur = object_index,
                     !.since = IF object_index = None THEN 0 ELSE Front(object_index).hvt]
<1>2. object_index \in Indexes /\ object_index # None /\ index[v] \in Indexes
  BY <1>0, PoolIndexes DEF PoolInv
<1>3. /\ poll' = [poll EXCEPT ![v] = p] /\ p.cur = object_index /\ p.new = None
      /\ p.since = Front(object_index).hvt
  BY <1>2 DEF PollStart, NoPoll
<1> HIDE DEF p
<1>4. /\ poll'[v] = p /\ pc'[v] = "query"
      /\ \A w \in Viewer : w # v => SameViewer(w)
  BY <1>0, <1>1, <1>3 DEF HeapType, SameViewer
<1>5. Front(object_index).hvt \in Nat
  BY <1>0, <1>2, Shape, Numbers DEF TypeOK, Front
<1>6. ViewerInv(v)'
  BY <1>0, <1>1, <1>2, <1>3, <1>4, <1>5 DEF ViewerInv, Front, Locked
<1>7. /\ index'[v] \in Indexes /\ poll'[v].new \in Indexes \cup {None}
      /\ poll'[v].cur \in Roots \cup {None} /\ poll'[v].cur \in Indexes \cup {None}
  BY <1>0, <1>1, <1>2, <1>3, <1>4, IndexesReachable
<1> QED BY <1>0, <1>1, <1>4, <1>6, <1>7, QuietPool

\* The query.  A poll that goes back in time leaves the index behind.
LEMMA QueryPool ==
    ASSUME IInv, NEW v \in Viewer, NEW s \in InitTid..MaxTid, Query(v, s),
           \A d \in Deployment : ~ d.revert_when_stale
    PROVE  IInv' /\ Stepped
<1>0. HInv /\ PoolInv /\ TypeOK /\ HeapType /\ ViewerInv(v) /\ HInv'
  BY QueryHeap DEF IInv, HInv, PoolInv
<1>1. /\ pc[v] = "query" /\ snapshot' = [snapshot EXCEPT ![v] = s]
      /\ UNCHANGED <<history, dbTid, object_index, bucket, maps, hvt, index, loading>>
  BY DEF Query, database, heap, viewer
<1>2. poll[v].cur # None /\ ~ deployment.revert_when_stale
  BY <1>0, <1>1 DEF ViewerInv, TypeOK
<1>3. PICK q : /\ poll' = [poll EXCEPT ![v].polled = q]
               /\ q = IF deployment.replica \/ poll[v].cur = None \/ s > poll[v].since
                      THEN s ELSE poll[v].since
  BY DEF Query
<1>4. /\ poll'[v].polled = q /\ poll'[v].since = poll[v].since /\ poll'[v].cur = poll[v].cur
      /\ poll'[v].new = poll[v].new /\ \A w \in Viewer : w # v => poll'[w] = poll[w]
  BY <1>0, <1>3 DEF HeapType, Poll
<1>5. \/ pc' = [pc EXCEPT ![v] = "install"] /\ s >= poll[v].since
      \/ pc' = [pc EXCEPT ![v] = "stale"]
  BY <1>2 DEF Query, Goto
<1>6. s \in Nat /\ s <= dbTid /\ poll[v].since \in Nat
  <2>1. s \in Nat /\ dbTid \in Nat
    BY <1>0, MvccAssumption DEF InitTid, TypeOK
  <2>2. s \in InitTid..dbTid \/ s = dbTid
    BY DEF Query
  <2>3. poll[v].since \in Nat
    BY <1>0, Numbers DEF HeapType, Poll
  <2> QED BY <2>1, <2>2, <2>3 DEF InitTid
<1>7. /\ snapshot'[v] = s /\ \A w \in Viewer : w # v => SameViewer(w)
      /\ \/ pc'[v] = "install" /\ s >= poll[v].since
         \/ pc'[v] = "stale"
  BY <1>0, <1>1, <1>4, <1>5 DEF HeapType, TypeOK, SameViewer
<1>8. s >= poll[v].since => q = s
  BY <1>3, <1>6
<1>9. ViewerInv(v)'
  <2>1. CASE pc'[v] = "install" /\ s >= poll[v].since
    BY <1>0, <1>1, <1>4, <1>6, <1>7, <1>8, <2>1 DEF ViewerInv, Front, Locked
  <2>2. CASE pc'[v] = "stale"
    BY <1>0, <1>1, <1>4, <1>6, <1>7, <2>2 DEF ViewerInv, Front, Locked
  <2> QED BY <1>7, <2>1, <2>2
<1>10. /\ index'[v] \in Indexes /\ poll'[v].new \in Indexes \cup {None}
       /\ poll'[v].cur \in Roots \cup {None} /\ poll'[v].cur \in Indexes \cup {None}
  BY <1>0, <1>1, <1>4, InUse, PoolIndexes
<1> QED BY <1>0, <1>1, <1>7, <1>9, <1>10, QuietPool

\* A poll pushes the changes it found on an index that covers what is older.
LEMMA PushPool ==
    ASSUME IInv, HInv', NEW v \in Viewer, pc[v] \in {"install", "build"}, NEW s \in Slot,
           NEW i \in Indexes,
           PushBucket(s, i, poll[v].polled, poll[v].since, ChangesAfter(poll[v].since, snapshot[v])),
           poll[v].since <= Front(i).hvt, Front(i).hvt < poll[v].polled,
           object_index' = object_index \/ (object_index' = s /\ i = object_index),
           PollNext(v, s), pc' = [pc EXCEPT ![v] = "find"],
           UNCHANGED <<history, dbTid, hvt, index, snapshot, loading>>
    PROVE  IInv' /\ Stepped
<1>0. HInv /\ HeapInv /\ PoolInv /\ TypeOK /\ HeapType /\ ViewerInv(v)
  BY DEF IInv, HInv, PoolInv
<1> DEFINE h == snapshot[v]
           since == poll[v].since
<1>1. h \in Tid /\ h \in Nat /\ since \in Tid /\ poll[v].polled = h /\ h <= dbTid /\ dbTid \in Nat
  <2>1. h \in Tid /\ since \in Tid
    BY <1>0 DEF TypeOK, HeapType, Poll
  <2>2. dbTid \in Nat
    BY <1>0, MvccAssumption DEF TypeOK
  <2>3. poll[v].polled = h /\ h <= dbTid
    BY <1>0 DEF ViewerInv
  <2> QED BY <2>1, <2>2, <2>3, Numbers
<1>2. PushBucket(s, i, h, since, ChangesAfter(since, h))
  BY <1>1
<1>3. since <= Front(i).hvt /\ Front(i).hvt < h
  BY <1>1
<1> HIDE DEF h, since
<1>4. PushedOn(s, i, h, since)
  BY <1>0, <1>1, <1>2, PushedOnIndex
<1>5. \A j \in Indexes : bucket'[j] = bucket[j] /\ j \in Slot
  <2>1. \A j \in Indexes : SameIndex(j)
    BY <1>4 DEF PushedOn
  <2>2. \A j \in Indexes : maps[j][1] = j /\ 1 \in At(j) /\ j \in Slot
    BY <1>0, Shape
  <2> QED BY <2>1, <2>2 DEF SameIndex
<1>6. bucket'[s].hvt = h
  BY <1>4 DEF PushedOn, HvtOf
<1>7. \A r \in Slot : bucket'[r].hvt <= dbTid
  <2> SUFFICES ASSUME NEW r \in Slot PROVE bucket'[r].hvt <= dbTid
    OBVIOUS
  <2>1. CASE bucket'[r] = bucket[r]
    BY <1>0, <2>1 DEF PoolInv
  <2>2. CASE bucket'[r] = Free
    BY <1>1, <2>2 DEF Free
  <2>3. CASE bucket'[r] = NewBucket(h, since, ChangesAfter(since, h))
    BY <1>1, <2>3 DEF NewBucket
  <2> QED BY <1>4, <2>1, <2>2, <2>3 DEF PushedOn
<1>8. object_index \in Indexes /\ index[v] \in Indexes /\ object_index # None
  BY <1>0, PoolIndexes DEF PoolInv
<1>9. bucket[object_index].hvt \in Nat
  BY <1>0, <1>5, <1>8, Numbers DEF TypeOK
<1>10. Onward
  <2>1. \A o \in Oid, a \in Nat : TidAt(o, a)' = TidAt(o, a)
    BY DEF TidAt
  <2>2. object_index' # None
    BY <1>8, Numbers
  <2>3. bucket'[object_index'].hvt >= bucket[object_index].hvt /\ bucket'[object_index'].hvt \in Nat
    <3>1. CASE object_index' = object_index
      BY <1>5, <1>8, <1>9, <3>1
    <3>2. CASE object_index' = s /\ i = object_index
      BY <1>1, <1>3, <1>6, <1>9, <3>2 DEF Front
    <3> QED BY <3>1, <3>2
  <2> QED BY <1>1, <1>5, <2>1, <2>2, <2>3 DEF Onward
<1>11. /\ pc'[v] = "find" /\ poll'[v].new = s /\ poll'[v].cur = poll[v].cur
       /\ \A w \in Viewer : w # v => SameViewer(w)
  BY <1>0 DEF HeapType, PollNext, SameViewer
<1>12. ViewerInv(v)'
  <2>1. hvt[v] = bucket[index[v]].hvt /\ index[v] # None
    BY <1>0 DEF ViewerInv, Front
  <2>2. hvt'[v] = bucket'[index'[v]].hvt
    BY <1>5, <1>8, <2>1
  <2>3. bucket'[poll'[v].new].hvt = snapshot'[v] /\ snapshot'[v] <= dbTid'
    BY <1>1, <1>6, <1>11 DEF h
  <2> QED BY <1>11, <2>1, <2>2, <2>3 DEF ViewerInv, Front, Locked
<1>13. PoolInv'
  BY <1>0, <1>7, <1>10, <1>11, <1>12, PoolStep
<1>14. Indexes' \subseteq Indexes \cup {s}
  <2>1. /\ object_index' \in Indexes \cup {s} \cup {None} /\ index'[v] \in Indexes \cup {s} \cup {None}
        /\ poll'[v].new \in Indexes \cup {s} \cup {None} /\ poll'[v].cur \in Roots \cup {s} \cup {None}
        /\ pc'[v] \notin {"vacuum", "freeze"} => poll'[v].cur \in Indexes \cup {s} \cup {None}
    BY <1>8, <1>11, InUse
  <2> QED BY <1>11, <2>1, StepIndexes
<1>15. HeapInv'
  BY <1>0, <1>1, <1>2, <1>3, <1>14, PushHeapInv
<1>16. Stepped
  BY <1>1, <1>4, <1>10, <1>14 DEF Stepped
<1> QED BY <1>13, <1>15, <1>16 DEF IInv

\* Steps of a poll that only look at the heap.
LEMMA LookPool ==
    ASSUME IInv, HInv', NEW v \in Viewer, NEW new \in Indexes, PollNext(v, new),
           NEW p \in {"find", "collect", "move"},
           pc[v] \in {"install", "build", "find", "collect"}, Front(new).hvt = snapshot[v],
           pc' = [pc EXCEPT ![v] = p],
           UNCHANGED <<database, object_index, heap, viewer, snapshot, loading>>
    PROVE  IInv' /\ Stepped
<1>0. HInv /\ PoolInv /\ TypeOK /\ HeapType /\ ViewerInv(v)
  BY DEF IInv, HInv, PoolInv
<1>1. UNCHANGED <<history, dbTid, object_index, bucket, maps, hvt, index, snapshot, loading>>
  BY DEF database, viewer, heap
<1>2. /\ pc'[v] = p /\ poll'[v].new = new /\ poll'[v].cur = poll[v].cur
      /\ \A w \in Viewer : w # v => SameViewer(w)
  BY <1>0, <1>1 DEF HeapType, PollNext, SameViewer
<1>3. ViewerInv(v)'
  BY <1>0, <1>1, <1>2 DEF ViewerInv, Front, Locked
<1>4. /\ index'[v] \in Indexes /\ poll'[v].new \in Indexes \cup {None}
      /\ poll'[v].cur \in Roots \cup {None} /\ poll'[v].cur \in Indexes \cup {None}
  BY <1>0, <1>1, <1>2, InUse, PoolIndexes
<1> QED BY <1>0, <1>1, <1>2, <1>3, <1>4, QuietPool

\* The first locked section.
LEMMA InstallPool ==
    ASSUME IInv, NEW v \in Viewer, Install(v)
    PROVE  IInv' /\ Stepped
<1>0. HInv /\ PoolInv /\ TypeOK /\ HeapType /\ ViewerInv(v) /\ HInv'
  BY InstallHeap DEF IInv, HInv, PoolInv
<1>1. /\ pc[v] = "install" /\ object_index # None
      /\ UNCHANGED <<database, cache, toDelete, lock, snapshot, loading, committed, deployment>>
  BY <1>0 DEF Install, PoolInv
<1>2. /\ object_index \in Indexes /\ object_index \in Slot
      /\ poll[v].since <= Front(object_index).hvt /\ poll[v].polled = snapshot[v]
  BY <1>0, <1>1, PoolIndexes, Shape DEF ViewerInv
<1>3. ASSUME Front(object_index).hvt < poll[v].polled, NEW s \in Slot,
             PushBucket(s, object_index, poll[v].polled, poll[v].since,
                        ChangesAfter(poll[v].since, snapshot[v])),
             object_index' = s, poll' = [poll EXCEPT ![v].new = s, ![v].moved = TRUE],
             Goto(v, "find"), UNCHANGED <<viewer, zodb>>
      PROVE  IInv' /\ Stepped
  <2>1. PollNext(v, s)
    BY <1>0, <1>3, PollNew
  <2>2. UNCHANGED <<history, dbTid, hvt, index, snapshot, loading>> /\ pc' = [pc EXCEPT ![v] = "find"]
    BY <1>1, <1>3 DEF database, viewer, Goto
  <2> QED BY <1>0, <1>1, <1>2, <1>3, <2>1, <2>2, PushPool
<1>4. CASE /\ NoWork(v)
           /\ poll' = [poll EXCEPT ![v].new = object_index]
           /\ Goto(v, "find")
           /\ UNCHANGED <<object_index, heap, viewer, zodb>>
  <2>1. PollNext(v, object_index)
    BY <1>0, <1>2, <1>4, PollNew
  <2>2. Front(object_index).hvt = snapshot[v]
    BY <1>2, <1>4 DEF NoWork
  <2> QED BY <1>0, <1>1, <1>2, <1>4, <2>1, <2>2, LookPool DEF Goto
<1>5. CASE /\ Goto(v, "build")
           /\ UNCHANGED <<object_index, heap, viewer, poll, zodb>>
  <2>1. UNCHANGED <<history, dbTid, object_index, bucket, maps, hvt, index, snapshot, loading, poll>>
    BY <1>1, <1>5 DEF database, viewer, heap
  <2>2. pc'[v] = "build" /\ \A w \in Viewer : w # v => SameViewer(w)
    BY <1>0, <1>5, <2>1 DEF HeapType, SameViewer, Goto
  <2>3. ViewerInv(v)'
    BY <1>0, <1>1, <2>1, <2>2 DEF ViewerInv, Front, Locked
  <2>4. /\ index'[v] \in Indexes /\ poll'[v].new \in Indexes \cup {None}
        /\ poll'[v].cur \in Roots \cup {None} /\ poll'[v].cur \in Indexes \cup {None}
    BY <1>0, <1>1, <2>1, InUse, PoolIndexes
  <2> QED BY <1>0, <2>1, <2>2, <2>3, <2>4, QuietPool
<1> QED BY <1>1, <1>3, <1>4, <1>5 DEF Install, LosePoll

\* An index of the viewer's own.
LEMMA BuildPool ==
    ASSUME IInv, NEW v \in Viewer, Build(v)
    PROVE  IInv' /\ Stepped
<1>0. HInv /\ PoolInv /\ TypeOK /\ HeapType /\ ViewerInv(v) /\ HInv'
  BY BuildHeap DEF IInv, HInv, PoolInv
<1>1. /\ pc[v] = "build" /\ pc' = [pc EXCEPT ![v] = "find"]
      /\ UNCHANGED <<database, object_index, viewer, snapshot, loading>>
  BY DEF Build, Goto
<1>2. poll[v].cur \in Indexes /\ poll[v].cur \in Slot
  BY <1>0, <1>1, PoolIndexes, Shape
<1>3. poll[v].since = Front(poll[v].cur).hvt /\ poll[v].polled = snapshot[v] /\ Front(poll[v].cur).hvt \in Nat
  BY <1>0, <1>1, <1>2, Numbers DEF ViewerInv, TypeOK, Front
<1>4. CASE poll[v].polled = poll[v].since /\ poll' = [poll EXCEPT ![v].new = poll[v].cur] /\ UNCHANGED heap
  <2>1. PollNext(v, poll[v].cur)
    BY <1>0, <1>2, <1>4, PollNew
  <2>2. Front(poll[v].cur).hvt = snapshot[v]
    BY <1>3, <1>4
  <2> QED BY <1>0, <1>1, <1>2, <1>4, <2>1, <2>2, LookPool
<1>5. ASSUME poll[v].polled > poll[v].since, NEW s \in Slot,
             PushBucket(s, poll[v].cur, poll[v].polled, poll[v].since,
                        ChangesAfter(poll[v].since, snapshot[v])),
             poll' = [poll EXCEPT ![v].new = s]
      PROVE  IInv' /\ Stepped
  <2>1. PollNext(v, s)
    BY <1>0, <1>5, PollNew
  <2>2. UNCHANGED <<history, dbTid, hvt, index, snapshot, loading, object_index>>
    BY <1>1 DEF database, viewer
  <2>3. poll[v].since <= Front(poll[v].cur).hvt /\ Front(poll[v].cur).hvt < poll[v].polled
    <3>1. poll[v].polled \in Nat
      BY <1>0, Numbers DEF HeapType, Poll
    <3> QED BY <1>3, <1>5, <3>1
  <2> QED BY <1>0, <1>1, <1>2, <1>5, <2>1, <2>2, <2>3, PushPool
<1> QED BY <1>4, <1>5 DEF Build, CurrentIndex

\* The changes for the viewer.
LEMMA FindPool ==
    ASSUME IInv, NEW v \in Viewer, FindChanges(v) \/ CollectChanges(v)
    PROVE  IInv' /\ Stepped
<1>0. HInv /\ PoolInv /\ TypeOK /\ HeapType /\ ViewerInv(v) /\ HInv'
  BY FindHeap DEF IInv, HInv, PoolInv
<1>1. /\ pc[v] \in {"find", "collect"}
      /\ UNCHANGED <<database, object_index, heap, viewer, snapshot, loading>>
  BY DEF FindChanges, CollectChanges
<1>2. poll[v].new \in Indexes /\ Front(poll[v].new).hvt = snapshot[v]
  BY <1>0, <1>1, PoolIndexes DEF HasNew, ViewerInv
<1>3. PollNext(v, poll[v].new)
  <2>1. UNCHANGED poll \/ \E c \in SUBSET Oid : poll' = [poll EXCEPT ![v].changes = c]
    BY DEF FindChanges, CollectChanges
  <2>2. CASE UNCHANGED poll
    BY <1>0, <2>2 DEF HeapType, PollNext
  <2>3. ASSUME NEW c \in SUBSET Oid, poll' = [poll EXCEPT ![v].changes = c]
        PROVE  PollNext(v, poll[v].new)
    BY <1>0, <2>3, PollChanges
  <2> QED BY <2>1, <2>2, <2>3
<1>4. \E p \in {"collect", "move"} : pc' = [pc EXCEPT ![v] = p]
  BY DEF FindChanges, CollectChanges, Goto
<1> QED BY <1>0, <1>1, <1>2, <1>3, <1>4, LookPool

\* The second locked section.
LEMMA MoveViewerPool ==
    ASSUME IInv, NEW v \in Viewer, MoveViewer(v)
    PROVE  IInv' /\ Stepped
<1>0. HInv /\ PoolInv /\ TypeOK /\ HeapType /\ ViewerInv(v) /\ HInv'
  BY MoveViewerHeap DEF IInv, HInv, PoolInv
<1>1. /\ pc[v] = "move" /\ object_index # None
      /\ UNCHANGED <<history, dbTid, snapshot, loading>>
  BY <1>0 DEF MoveViewer, PoolInv, database
<1>2. /\ SetViewerState(v, poll[v].new)
      /\ \/ Goto(v, "detach") /\ UNCHANGED poll
         \/ Goto(v, "open") /\ poll' = [poll EXCEPT ![v] = NoPoll]
      /\ UNCHANGED <<object_index, bucket, maps>>
  BY <1>1 DEF MoveViewer, LosePoll, heap
<1>3. poll[v].new \in Indexes /\ poll[v].new # None /\ Front(poll[v].new).hvt = snapshot[v]
  BY <1>0, <1>1, PoolIndexes, Shape, Numbers DEF HasNew, ViewerInv
<1>4. index' = [index EXCEPT ![v] = poll[v].new] /\ hvt' = [hvt EXCEPT ![v] = snapshot[v]]
  BY <1>2, <1>3 DEF SetViewerState
<1>5. /\ index'[v] = poll[v].new /\ hvt'[v] = snapshot[v]
      /\ \A w \in Viewer : w # v => SameViewer(w)
      /\ pc'[v] \in {"open", "detach"}
      /\ poll'[v] = poll[v] \/ poll'[v] = NoPoll
  BY <1>0, <1>1, <1>2, <1>4 DEF HeapType, TypeOK, SameViewer, Goto
<1>6. ViewerInv(v)'
  BY <1>0, <1>1, <1>2, <1>3, <1>5 DEF ViewerInv, Front
<1>7. /\ index'[v] \in Indexes /\ poll'[v].new \in Indexes \cup {None}
      /\ poll'[v].cur \in Roots \cup {None} /\ poll'[v].cur \in Indexes \cup {None}
  <2>1. NoPoll.cur = None /\ NoPoll.new = None
    BY DEF NoPoll
  <2> QED BY <1>1, <1>3, <1>5, <2>1, InUse
<1> QED BY <1>0, <1>1, <1>2, <1>5, <1>6, <1>7, QuietPool

\* The vacuum cuts off viewers, freezes a bucket, ends.
LEMMA VacuumPool ==
    ASSUME IInv, NEW v \in Viewer, DetachOldest(v) \/ Freeze(v) \/ VacuumDone(v)
    PROVE  IInv' /\ Stepped
<1>0. HInv /\ PoolInv /\ TypeOK /\ HeapType /\ ViewerInv(v) /\ HInv'
  BY VacuumHeap DEF IInv, HInv, PoolInv
<1>1. /\ pc[v] \in Locked
      /\ UNCHANGED <<history, dbTid, object_index, bucket, maps, hvt, index, snapshot, loading>>
  BY DEF DetachOldest, Freeze, VacuumDone, Locked, database, heap, viewer
<1>2. /\ \A w \in Viewer : w # v => SameViewer(w)
      /\ \/ pc'[v] = "vacuum" /\ poll'[v] = poll[v]
         \/ pc'[v] = "open" /\ poll'[v] = NoPoll
  BY <1>0, <1>1 DEF DetachOldest, Freeze, VacuumDone, HeapType, Goto, SameViewer
<1>3. ViewerInv(v)'
  BY <1>0, <1>1, <1>2 DEF ViewerInv, Front, Locked
<1>4. /\ index'[v] \in Indexes /\ poll'[v].new \in Indexes \cup {None}
      /\ poll'[v].cur \in Roots \cup {None}
      /\ pc'[v] \notin {"vacuum", "freeze"} => poll'[v].cur \in Indexes \cup {None}
  <2>1. NoPoll.cur = None /\ NoPoll.new = None
    BY DEF NoPoll
  <2>2. index[v] \in Indexes
    BY <1>0, PoolIndexes
  <2> QED BY <1>1, <1>2, <2>1, <2>2, InUse
<1> QED BY <1>0, <1>1, <1>2, <1>3, <1>4, QuietPool

\* It removes the oldest bucket.
LEMMA RemoveOldestPool ==
    ASSUME IInv, NEW v \in Viewer, RemoveOldest(v)
    PROVE  IInv' /\ Stepped
<1>0. HInv /\ HeapInv /\ PoolInv /\ TypeOK /\ HeapType /\ ViewerInv(v) /\ HInv'
  BY RemoveOldestHeap DEF IInv, HInv, PoolInv
<1> DEFINE i == poll[v].new
           old == maps[i][Len(maps[i])]
<1>1. /\ pc[v] = "vacuum" /\ poll' = [poll EXCEPT ![v].cur = old]
      /\ pc' = [pc EXCEPT ![v] = "freeze"]
      /\ UNCHANGED <<history, dbTid, object_index, hvt, index, snapshot, loading>>
  BY DEF RemoveOldest, Depth, Goto, database, viewer
<1>2. PICK S \in SUBSET Oid : Removed(i, old, S)
  BY <1>0, RemoveOldestRemoves
<1> HIDE DEF old, i
<1>3. /\ pc'[v] = "freeze" /\ poll'[v].cur = old /\ poll'[v].new = poll[v].new
      /\ \A w \in Viewer : w # v => SameViewer(w)
  BY <1>0, <1>1 DEF HeapType, Poll, SameViewer
<1>4. \A s \in Slot : bucket'[s].hvt = bucket[s].hvt
  BY <1>2 DEF Removed
<1>5. Onward /\ \A s \in Slot : bucket'[s].hvt <= dbTid'
  BY <1>0, <1>1, <1>4, QuietOnward
<1>6. index[v] \in Indexes /\ index[v] \in Slot
  BY <1>0, PoolIndexes, Shape
<1>7. ViewerInv(v)'
  BY <1>0, <1>1, <1>3, <1>4, <1>6 DEF ViewerInv, Front, Locked
<1>8. PoolInv'
  BY <1>0, <1>3, <1>5, <1>7, PoolStep
<1>9. Indexes' \subseteq Indexes
  BY <1>1, <1>3 DEF Indexes, SameViewer
<1>10. HeapInv'
  BY <1>0, <1>1, <1>2, <1>9, RemoveHeapInv
<1>11. Stepped
  BY <1>2, <1>5, <1>9 DEF Stepped, i, old
<1> QED BY <1>0, <1>8, <1>10, <1>11 DEF IInv

\* What the database returns is not from the future of the viewer, and is
\* what its index expects.
LEMMA LoadIsConsistent ==
    ASSUME IInv, NEW v \in Viewer, pc[v] = "loading"
    PROVE  /\ ~ FromFuture(v) /\ ~ Inconsistent(v)
           /\ loading[v][1] \in Oid /\ index[v] \in Indexes /\ snapshot[v] = Front(index[v]).hvt
           /\ Actual(v) = TidAt(loading[v][1], Front(index[v]).hvt)
           /\ Actual(v) \in 1..MaxTid
<1>0. HInv /\ PoolInv /\ TypeOK /\ HeapType /\ StageInv /\ HistoryInv /\ ViewerInv(v)
  BY DEF IInv, HInv, PoolInv
<1>1. /\ loading[v] # <<>> /\ snapshot[v] # 0 /\ hvt[v] = snapshot[v] /\ hvt[v] = Front(index[v]).hvt
      /\ loading[v][2] \in {None, TidAt(loading[v][1], hvt[v])}
  BY <1>0 DEF StageInv, ViewerInv
<1>2. loading[v][1] \in Oid
  BY <1>0, <1>1 DEF HeapType
<1>3. snapshot[v] \in Nat \ {0}
  BY <1>0, <1>1, Numbers DEF TypeOK
<1>4. Actual(v) \in 1..MaxTid /\ Actual(v) <= snapshot[v] /\ Actual(v) = TidAt(loading[v][1], hvt[v])
  <2>1. Actual(v) = TidAt(loading[v][1], snapshot[v])
    BY DEF Actual
  <2>2. TidAt(loading[v][1], snapshot[v]) <= snapshot[v]
    BY <1>0, <1>2, <1>3, TidAtNewest
  <2>3. TidAt(loading[v][1], snapshot[v]) \in 1..MaxTid
    BY <1>0, <1>2, <1>3, TidAtExists
  <2> QED BY <1>1, <2>1, <2>2, <2>3
<1>5. ~ FromFuture(v)
  BY <1>1, <1>3, <1>4 DEF FromFuture
<1>6. ~ Inconsistent(v)
  BY <1>1, <1>4 DEF Inconsistent, Expected
<1>7. index[v] \in Indexes
  BY <1>0, PoolIndexes
<1> QED BY <1>1, <1>2, <1>4, <1>5, <1>6, <1>7

\* A load that misses expects the tid of the index.
LEMMA LoadMissPool ==
    ASSUME IInv, NEW v \in Viewer, NEW o \in Oid, LoadMiss(v, o)
    PROVE  IInv' /\ Stepped
<1>0. HInv /\ HeapInv /\ PoolInv /\ TypeOK /\ HeapType /\ ViewerInv(v) /\ HInv'
  BY LoadHeap DEF IInv, HInv, PoolInv
<1>1. /\ pc[v] = "open" /\ loading' = [loading EXCEPT ![v] = <<o, Lookup(index[v], o)>>]
      /\ pc' = [pc EXCEPT ![v] = "loading"]
      /\ UNCHANGED <<history, dbTid, object_index, bucket, maps, hvt, index, snapshot, poll>>
  BY DEF LoadMiss, Goto, database, heap, viewer
<1>2. index[v] \in Indexes
  BY <1>0, PoolIndexes
<1>3. Lookup(index[v], o) \in {None, TidAt(o, hvt[v])}
  <2>1. CASE Lookup(index[v], o) # None
    <3>1. PICK l \in At(index[v]) : /\ Lookup(index[v], o) = Entry(index[v], l, o)
                                    /\ \A k \in At(index[v]) : k < l => Entry(index[v], k, o) = None
      BY <1>0, <1>2, <2>1, LookupType
    <3>2. Entry(index[v], l, o) = TidAt(o, HvtOf(index[v], 1))
      BY <1>0, <1>2, <2>1, <3>1 DEF HeapInv, LookupInv
    <3>3. HvtOf(index[v], 1) = hvt[v]
      BY <1>0, <1>2, Shape DEF HvtOf, ViewerInv, Front
    <3> QED BY <3>1, <3>2, <3>3
  <2> QED BY <2>1
<1>4. /\ pc'[v] = "loading" /\ loading'[v] = <<o, Lookup(index[v], o)>>
      /\ \A w \in Viewer : w # v => SameViewer(w)
  BY <1>0, <1>1 DEF HeapType, SameViewer
<1>5. loading'[v][1] = o /\ loading'[v][2] = Lookup(index[v], o)
  BY <1>4
<1>6. TidAt(loading[v][1], hvt[v])' = TidAt(o, hvt[v])
  BY <1>1, <1>5 DEF TidAt
<1>7. ViewerInv(v)'
  BY <1>0, <1>1, <1>3, <1>4, <1>5, <1>6 DEF ViewerInv, Front
<1>8. /\ index'[v] \in Indexes /\ poll'[v].new \in Indexes \cup {None}
      /\ poll'[v].cur \in Roots \cup {None} /\ poll'[v].cur \in Indexes \cup {None}
  BY <1>1, <1>2, InUse
<1> QED BY <1>0, <1>1, <1>4, <1>7, <1>8, QuietPool

\* The database answers it.
LEMMA LoadFromDatabasePool ==
    ASSUME IInv, NEW v \in Viewer, LoadFromDatabase(v)
    PROVE  IInv' /\ Stepped
<1>0. HInv /\ HeapInv /\ PoolInv /\ TypeOK /\ HeapType /\ ViewerInv(v) /\ HInv'
  BY LoadFromDatabaseHeap DEF IInv, HInv, PoolInv
<1>1. /\ pc[v] = "loading" /\ loading' = [loading EXCEPT ![v] = <<>>]
      /\ pc' = [pc EXCEPT ![v] = "open"]
      /\ UNCHANGED <<history, dbTid, object_index, maps, hvt, index, snapshot, poll>>
  BY DEF LoadFromDatabase, Goto, database, viewer
<1> DEFINE o == loading[v][1]
           a == Actual(v)
<1>2. ItemSet(index[v], o, a)
  BY <1>0, LoadFromDatabaseHeap
<1>3. o \in Oid /\ index[v] \in Indexes /\ a = TidAt(o, Front(index[v]).hvt) /\ a \in 1..MaxTid
  BY <1>1, LoadIsConsistent
<1>4. a \in Tid /\ a # None
  BY <1>3, MvccAssumption DEF Tid, None
<1>5. \A s \in Slot : bucket'[s].hvt = bucket[s].hvt
  BY <1>2, <1>3 DEF ItemSet
<1>6. /\ pc'[v] = "open" /\ \A w \in Viewer : w # v => SameViewer(w)
  BY <1>0, <1>1 DEF HeapType, SameViewer
<1>7. Onward /\ \A s \in Slot : bucket'[s].hvt <= dbTid'
  BY <1>0, <1>1, <1>5, QuietOnward
<1>8. index[v] \in Slot
  BY <1>0, <1>3, Shape
<1>9. ViewerInv(v)'
  BY <1>0, <1>1, <1>5, <1>6, <1>8 DEF ViewerInv, Front, Locked
<1>10. PoolInv'
  BY <1>0, <1>6, <1>7, <1>9, PoolStep
<1>11. Indexes' \subseteq Indexes
  BY <1>1, <1>6 DEF Indexes, SameViewer
<1> HIDE DEF o, a
<1>12. HeapInv'
  BY <1>0, <1>1, <1>2, <1>3, <1>4, <1>11, SetItemHeapInv
<1>13. Stepped
  BY <1>1, <1>2, <1>3, <1>4, <1>7, <1>11 DEF Stepped
<1> QED BY <1>0, <1>10, <1>12, <1>13 DEF IInv

\* Steps that leave the heap and the polls alone; the database may go on.
LEMMA ElsewherePool ==
    ASSUME IInv, HInv', UNCHANGED <<object_index, bucket, maps, hvt, index, snapshot, poll, loading>>,
           \A w \in Viewer : pc'[w] = pc[w]
                             \/ (pc'[w] \in {"finish", "idle"} /\ pc[w] \in {"open", "finish"}),
           UNCHANGED <<history, dbTid>> \/ \E oids \in SUBSET Oid : Write(oids)
    PROVE  IInv' /\ Stepped
<1>0. HInv /\ HeapInv /\ PoolInv /\ TypeOK /\ HistoryInv
  BY DEF IInv, HInv
<1>1. Onward /\ \A s \in Slot : bucket'[s].hvt <= dbTid'
  <2>1. CASE UNCHANGED <<history, dbTid>>
    BY <1>0, <2>1, QuietOnward
  <2>2. CASE \E oids \in SUBSET Oid : Write(oids)
    <3>1. PICK oids \in SUBSET Oid : Write(oids)
      BY <2>2
    <3>2. dbTid \in Nat /\ dbTid' = dbTid + 1
      BY <1>0, <3>1, MvccAssumption DEF TypeOK, Write
    <3>3. \A o \in Oid, s \in Nat : s <= dbTid => TidAt(o, s)' = TidAt(o, s)
      BY <1>0, <3>1, WriteKeepsPast
    <3>4. object_index # None /\ object_index \in Slot /\ \A s \in Slot : bucket[s].hvt <= dbTid
      BY <1>0, PoolIndexes, Shape DEF PoolInv
    <3>5. \A s \in Slot : bucket[s].hvt \in Nat
      BY <1>0, Numbers DEF TypeOK
    <3> QED BY <3>2, <3>3, <3>4, <3>5 DEF Onward
  <2> QED BY <2>1, <2>2
<1>2. ASSUME NEW w \in Viewer PROVE ViewerInv(w)'
  <2>1. CASE pc'[w] = pc[w]
    BY <1>0, <1>1, <2>1, OtherViewer DEF SameViewer
  <2>2. CASE pc'[w] \in {"finish", "idle"}
    <3>1. index[w] # None /\ snapshot[w] <= dbTid /\ hvt[w] = Front(index[w]).hvt
      BY <1>0 DEF PoolInv, ViewerInv
    <3>2. snapshot[w] \in Nat /\ dbTid \in Nat
      <4>1. snapshot[w] \in Tid
        BY <1>0 DEF TypeOK
      <4>2. dbTid \in Nat
        BY <1>0, MvccAssumption DEF TypeOK
      <4> QED BY <4>1, <4>2, Numbers
    <3>3. snapshot'[w] <= dbTid'
      BY <1>1, <3>1, <3>2 DEF Onward
    <3> QED BY <2>2, <3>1, <3>3 DEF ViewerInv, Front, Locked
  <2> QED BY <2>1, <2>2
<1>3. PoolInv'
  BY <1>1, <1>2 DEF PoolInv, Onward
<1>4. Indexes' \subseteq Indexes
  BY DEF Indexes
<1>5. HeapInv'
  <2>1. /\ \A s \in Slot : bucket[s].hvt <= dbTid
        /\ \A o \in Oid, s \in Nat : s <= dbTid => TidAt(o, s)' = TidAt(o, s)
    BY <1>0, <1>1 DEF PoolInv, Onward
  <2> QED BY <1>0, <1>4, <2>1, SameHeapInv
<1> QED BY <1>1, <1>3, <1>4, <1>5 DEF IInv, Stepped

\* The pool begins with one index, of the first tid.
LEMMA InitPoolInv ==
    ASSUME InitPool
    PROVE  IInv
<1>0. Start(TRUE, TRUE)
  BY DEF InitPool
<1>1. HInv
  BY <1>0, StartHeap
<1>2. TypeOK /\ HeapType
  BY <1>1 DEF HInv
<1>3. /\ object_index = 1 /\ maps[1] = <<1>> /\ dbTid = 1 /\ 1 \in Slot
      /\ bucket[1] = NewBucket(1, Incomplete, EmptyMap)
      /\ \A s \in Slot : s # 1 => bucket[s] = Free
      /\ \A v \in Viewer : /\ pc[v] = "open" /\ hvt[v] = 1 /\ index[v] = 1 /\ snapshot[v] = 1
                           /\ poll[v] = NoPoll
  BY <1>0, Numbers DEF Start, InitTid
<1>4. NoPoll.cur = None /\ NoPoll.new = None /\ None = 0
  BY Numbers DEF NoPoll
<1>5. Indexes \subseteq {1}
  BY <1>3, <1>4 DEF Indexes
<1>6. At(1) = {1}
  BY <1>3 DEF At
<1>7. \A s \in Slot, o \in Oid : bucket[s].map[o] = None /\ bucket[s].cst = Incomplete
  BY <1>3 DEF NewBucket, Free, EmptyMap
<1>8. \A o \in Oid : Entry(1, 1, o) = None
  BY <1>3, <1>7 DEF Entry
<1>9. OrderInv /\ ClosedInv
  BY <1>5, <1>6 DEF OrderInv, ClosedInv
<1>10. EntryInv
  BY <1>7 DEF EntryInv
<1>11. LookupInv
  BY <1>5, <1>6, <1>8 DEF LookupInv
<1>12. CoverInv /\ SharedInv
  <2>1. CoverInv
    BY <1>5, <1>6 DEF CoverInv
  <2>2. SharedInv
    BY <1>5, <1>6 DEF SharedInv
  <2> QED BY <2>1, <2>2
<1>13. \A s \in Slot : bucket[s].hvt <= dbTid
  BY <1>3 DEF NewBucket, Free
<1>14. ASSUME NEW v \in Viewer PROVE ViewerInv(v)
  <2>1. Front(1).hvt = 1
    BY <1>3 DEF Front, NewBucket
  <2> QED BY <1>3, <1>4, <2>1 DEF ViewerInv, Locked
<1>15. PoolInv
  BY <1>3, <1>4, <1>13, <1>14 DEF PoolInv
<1> QED BY <1>1, <1>9, <1>10, <1>11, <1>12, <1>15 DEF IInv, HeapInv

\* Every step keeps the invariant of the pool.
LEMMA NextPoolInv ==
    ASSUME IInv, [NextPool]_vars, \A d \in Deployment : ~ d.revert_when_stale
    PROVE  IInv' /\ Stepped
<1>0. HInv /\ PoolInv /\ HeapType /\ \A v \in Viewer : ViewerInv(v)
  BY DEF IInv, PoolInv, HInv
<1>1. HInv'
  BY <1>0, NextHeap DEF Next
<1>2. ASSUME NEW v \in Viewer, PollStep(v) PROVE IInv' /\ Stepped
  <2>1. ~ InitialPoll(v) /\ ~ Revert(v)
    BY <1>0 DEF InitialPoll, Revert, ViewerInv
  <2> QED BY <1>2, <2>1, PollStartPool, QueryPool, InstallPool, BuildPool, FindPool, MoveViewerPool,
             VacuumPool, RemoveOldestPool DEF PollStep
<1>3. ASSUME NEW v \in Viewer, LoadStep(v) PROVE IInv' /\ Stepped
  <2>1. ~ LoadConflict(v) /\ ~ LoadInconsistent(v)
    BY LoadIsConsistent DEF LoadConflict, LoadInconsistent
  <2>2. ASSUME NEW o \in Oid PROVE ~ LoadWithoutIndex(v, o)
    BY <1>0 DEF LoadWithoutIndex, ViewerInv
  <2>3. ASSUME NEW o \in Oid, LoadFromCache(v, o) PROVE IInv' /\ Stepped
    <3>1. UNCHANGED <<history, dbTid, object_index, bucket, maps, hvt, index, snapshot, poll, loading, pc>>
      BY <2>3 DEF LoadFromCache, database, heap, viewer
    <3> QED BY <1>1, <3>1, ElsewherePool
  <2> QED BY <1>3, <2>1, <2>2, <2>3, LoadMissPool, LoadFromDatabasePool DEF LoadStep
<1>4. ASSUME NEW v \in Viewer, NEW oids \in SUBSET Oid, Commit(v, oids) PROVE IInv' /\ Stepped
  <2>1. /\ UNCHANGED <<object_index, bucket, maps, hvt, index, snapshot, poll, loading>>
        /\ pc[v] = "open" /\ pc' = [pc EXCEPT ![v] = "finish"] /\ Write(oids)
    BY <1>4 DEF Commit, heap, viewer, Goto
  <2>2. \A w \in Viewer : pc'[w] = pc[w] \/ (pc'[w] = "finish" /\ pc[w] = "open")
    BY <1>0, <2>1 DEF HeapType
  <2> QED BY <1>1, <2>1, <2>2, ElsewherePool
<1>5. ASSUME NEW v \in Viewer, AfterTpcFinish(v) PROVE IInv' /\ Stepped
  <2>1. /\ UNCHANGED <<history, dbTid, object_index, bucket, maps, hvt, index, snapshot, poll, loading>>
        /\ pc[v] = "finish" /\ pc' = [pc EXCEPT ![v] = "idle"]
    BY <1>5 DEF AfterTpcFinish, database, heap, viewer, Goto
  <2>2. \A w \in Viewer : pc'[w] = pc[w] \/ (pc'[w] = "idle" /\ pc[w] = "finish")
    BY <1>0, <2>1 DEF HeapType
  <2> QED BY <1>1, <2>1, <2>2, ElsewherePool
<1>6. ASSUME \/ \E oids \in SUBSET Oid : ExternalCommit(oids)
             \/ \E o \in Oid : Evict(o)
             \/ UNCHANGED vars
      PROVE  IInv' /\ Stepped
  <2>1. /\ UNCHANGED <<object_index, bucket, maps, hvt, index, snapshot, poll, loading, pc>>
        /\ UNCHANGED <<history, dbTid>> \/ \E oids \in SUBSET Oid : Write(oids)
    BY <1>6 DEF ExternalCommit, Evict, vars, database, heap, viewer
  <2> QED BY <1>1, <2>1, ElsewherePool
<1> QED BY <1>2, <1>3, <1>4, <1>5, <1>6 DEF NextPool

\* The invariant of a pool of instances that do not revert.
THEOREM PoolInvariant ==
    ASSUME \A d \in Deployment : ~ d.revert_when_stale
    PROVE  SpecPool => []IInv
<1>1. InitPool => IInv
  BY InitPoolInv
<1>2. IInv /\ [NextPool]_vars => IInv'
  BY NextPoolInv
<1> QED BY <1>1, <1>2, PTL DEF SpecPool

\* What an index looks up is the object's tid at that of the index.
LEMMA LookupIsOfIndex ==
    ASSUME IInv, NEW i \in Indexes, NEW o \in Oid
    PROVE  Lookup(i, o) \in {None, TidAt(o, Front(i).hvt)}
<1>0. HInv /\ LookupInv
  BY DEF IInv, HeapInv
<1>1. CASE Lookup(i, o) # None
  <2>1. PICK l \in At(i) : /\ Lookup(i, o) = Entry(i, l, o)
                           /\ \A k \in At(i) : k < l => Entry(i, k, o) = None
    BY <1>0, <1>1, LookupType
  <2>2. Entry(i, l, o) = TidAt(o, HvtOf(i, 1))
    BY <1>0, <1>1, <2>1 DEF LookupInv
  <2>3. HvtOf(i, 1) = Front(i).hvt
    BY <1>0, Shape DEF HvtOf, Front
  <2> QED BY <2>1, <2>2, <2>3
<1> QED BY <1>1

\* An index entry that a viewer can reach is the object's tid in the
\* snapshot of its load connection, for any number of viewers, objects and
\* transactions, any depth of index, and any interleaving of overlapping
\* polls, vacuums and loads of the threads.
THEOREM EntriesAreOfSnapshot ==
    ASSUME \A d \in Deployment : ~ d.revert_when_stale
    PROVE  SpecPool => []IndexMatchesSnapshot
<1>1. IInv => IndexMatchesSnapshot
  <2> SUFFICES ASSUME IInv, NEW v \in Viewer, InTransaction(v), NEW o \in Oid
               PROVE  Lookup(index[v], o) \in {None, TidAt(o, snapshot[v])}
    BY DEF IndexMatchesSnapshot, EntriesMatchSnapshot
  <2>1. ViewerInv(v) /\ index[v] \in Indexes
    BY PoolIndexes DEF IInv, PoolInv
  <2>2. Front(index[v]).hvt = snapshot[v]
    BY <2>1 DEF ViewerInv, InTransaction
  <2>3. Lookup(index[v], o) \in {None, TidAt(o, Front(index[v]).hvt)}
    BY <2>1, LookupIsOfIndex
  <2> QED BY <2>2, <2>3
<1> QED BY <1>1, PoolInvariant, PTL

\* A viewer's index is exactly as new as what it polled.
THEOREM IndexesAreOfSnapshot ==
    ASSUME \A d \in Deployment : ~ d.revert_when_stale
    PROVE  SpecPool => []IndexIsOfSnapshot
<1>1. IInv => IndexIsOfSnapshot
  BY DEF IInv, PoolInv, ViewerInv, IndexIsOfSnapshot, InTransaction
<1> QED BY <1>1, PoolInvariant, PTL

\* The assertions of __setitem__ hold: a bucket that is complete for a range
\* knows every tid of the range, whoever wrote to it.
THEOREM SetItemAsserts ==
    ASSUME \A d \in Deployment : ~ d.revert_when_stale
    PROVE  SpecPool => []SetItemAssertions
<1>1. IInv => SetItemAssertions
  <2> SUFFICES ASSUME IInv, NEW v \in Viewer, pc[v] = "loading", NEW k \in 1..Depth(index[v]),
                      bucket[maps[index[v]][k]].open, k > SetPosition(index[v], Actual(v))
               PROVE  bucket[maps[index[v]][k]].map[loading[v][1]] = Actual(v)
    BY DEF SetItemAssertions
  <2> DEFINE i == index[v]
             r == maps[i][k]
             o == loading[v][1]
             a == Actual(v)
  <2>0. HInv /\ HeapInv /\ TypeOK
    BY DEF IInv, HInv
  <2>1. o \in Oid /\ i \in Indexes /\ a = TidAt(o, Front(i).hvt) /\ a \in 1..MaxTid
    BY LoadIsConsistent
  <2>2. k \in At(i) /\ r \in Slot /\ k \in Nat \ {0} /\ HvtOf(i, k) = bucket[r].hvt
    <3>1. k \in At(i)
      BY DEF At, Depth
    <3> QED BY <2>0, <2>1, <3>1, Shape DEF HvtOf
  <2>3. ~ (a > bucket[r].hvt \/ bucket[r].cst = Incomplete \/ a <= bucket[r].cst)
    <3> SUFFICES ASSUME a > bucket[r].hvt \/ bucket[r].cst = Incomplete \/ a <= bucket[r].cst
                 PROVE  FALSE
      OBVIOUS
    <3> DEFINE P == {l \in 1..Depth(i) : LET b == bucket[maps[i][l]] IN
                        b.open /\ (a > b.hvt \/ b.cst = Incomplete \/ a <= b.cst)}
    <3>1. k \in P
      OBVIOUS
    <3>2. SetPosition(i, a) = NewestOf(P)
      BY DEF SetPosition
    <3>3. P \subseteq Nat /\ Len(maps[i]) \in Nat /\ \A l \in P : l <= Len(maps[i])
      BY <2>0, <2>1, Shape DEF At, Depth
    <3> HIDE DEF P
    <3>4. NewestOf(P) = Max(P) /\ Max(P) \in P /\ \A l \in P : l <= Max(P)
      BY <3>1, <3>3, MaxOfTids DEF NewestOf
    <3>5. SetPosition(i, a) \in Nat /\ k <= SetPosition(i, a) /\ k > SetPosition(i, a)
      BY <3>1, <3>2, <3>3, <3>4
    <3> HIDE DEF i, a
    <3> QED BY <2>2, <3>5
  <2>4. /\ bucket[r].hvt \in Nat /\ a \in Nat /\ Front(i).hvt = HvtOf(i, 1) /\ HvtOf(i, 1) \in Nat
        /\ bucket[r].hvt <= HvtOf(i, 1) /\ bucket[r].cst \in Tid
    <3>1. bucket[r].hvt \in Tid /\ bucket[r].cst \in Tid
      BY <2>0, <2>2, <2>3 DEF TypeOK
    <3>2. Front(i).hvt = HvtOf(i, 1) /\ HvtOf(i, 1) \in Nat /\ 1 \in At(i)
      BY <2>0, <2>1, Shape DEF HvtOf, Front
    <3>3. HvtOf(i, 1) >= HvtOf(i, k)
      BY <2>0, <2>1, <2>2, <3>2, Ordered DEF HeapInv
    <3>4. a \in Nat
      BY <2>1
    <3> HIDE DEF i, a, r
    <3> QED BY <2>2, <3>1, <3>2, <3>3, <3>4, Numbers
  <2>5. bucket[r].open /\ bucket[r].cst # Incomplete
    BY <2>3
  <2> HIDE DEF i, a, r, o
  <2>6. a <= bucket[r].hvt /\ a > bucket[r].cst
    <3>1. bucket[r].cst \in Nat
      BY <2>4, Numbers
    <3>2. bucket[r].hvt \in Nat /\ a \in Nat
      BY <2>4
    <3> QED BY <2>3, <3>1, <3>2
  <2>7. TidAt(o, bucket[r].hvt) = a
    BY <2>0, <2>1, <2>4, <2>6, TidAtSame
  <2>8. bucket[r].map[o] = a
    BY <2>0, <2>1, <2>2, <2>5, <2>6, <2>7 DEF HeapInv, EntryInv
  <2> QED BY <2>8 DEF i, a, r, o
<1> QED BY <1>1, PoolInvariant, PTL

-----------------------------------------------------------------------------
(* What viewers hold, and what they are told. *)

\* A viewer does not go back, and the coordinator is not behind it.
Forwards(v) ==
    /\ hvt[v] <= Front(object_index).hvt
    /\ pc[v] = "query" => hvt[v] <= poll[v].since
    /\ pc[v] \in {"install", "build", "find", "collect", "move"} => hvt[v] <= snapshot[v]
    /\ pc[v] \in {"build", "find", "collect", "move"} => snapshot[v] <= Front(object_index).hvt
ForwardInv == \A v \in Viewer : Forwards(v)

\* Where a viewer may hold what it committed and has not polled yet.
Ahead == {"finish", "idle", "query", "install", "build", "find", "collect", "move"}

\* The cache has states that were committed.
CachedInv == \A o \in Oid : Tids(cache[o]) \subseteq history[o]

\* A viewer holds such states, of the past or its own.
Holds(v) ==
    /\ \A o \in Oid : zodb[v][o] # None =>
          /\ zodb[v][o] \in history[o]
          /\ zodb[v][o] <= hvt[v] \/ (zodb[v][o] = committed[v] /\ pc[v] \in Ahead)
    /\ committed[v] <= dbTid
    /\ pc[v] \in {"install", "build", "find", "collect", "move"} => committed[v] <= snapshot[v]
HeldInv == CachedInv /\ \A v \in Viewer : Holds(v)

\* An index has what changed after a tid: one bucket is not newer, and those
\* that were emptied are older.
Covers(i, h) ==
    /\ \E k \in At(i) : HvtOf(i, k) <= h
    /\ \A k \in At(i) : ~ Open(i, k) => HvtOf(i, k) < h

\* The viewer is told of what changed, but for what it wrote.
Told(v) ==
    \A o \in Oid : TidAt(o, snapshot[v]) > hvt[v] =>
        o \in poll[v].changes \/ TidAt(o, snapshot[v]) = committed[v]

\* Nobody is cut off, and every index will do for every viewer.
ToldInv ==
    /\ Attached = Viewer
    /\ \A i \in Indexes, v \in Viewer : Covers(i, hvt[v])
    /\ \A v \in Viewer : pc[v] = "move" => Told(v)

\* The steps that a viewer of the pool can take.
Acts(v) ==
    \/ PollStart(v) \/ (\E s \in InitTid..MaxTid : Query(v, s))
    \/ Install(v) \/ Build(v) \/ FindChanges(v) \/ CollectChanges(v) \/ MoveViewer(v)
    \/ DetachOldest(v) \/ RemoveOldest(v) \/ Freeze(v) \/ VacuumDone(v)
    \/ (\E o \in Oid : LoadFromCache(v, o) \/ LoadMiss(v, o)) \/ LoadFromDatabase(v)
    \/ (\E oids \in SUBSET Oid : Commit(v, oids)) \/ AfterTpcFinish(v)

\* The other steps.
Elsewhere ==
    \/ \E oids \in SUBSET Oid : ExternalCommit(oids)
    \/ \E o \in Oid : Evict(o)
    \/ UNCHANGED vars

\* Nothing else happens.
LEMMA PoolSteps ==
    ASSUME IInv, [NextPool]_vars
    PROVE  (\E v \in Viewer : Acts(v)) \/ Elsewhere
<1>1. ASSUME NEW v \in Viewer, PollStep(v) PROVE Acts(v)
  <2>1. ~ InitialPoll(v) /\ ~ Revert(v)
    BY DEF IInv, PoolInv, InitialPoll, Revert, ViewerInv
  <2> QED BY <1>1, <2>1 DEF PollStep, Acts
<1>2. ASSUME NEW v \in Viewer, LoadStep(v) PROVE Acts(v)
  <2>1. ~ LoadConflict(v) /\ ~ LoadInconsistent(v)
    BY LoadIsConsistent DEF LoadConflict, LoadInconsistent
  <2>2. ASSUME NEW o \in Oid PROVE ~ LoadWithoutIndex(v, o)
    BY DEF IInv, PoolInv, LoadWithoutIndex, ViewerInv
  <2> QED BY <1>2, <2>1, <2>2 DEF LoadStep, Acts
<1>3. ASSUME NEW v \in Viewer, (\E oids \in SUBSET Oid : Commit(v, oids)) \/ AfterTpcFinish(v)
      PROVE  Acts(v)
  BY <1>3 DEF Acts
<1> QED BY <1>1, <1>2, <1>3 DEF NextPool, Elsewhere

\* A step leaves a viewer, and what it holds, where it is.
Stays(w) == SameViewer(w) /\ zodb'[w] = zodb[w] /\ committed'[w] = committed[w]

\* A viewer acts for itself.
LEMMA OthersStay ==
    ASSUME IInv, NEW v \in Viewer, Acts(v), NEW w \in Viewer, w # v
    PROVE  Stays(w)
<1>0. TypeOK /\ HeapType /\ object_index # None
  BY DEF IInv, HInv, PoolInv
<1> USE DEF Stays, SameViewer, Goto, viewer, HeapType
<1>1. CASE PollStart(v)
  BY <1>0, <1>1 DEF PollStart
<1>2. ASSUME NEW s \in InitTid..MaxTid, Query(v, s) PROVE Stays(w)
  BY <1>0, <1>2 DEF Query, InvalidateAll, TypeOK
<1>3. CASE Install(v)
  BY <1>0, <1>3 DEF Install, LosePoll
<1>4. CASE Build(v)
  BY <1>0, <1>4 DEF Build
<1>5. CASE FindChanges(v) \/ CollectChanges(v)
  BY <1>0, <1>5 DEF FindChanges, CollectChanges
<1>6. CASE MoveViewer(v)
  BY <1>0, <1>6 DEF MoveViewer, LosePoll, SetViewerState, Invalidate, TypeOK
<1>7. CASE DetachOldest(v) \/ Freeze(v) \/ VacuumDone(v)
  BY <1>0, <1>7 DEF DetachOldest, Freeze, VacuumDone
<1>8. CASE RemoveOldest(v)
  BY <1>0, <1>8 DEF RemoveOldest
<1>9. ASSUME NEW o \in Oid, LoadFromCache(v, o) \/ LoadMiss(v, o) PROVE Stays(w)
  BY <1>0, <1>9 DEF LoadFromCache, LoadMiss, Remember, TypeOK
<1>10. CASE LoadFromDatabase(v)
  BY <1>0, <1>10 DEF LoadFromDatabase, Remember, TypeOK
<1>11. ASSUME NEW oids \in SUBSET Oid, Commit(v, oids) PROVE Stays(w)
  BY <1>0, <1>11 DEF Commit, TypeOK
<1>12. CASE AfterTpcFinish(v)
  BY <1>0, <1>12 DEF AfterTpcFinish
<1> QED BY <1>1, <1>2, <1>3, <1>4, <1>5, <1>6, <1>7, <1>8, <1>9, <1>10, <1>11, <1>12 DEF Acts

\* Steps elsewhere leave every viewer alone.
LEMMA ElsewhereStays ==
    ASSUME Elsewhere, NEW w \in Viewer
    PROVE  Stays(w)
BY DEF Elsewhere, ExternalCommit, Evict, vars, viewer, Stays, SameViewer

\* The numbers of a viewer.
LEMMA ViewerNumbers ==
    ASSUME IInv, NEW v \in Viewer
    PROVE  /\ hvt[v] \in Nat /\ snapshot[v] \in Nat /\ committed[v] \in Nat /\ poll[v].since \in Nat
           /\ Front(object_index).hvt \in Nat /\ dbTid \in Nat
           /\ \A o \in Oid : zodb[v][o] \in Nat
<1>1. object_index \in Slot
  BY PoolIndexes, Shape DEF IInv
<1>2. /\ hvt[v] \in Tid /\ snapshot[v] \in Tid /\ committed[v] \in Tid /\ Front(object_index).hvt \in Tid
      /\ \A o \in Oid : zodb[v][o] \in Tid
  BY <1>1 DEF IInv, HInv, TypeOK, Front
<1>3. poll[v].since \in Tid
  BY DEF IInv, HInv, HeapType, Poll
<1>4. dbTid \in Nat
  BY MvccAssumption DEF IInv, HInv, TypeOK
<1> QED BY <1>2, <1>3, <1>4, Numbers

\* The coordinator goes forward: others stay behind it.
LEMMA StaysForward ==
    ASSUME IInv, Onward, NEW w \in Viewer, Stays(w), Forwards(w)
    PROVE  Forwards(w)' /\ hvt'[w] >= hvt[w]
<1>1. Front(object_index)'.hvt >= Front(object_index).hvt /\ Front(object_index)'.hvt \in Nat
  BY DEF Onward, Front
<1>2. hvt[w] \in Nat /\ snapshot[w] \in Nat /\ Front(object_index).hvt \in Nat
  BY ViewerNumbers
<1>3. pc'[w] = pc[w] /\ poll'[w] = poll[w] /\ hvt'[w] = hvt[w] /\ snapshot'[w] = snapshot[w]
  BY DEF Stays, SameViewer
<1> QED BY <1>1, <1>2, <1>3 DEF Forwards

\* So does a viewer that acts.
LEMMA ActsForward ==
    ASSUME IInv, IInv', Onward, NEW v \in Viewer, Forwards(v), Acts(v)
    PROVE  Forwards(v)' /\ hvt'[v] >= hvt[v]
<1>0. TypeOK /\ HeapType /\ object_index # None /\ ViewerInv(v) /\ ViewerInv(v)'
  BY DEF IInv, HInv, PoolInv
<1>1. /\ hvt[v] \in Nat /\ snapshot[v] \in Nat /\ Front(object_index).hvt \in Nat
      /\ poll[v].since \in Nat
  BY ViewerNumbers
<1>2. /\ Front(object_index)'.hvt >= Front(object_index).hvt /\ Front(object_index)'.hvt \in Nat
      /\ hvt[v] <= Front(object_index)'.hvt
  BY <1>1 DEF Onward, Front, Forwards
<1>3. CASE PollStart(v)
  <2>1. pc'[v] = "query" /\ poll'[v].since = Front(object_index).hvt /\ hvt' = hvt
    BY <1>0, <1>3 DEF PollStart, Goto, HeapType, NoPoll, viewer
  <2> QED BY <1>1, <1>2, <2>1 DEF Forwards
<1>4. ASSUME NEW s \in InitTid..MaxTid, Query(v, s) PROVE Forwards(v)' /\ hvt'[v] >= hvt[v]
  <2>1. /\ pc[v] = "query" /\ snapshot'[v] = s /\ hvt' = hvt
        /\ pc'[v] \in {"install", "initial", "revert", "stale"}
        /\ pc'[v] = "install" => s >= poll[v].since
    BY <1>0, <1>4 DEF Query, Goto, HeapType, TypeOK, viewer
  <2>2. pc'[v] \in {"install", "stale"} /\ s \in Nat
    BY <1>0, <2>1 DEF ViewerInv, InitTid
  <2> QED BY <1>1, <1>2, <2>1, <2>2 DEF Forwards
<1>5. CASE Install(v)
  <2>1. /\ pc[v] = "install" /\ hvt' = hvt /\ snapshot' = snapshot /\ pc'[v] \in {"find", "build"}
    BY <1>0, <1>5 DEF Install, LosePoll, Goto, HeapType, viewer
  <2>2. poll[v].polled = snapshot[v]
    BY <1>0, <2>1 DEF ViewerInv
  <2>3. snapshot[v] <= Front(object_index)'.hvt
    <3>1. ASSUME NEW s \in Slot, object_index' = s,
                 PushBucket(s, object_index, poll[v].polled, poll[v].since,
                            ChangesAfter(poll[v].since, snapshot[v]))
          PROVE  Front(object_index)'.hvt = snapshot[v]
      BY <2>2, <3>1 DEF PushBucket, NewBucket, Front
    <3>2. CASE Front(object_index).hvt >= poll[v].polled
      BY <1>1, <1>2, <2>2, <3>2
    <3>3. \/ \E s \in Slot : /\ object_index' = s
                            /\ PushBucket(s, object_index, poll[v].polled, poll[v].since,
                                          ChangesAfter(poll[v].since, snapshot[v]))
          \/ Front(object_index).hvt = poll[v].polled
          \/ Front(object_index).hvt > poll[v].polled
      BY <1>0, <1>5 DEF Install, LosePoll, NoWork
    <3> QED BY <1>1, <2>2, <3>1, <3>2, <3>3
  <2> QED BY <1>1, <1>2, <2>1, <2>3 DEF Forwards
<1>6. CASE Build(v) \/ FindChanges(v) \/ CollectChanges(v)
  <2>1. /\ pc[v] \in {"build", "find", "collect"} /\ hvt' = hvt /\ snapshot' = snapshot
        /\ pc'[v] \in {"find", "collect", "move"}
    BY <1>0, <1>6 DEF Build, FindChanges, CollectChanges, Goto, HeapType, viewer
  <2> QED BY <1>1, <1>2, <2>1 DEF Forwards
<1>7. CASE MoveViewer(v)
  <2>1. /\ pc[v] = "move" /\ pc'[v] \in {"open", "detach"} /\ snapshot' = snapshot
        /\ UNCHANGED object_index
    BY <1>0, <1>7 DEF MoveViewer, LosePoll, Goto, HeapType
  <2>2. hvt'[v] = snapshot[v]
    BY <1>0, <2>1 DEF ViewerInv, Locked
  <2> QED BY <1>1, <1>2, <2>1, <2>2 DEF Forwards
<1>8. ASSUME hvt' = hvt, pc'[v] \notin {"query", "install", "build", "find", "collect", "move"}
      PROVE  Forwards(v)' /\ hvt'[v] >= hvt[v]
  BY <1>1, <1>2, <1>8 DEF Forwards
<1>9. CASE \/ DetachOldest(v) \/ RemoveOldest(v) \/ Freeze(v) \/ VacuumDone(v)
           \/ (\E o \in Oid : LoadFromCache(v, o) \/ LoadMiss(v, o)) \/ LoadFromDatabase(v)
           \/ (\E oids \in SUBSET Oid : Commit(v, oids)) \/ AfterTpcFinish(v)
  <2>1. hvt' = hvt
    BY <1>9 DEF DetachOldest, RemoveOldest, Freeze, VacuumDone, LoadFromCache, LoadMiss,
       LoadFromDatabase, Commit, AfterTpcFinish, viewer
  <2>2. pc'[v] \in {"vacuum", "freeze", "open", "loading", "finish", "idle"}
    BY <1>0, <1>9 DEF DetachOldest, RemoveOldest, Freeze, VacuumDone, LoadFromCache, LoadMiss,
       LoadFromDatabase, Commit, AfterTpcFinish, Goto, HeapType
  <2> QED BY <1>8, <2>1, <2>2
<1> QED BY <1>3, <1>4, <1>5, <1>6, <1>7, <1>9 DEF Acts

\* Every step keeps ForwardInv, and no viewer goes back.
LEMMA ForwardKept ==
    ASSUME IInv, IInv', Onward, ForwardInv, [NextPool]_vars
    PROVE  ForwardInv' /\ \A w \in Viewer : hvt'[w] >= hvt[w]
<1>1. \A w \in Viewer : Forwards(w)
  BY DEF ForwardInv
<1>2. ASSUME NEW w \in Viewer PROVE Forwards(w)' /\ hvt'[w] >= hvt[w]
  <2>1. CASE Elsewhere
    BY <1>1, <2>1, ElsewhereStays, StaysForward
  <2>2. ASSUME NEW v \in Viewer, Acts(v) PROVE Forwards(w)' /\ hvt'[w] >= hvt[w]
    <3>1. CASE w = v
      BY <1>1, <2>2, <3>1, ActsForward
    <3>2. CASE w # v
      BY <1>1, <2>2, <3>2, OthersStay, StaysForward
    <3> QED BY <3>1, <3>2
  <2> QED BY <2>1, <2>2, PoolSteps
<1>3. ForwardInv'
  BY <1>2 DEF ForwardInv
<1> QED BY <1>2, <1>3

\* What is committed stays.
LEMMA HistoryGrows ==
    ASSUME IInv, [NextPool]_vars
    PROVE  \A o \in Oid : history[o] \subseteq history'[o]
<1>0. TypeOK
  BY DEF IInv, HInv
<1>1. UNCHANGED history \/ \E oids \in SUBSET Oid : Write(oids)
  <2>1. CASE Elsewhere
    BY <2>1 DEF Elsewhere, ExternalCommit, Evict, vars, database
  <2>2. ASSUME NEW v \in Viewer, Acts(v) PROVE UNCHANGED history \/ \E oids \in SUBSET Oid : Write(oids)
    BY <2>2 DEF Acts, PollStart, Query, Install, Build, FindChanges, CollectChanges, MoveViewer,
       DetachOldest, RemoveOldest, Freeze, VacuumDone, LoadFromCache, LoadMiss, LoadFromDatabase,
       Commit, AfterTpcFinish, database
  <2> QED BY <2>1, <2>2, PoolSteps
<1> QED BY <1>0, <1>1 DEF Write, TypeOK

\* A value is added to the cache after its transaction was committed.
LEMMA AddingCommitted ==
    ASSUME NEW values, NEW H, Tids(values) \subseteq H, NEW t \in H
    PROVE  Tids(AddingValue(values, t)) \subseteq H
BY DEF AddingValue, Tids, Value

\* Every step keeps CachedInv.
LEMMA CachedKept ==
    ASSUME IInv, CachedInv, [NextPool]_vars
    PROVE  CachedInv'
<1>0. TypeOK /\ HistoryInv
  BY DEF IInv, HInv
<1> SUFFICES ASSUME NEW o \in Oid PROVE Tids(cache'[o]) \subseteq history[o]
  BY HistoryGrows DEF CachedInv
<1>1. /\ Tids(cache[o]) \subseteq history[o]
      /\ cache[o] \subseteq [tid : 1..MaxTid, frozen : BOOLEAN]
  BY <1>0 DEF CachedInv, TypeOK
<1>2. CASE UNCHANGED cache
  BY <1>1, <1>2
<1>3. ASSUME NEW v \in Viewer, Freeze(v) PROVE Tids(cache'[o]) \subseteq history[o]
  <2>1. PICK t : cache'[o] = cache[o] \/ cache'[o] = FreezeToTid(cache[o], t)
    BY <1>3 DEF Freeze
  <2>2. ASSUME NEW e \in FreezeToTid(cache[o], t) PROVE \E x \in cache[o] : e.tid = x.tid
    BY <1>1, FreezeToTidKeeps
  <2>3. Tids(FreezeToTid(cache[o], t)) \subseteq Tids(cache[o])
    BY <2>2 DEF Tids
  <2> QED BY <1>1, <2>1, <2>3
<1>4. ASSUME NEW v \in Viewer, VacuumDone(v) PROVE Tids(cache'[o]) \subseteq history[o]
  <2>1. PICK t : cache'[o] = cache[o] \/ cache'[o] = DiscardingTidsBefore(cache[o], t)
    BY <1>4 DEF VacuumDone
  <2>2. Tids(DiscardingTidsBefore(cache[o], t)) \subseteq Tids(cache[o])
    BY DiscardingKeeps DEF Tids
  <2> QED BY <1>1, <2>1, <2>2
<1>5. ASSUME NEW v \in Viewer, LoadFromDatabase(v) PROVE Tids(cache'[o]) \subseteq history[o]
  <2>1. pc[v] = "loading" /\ cache' = [cache EXCEPT ![loading[v][1]] = AddingValue(@, Actual(v))]
    BY <1>5 DEF LoadFromDatabase
  <2>2. /\ loading[v][1] \in Oid /\ Actual(v) \in 1..MaxTid
        /\ Actual(v) = TidAt(loading[v][1], Front(index[v]).hvt) /\ index[v] \in Indexes
    BY <2>1, LoadIsConsistent
  <2>3. Front(index[v]).hvt \in Nat
    <3>1. Front(index[v]).hvt \in Tid
      BY <1>0, <2>2, Shape DEF TypeOK, Front, IInv
    <3> QED BY <3>1, Numbers
  <2>4. Actual(v) # None
    BY <2>2, Numbers, MvccAssumption
  <2>5. Actual(v) \in history[loading[v][1]]
    BY <1>0, <2>2, <2>3, <2>4, TidAtNewest
  <2>6. CASE o = loading[v][1]
    <3>1. cache'[o] = AddingValue(cache[o], Actual(v))
      BY <1>0, <2>1, <2>6 DEF TypeOK
    <3> QED BY <1>1, <2>5, <2>6, <3>1, AddingCommitted
  <2>7. CASE o # loading[v][1]
    <3>1. cache'[o] = cache[o]
      BY <1>0, <2>1, <2>7 DEF TypeOK
    <3> QED BY <1>1, <3>1
  <2> QED BY <2>6, <2>7
<1>6. ASSUME NEW v \in Viewer, AfterTpcFinish(v) PROVE Tids(cache'[o]) \subseteq history[o]
  <2>1. cache'[o] = IF committed[v] \in history[o] THEN AddingValue(cache[o], committed[v])
                    ELSE cache[o]
    BY <1>6 DEF AfterTpcFinish
  <2> QED BY <1>1, <2>1, AddingCommitted
<1>7. ASSUME NEW p \in Oid, Evict(p) PROVE Tids(cache'[o]) \subseteq history[o]
  <2>1. cache'[o] = cache[o] \/ cache'[o] = {}
    BY <1>0, <1>7 DEF Evict, TypeOK
  <2> QED BY <1>1, <2>1 DEF Tids
<1>8. CASE Elsewhere
  BY <1>2, <1>7, <1>8 DEF Elsewhere, ExternalCommit, vars
<1>9. ASSUME NEW v \in Viewer, Acts(v) PROVE Tids(cache'[o]) \subseteq history[o]
  <2>1. UNCHANGED cache \/ Freeze(v) \/ VacuumDone(v) \/ LoadFromDatabase(v) \/ AfterTpcFinish(v)
    BY <1>9 DEF Acts, PollStart, Query, Install, Build, FindChanges, CollectChanges, MoveViewer,
       DetachOldest, RemoveOldest, LoadFromCache, LoadMiss, Commit
  <2> QED BY <1>2, <1>3, <1>4, <1>5, <1>6, <2>1
<1> QED BY <1>8, <1>9, PoolSteps

\* The others hold what they held.
LEMMA StaysHeld ==
    ASSUME IInv, Onward, [NextPool]_vars, NEW w \in Viewer, Stays(w), Holds(w)
    PROVE  Holds(w)'
<1>1. \A o \in Oid : history[o] \subseteq history'[o]
  BY HistoryGrows
<1>2. committed[w] \in Nat /\ dbTid \in Nat /\ dbTid' \in Nat /\ dbTid' >= dbTid
  BY ViewerNumbers DEF Onward
<1>3. /\ pc'[w] = pc[w] /\ hvt'[w] = hvt[w] /\ snapshot'[w] = snapshot[w]
      /\ zodb'[w] = zodb[w] /\ committed'[w] = committed[w]
  BY DEF Stays, SameViewer
<1>4. committed'[w] <= dbTid'
  BY <1>2, <1>3 DEF Holds
<1> QED BY <1>1, <1>3, <1>4 DEF Holds

\* A viewer that moves holds some of what it held, and does not go back.
LEMMA MovesHeld ==
    ASSUME IInv, Onward, [NextPool]_vars, NEW v \in Viewer, Holds(v), UNCHANGED committed,
           hvt'[v] \in Nat, hvt'[v] >= hvt[v],
           \A o \in Oid : zodb'[v][o] \in {None, zodb[v][o]},
           \/ pc[v] \notin Ahead
           \/ pc'[v] \in Ahead
           \/ hvt'[v] >= committed[v]
           \/ zodb'[v] = EmptyMap,
           pc'[v] \in {"install", "build", "find", "collect", "move"} => committed[v] <= snapshot'[v]
    PROVE  Holds(v)'
<1>1. \A o \in Oid : history[o] \subseteq history'[o]
  BY HistoryGrows
<1>2. /\ committed[v] \in Nat /\ dbTid \in Nat /\ dbTid' \in Nat /\ dbTid' >= dbTid /\ hvt[v] \in Nat
      /\ \A o \in Oid : zodb[v][o] \in Nat
  BY ViewerNumbers DEF Onward
<1>3. committed'[v] <= dbTid'
  BY <1>2 DEF Holds
<1>4. ASSUME NEW o \in Oid, zodb'[v][o] # None
      PROVE  /\ zodb'[v][o] \in history'[o]
             /\ zodb'[v][o] <= hvt'[v] \/ (zodb'[v][o] = committed'[v] /\ pc'[v] \in Ahead)
  <2>1. zodb'[v][o] = zodb[v][o] /\ zodb[v][o] # None /\ zodb'[v] # EmptyMap
    BY <1>4 DEF EmptyMap
  <2>2. /\ zodb[v][o] \in history[o]
        /\ zodb[v][o] <= hvt[v] \/ (zodb[v][o] = committed[v] /\ pc[v] \in Ahead)
    BY <2>1 DEF Holds
  <2>3. zodb[v][o] <= hvt'[v] \/ (zodb[v][o] = committed[v] /\ pc'[v] \in Ahead)
    BY <1>2, <2>1, <2>2
  <2> QED BY <1>1, <2>1, <2>2, <2>3
<1> QED BY <1>3, <1>4 DEF Holds

\* A viewer that loads or commits holds one more state.
LEMMA LoadsHeld ==
    ASSUME IInv, Onward, [NextPool]_vars, NEW v \in Viewer, Holds(v), UNCHANGED <<committed, hvt>>,
           pc[v] \notin Ahead, pc'[v] \notin Ahead, NEW o \in Oid, NEW t,
           t \in history[o], t <= hvt[v],
           \A p \in Oid : zodb'[v][p] = IF p = o THEN t ELSE zodb[v][p]
    PROVE  Holds(v)'
<1>1. \A p \in Oid : history[p] \subseteq history'[p]
  BY HistoryGrows
<1>2. committed[v] \in Nat /\ dbTid \in Nat /\ dbTid' \in Nat /\ dbTid' >= dbTid
  BY ViewerNumbers DEF Onward
<1>3. committed'[v] <= dbTid'
  BY <1>2 DEF Holds
<1>4. ASSUME NEW p \in Oid, zodb'[v][p] # None
      PROVE  zodb'[v][p] \in history'[p] /\ zodb'[v][p] <= hvt'[v]
  BY <1>1, <1>4 DEF Holds
<1> QED BY <1>3, <1>4 DEF Holds, Ahead

\* So does every step of a viewer, where its load connection does not lag.
LEMMA ActsHeld ==
    ASSUME IInv, IInv', Onward, [NextPool]_vars, NEW v \in Viewer, Acts(v), Holds(v), CachedInv,
           Forwards(v), ~ deployment.replica
    PROVE  Holds(v)'
<1>0. TypeOK /\ HeapType /\ StageInv /\ HistoryInv /\ object_index # None /\ ViewerInv(v) /\ ViewerInv(v)'
  BY DEF IInv, HInv, PoolInv
<1>1. /\ hvt[v] \in Nat /\ committed[v] \in Nat /\ snapshot[v] \in Nat /\ dbTid \in Nat
      /\ committed[v] <= dbTid
      /\ \A o \in Oid : zodb[v][o] \in Nat
  BY ViewerNumbers DEF Holds
<1>2. hvt'[v] \in Nat /\ hvt'[v] >= hvt[v]
  <2>1. hvt'[v] \in Tid
    BY DEF IInv, HInv, TypeOK
  <2> QED BY <2>1, Numbers, ActsForward
<1>3. ASSUME UNCHANGED <<zodb, committed, snapshot>>, pc'[v] \in Ahead \/ pc[v] \notin Ahead,
             pc'[v] \in {"install", "build", "find", "collect", "move"} =>
                 pc[v] \in {"install", "build", "find", "collect", "move"}
      PROVE  Holds(v)'
  <2>1. pc'[v] \in {"install", "build", "find", "collect", "move"} => committed[v] <= snapshot'[v]
    BY <1>3 DEF Holds
  <2> QED BY <1>2, <1>3, <2>1, MovesHeld
<1>4. CASE PollStart(v)
  <2>1. pc'[v] = "query" /\ UNCHANGED <<zodb, committed, snapshot>>
    BY <1>0, <1>4 DEF PollStart, Goto, HeapType
  <2> QED BY <1>3, <2>1 DEF Ahead
<1>5. ASSUME NEW s \in InitTid..MaxTid, Query(v, s) PROVE Holds(v)'
  <2>1. snapshot'[v] = dbTid /\ UNCHANGED committed /\ pc[v] = "query"
    BY <1>0, <1>5 DEF Query, TypeOK
  <2>2. \/ pc'[v] \in {"install", "initial", "revert"} /\ UNCHANGED zodb
        \/ pc'[v] = "stale" /\ zodb' = [zodb EXCEPT ![v] = EmptyMap]
    BY <1>0, <1>5 DEF Query, Goto, HeapType, InvalidateAll
  <2>3. \/ pc'[v] = "install" /\ UNCHANGED zodb
        \/ pc'[v] = "stale" /\ zodb'[v] = EmptyMap
    BY <1>0, <2>2 DEF ViewerInv, TypeOK
  <2>4. \A o \in Oid : zodb'[v][o] \in {None, zodb[v][o]}
    BY <2>3 DEF EmptyMap
  <2>5. pc'[v] \in Ahead \/ zodb'[v] = EmptyMap
    BY <2>3 DEF Ahead
  <2> QED BY <1>1, <1>2, <2>1, <2>4, <2>5, MovesHeld
<1>6. CASE Install(v) \/ Build(v) \/ FindChanges(v) \/ CollectChanges(v)
  <2>1. /\ pc[v] \in {"install", "build", "find", "collect"}
        /\ pc'[v] \in {"build", "find", "collect", "move"}
        /\ UNCHANGED <<zodb, committed, snapshot>>
    BY <1>0, <1>6 DEF Install, LosePoll, Build, FindChanges, CollectChanges, Goto, HeapType
  <2> QED BY <1>3, <2>1 DEF Ahead
<1>7. CASE MoveViewer(v)
  <2>1. /\ pc[v] = "move" /\ pc'[v] \in {"open", "detach"} /\ UNCHANGED <<committed, snapshot>>
        /\ Invalidate(v, poll[v].changes)
    BY <1>0, <1>7 DEF MoveViewer, LosePoll, Goto, HeapType
  <2>2. hvt'[v] = snapshot[v]
    BY <1>0, <2>1 DEF ViewerInv, Locked
  <2>3. committed[v] <= snapshot[v]
    BY <2>1 DEF Holds
  <2>4. \A o \in Oid : zodb'[v][o] \in {None, zodb[v][o]}
    BY <1>0, <2>1 DEF Invalidate, TypeOK
  <2>5. hvt'[v] >= committed[v]
    BY <1>1, <2>2, <2>3
  <2> QED BY <1>2, <2>1, <2>4, <2>5, MovesHeld
<1>8. CASE DetachOldest(v) \/ RemoveOldest(v) \/ Freeze(v) \/ VacuumDone(v)
  <2>1. /\ pc[v] \in Locked /\ pc'[v] \in {"vacuum", "freeze", "open"}
        /\ UNCHANGED <<zodb, committed, snapshot>>
    BY <1>0, <1>8 DEF DetachOldest, RemoveOldest, Freeze, VacuumDone, Goto, HeapType, Locked
  <2> QED BY <1>3, <2>1 DEF Ahead, Locked
<1>9. ASSUME NEW o \in Oid, LoadFromCache(v, o) PROVE Holds(v)'
  <2>1. PICK t \in Hits(v, o) : Remember(v, o, t)
    BY <1>9 DEF LoadFromCache
  <2>2. pc[v] = "open" /\ UNCHANGED <<committed, hvt, pc>>
    BY <1>9 DEF LoadFromCache, viewer
  <2>3. t \in MatchingTid(cache[o], Lookup(index[v], o)) /\ (Lookup(index[v], o) = None => t <= hvt[v])
    BY DEF Hits
  <2>4. cache[o] \subseteq [tid : 1..MaxTid, frozen : BOOLEAN] /\ MaxTid \in Nat
    BY <1>0, MvccAssumption DEF TypeOK
  <2>5. PICK e \in cache[o] : e.tid = t /\ (Lookup(index[v], o) # None => t = Lookup(index[v], o))
    BY <2>3, <2>4, MatchingTidFinds
  <2>6. t \in history[o]
    BY <2>5 DEF CachedInv, Tids
  <2>7. t <= hvt[v]
    <3>1. index[v] \in Indexes /\ Front(index[v]).hvt = hvt[v]
      BY <1>0, PoolIndexes DEF ViewerInv, IInv
    <3>2. Lookup(index[v], o) \in {None, TidAt(o, hvt[v])}
      BY <3>1, LookupIsOfIndex
    <3>3. TidAt(o, hvt[v]) <= hvt[v]
      BY <1>0, <1>1, TidAtNewest
    <3> QED BY <2>3, <2>5, <3>2, <3>3
  <2>8. \A p \in Oid : zodb'[v][p] = IF p = o THEN t ELSE zodb[v][p]
    BY <1>0, <2>1 DEF Remember, TypeOK
  <2> QED BY <2>2, <2>6, <2>7, <2>8, LoadsHeld DEF Ahead
<1>10. ASSUME NEW o \in Oid, LoadMiss(v, o) PROVE Holds(v)'
  <2>1. pc[v] = "open" /\ pc'[v] = "loading" /\ UNCHANGED <<zodb, committed, snapshot>>
    BY <1>0, <1>10 DEF LoadMiss, Goto, HeapType
  <2> QED BY <1>3, <2>1 DEF Ahead
<1>11. CASE LoadFromDatabase(v)
  <2>1. /\ pc[v] = "loading" /\ pc'[v] = "open" /\ UNCHANGED <<committed, hvt>>
        /\ Remember(v, loading[v][1], Actual(v))
    BY <1>0, <1>11 DEF LoadFromDatabase, viewer, Goto, HeapType
  <2>2. /\ loading[v][1] \in Oid /\ Actual(v) \in 1..MaxTid /\ ~ FromFuture(v)
        /\ Actual(v) = TidAt(loading[v][1], snapshot[v])
    BY <2>1, LoadIsConsistent DEF Actual
  <2>3. Actual(v) # None /\ Actual(v) \in Nat
    BY <2>2, MvccAssumption DEF None
  <2>4. Actual(v) \in history[loading[v][1]]
    BY <1>0, <1>1, <2>2, <2>3, TidAtNewest
  <2>5. Actual(v) <= hvt[v]
    BY <1>1, <2>2, <2>3 DEF FromFuture
  <2>6. \A p \in Oid : zodb'[v][p] = IF p = loading[v][1] THEN Actual(v) ELSE zodb[v][p]
    BY <1>0, <2>1 DEF Remember, TypeOK
  <2>7. PICK o \in Oid, t \in Nat : o = loading[v][1] /\ t = Actual(v)
    BY <2>2, <2>3
  <2> QED BY <2>1, <2>4, <2>5, <2>6, <2>7, LoadsHeld DEF Ahead
<1>12. ASSUME NEW oids \in SUBSET Oid, Commit(v, oids) PROVE Holds(v)'
  <2>1. /\ pc[v] = "open" /\ pc'[v] = "finish" /\ UNCHANGED hvt /\ committed'[v] = dbTid + 1
        /\ dbTid' = dbTid + 1
        /\ \A o \in oids : history'[o] = history[o] \cup {dbTid + 1}
    BY <1>0, <1>12 DEF Commit, Write, Goto, HeapType, TypeOK, viewer
  <2>2. \A o \in Oid : \/ o \in oids /\ zodb'[v][o] \in {dbTid + 1, None}
                       \/ zodb'[v][o] = zodb[v][o]
    BY <1>0, <1>12 DEF Commit, TypeOK
  <2>3. \A o \in Oid : history[o] \subseteq history'[o]
    BY HistoryGrows
  <2>4. ASSUME NEW o \in Oid, zodb'[v][o] # None
        PROVE  /\ zodb'[v][o] \in history'[o]
               /\ zodb'[v][o] <= hvt'[v] \/ zodb'[v][o] = committed'[v]
    <3>1. CASE o \in oids /\ zodb'[v][o] = dbTid + 1
      BY <2>1, <3>1
    <3>2. CASE zodb'[v][o] = zodb[v][o]
      BY <2>1, <2>3, <2>4, <3>2 DEF Holds, Ahead
    <3> QED BY <2>2, <2>4, <3>1, <3>2
  <2>5. committed'[v] <= dbTid'
    BY <1>1, <2>1
  <2> QED BY <2>1, <2>4, <2>5 DEF Holds, Ahead
<1>13. CASE AfterTpcFinish(v)
  <2>1. pc[v] = "finish" /\ pc'[v] = "idle" /\ UNCHANGED <<zodb, committed, snapshot>>
    BY <1>0, <1>13 DEF AfterTpcFinish, Goto, HeapType
  <2> QED BY <1>3, <2>1 DEF Ahead
<1> QED BY <1>4, <1>5, <1>6, <1>7, <1>8, <1>9, <1>10, <1>11, <1>12, <1>13 DEF Acts

\* Every step keeps HeldInv.
LEMMA HeldKept ==
    ASSUME IInv, IInv', Onward, ForwardInv, HeldInv, [NextPool]_vars, ~ deployment.replica
    PROVE  HeldInv'
<1>1. CachedInv'
  BY CachedKept DEF HeldInv
<1>2. ASSUME NEW w \in Viewer PROVE Holds(w)'
  <2>0. Holds(w) /\ CachedInv /\ Forwards(w)
    BY DEF HeldInv, ForwardInv
  <2>1. CASE Elsewhere
    BY <2>0, <2>1, ElsewhereStays, StaysHeld
  <2>2. ASSUME NEW v \in Viewer, Acts(v) PROVE Holds(w)'
    <3>1. CASE w = v
      BY <2>0, <2>2, <3>1, ActsHeld
    <3>2. CASE w # v
      BY <2>0, <2>2, <3>2, OthersStay, StaysHeld
    <3> QED BY <3>1, <3>2
  <2> QED BY <2>1, <2>2, PoolSteps
<1> QED BY <1>1, <1>2 DEF HeldInv

\* The deployment never changes.
LEMMA SameDeployment ==
    ASSUME IInv, [NextPool]_vars
    PROVE  deployment' = deployment
<1>1. ASSUME NEW v \in Viewer, Acts(v) PROVE UNCHANGED deployment
  BY <1>1 DEF Acts, PollStart, Query, Install, Build, FindChanges, CollectChanges, MoveViewer,
     DetachOldest, RemoveOldest, Freeze, VacuumDone, LoadFromCache, LoadMiss, LoadFromDatabase,
     Commit, AfterTpcFinish
<1> QED BY <1>1, PoolSteps DEF Elsewhere, ExternalCommit, Evict, vars

\* At first nobody holds anything, and everybody is at the first tid.
LEMMA InitHeld ==
    ASSUME InitPool
    PROVE  ForwardInv /\ HeldInv
<1>1. /\ object_index = 1 /\ Front(1).hvt = InitTid /\ dbTid = InitTid
      /\ \A o \in Oid : history[o] = {InitTid}
      /\ \A o \in Oid : Tids(cache[o]) \subseteq {InitTid}
      /\ \A v \in Viewer : /\ pc[v] = "open" /\ hvt[v] = InitTid /\ committed[v] = 0
                           /\ \A o \in Oid : zodb[v][o] = None
  BY Numbers DEF InitPool, Start, NewBucket, Front, EmptyMap, Tids
<1>2. ForwardInv
  BY <1>1 DEF ForwardInv, Forwards, InitTid
<1>3. HeldInv
  BY <1>1 DEF HeldInv, CachedInv, Holds, InitTid
<1> QED BY <1>2, <1>3

\* What a ZODB connection holds was committed, and is not from the future of
\* its index, for any number of viewers and transactions, whether viewers are
\* cut off or not, and however their loads, commits and polls interleave with
\* the vacuums that freeze and discard the values they share.
THEOREM ViewersHoldThePast ==
    ASSUME \A d \in Deployment : ~ d.revert_when_stale
    PROVE  SpecPool => []ReadsNothingNewer
<1> DEFINE Inv == IInv /\ ForwardInv /\ (~ deployment.replica => HeldInv)
<1>1. InitPool => Inv
  BY InitPoolInv, InitHeld
<1>2. Inv /\ [NextPool]_vars => Inv'
  <2> SUFFICES ASSUME Inv, [NextPool]_vars PROVE Inv'
    OBVIOUS
  <2>1. IInv' /\ Onward
    BY NextPoolInv DEF Stepped
  <2>2. ForwardInv'
    BY <2>1, ForwardKept
  <2>3. deployment' = deployment
    BY SameDeployment
  <2>4. ~ deployment.replica => HeldInv'
    BY <2>1, HeldKept
  <2> QED BY <2>1, <2>2, <2>3, <2>4
<1>3. Inv => ReadsNothingNewer
  <2> SUFFICES ASSUME Inv, NEW v \in Viewer, NEW o \in Oid, InTransaction(v), zodb[v][o] # None,
                      ~ deployment.replica
               PROVE  zodb[v][o] \in history[o] /\ zodb[v][o] <= View(v)
    BY DEF ReadsNothingNewer
  <2>1. index[v] # None
    BY DEF IInv, PoolInv, ViewerInv
  <2>2. pc[v] \notin Ahead
    BY DEF InTransaction, Ahead
  <2> QED BY <2>1, <2>2 DEF HeldInv, Holds, View
<1> HIDE DEF Inv
<1> QED BY <1>1, <1>2, <1>3, PTL DEF SpecPool

-----------------------------------------------------------------------------
(* Every change is told. *)

\* No index has two buckets of one tid, so none is deeper than there are tids.
LEMMA DepthBounded ==
    ASSUME HInv, OrderInv, NEW i \in Indexes
    PROVE  Len(maps[i]) <= MaxTid + 1
<1>0. MaxTid \in Nat /\ Len(maps[i]) \in Nat /\ Len(maps[i]) \in At(i) /\ 1 \in At(i)
  BY MvccAssumption, Shape
<1>1. \A k \in At(i) : HvtOf(i, k) \in Nat /\ HvtOf(i, k) <= MaxTid
  <2>1. \A k \in At(i) : maps[i][k] \in Slot
    BY Shape
  <2>2. \A k \in At(i) : HvtOf(i, k) \in Tid
    BY <2>1 DEF HInv, TypeOK, HvtOf
  <2> QED BY <1>0, <2>2 DEF Tid
<1> DEFINE B == {k \in At(i) : HvtOf(i, k) > MaxTid + 1 - k}
<1>2. B = {}
  <2> SUFFICES ASSUME B # {} PROVE FALSE
    OBVIOUS
  <2>1. B \subseteq Nat
    BY Shape
  <2>2. PICK b \in B : \A y \in B : b <= y
    <3> HIDE DEF B
    <3> QED BY <2>1, LeastOf
  <2>3. b \in At(i) /\ b \in Nat /\ HvtOf(i, b) > MaxTid + 1 - b
    BY <2>1, <2>2
  <2>4. b # 1
    BY <1>0, <1>1, <2>3
  <2>5. b - 1 \in At(i) /\ b - 1 \in Nat /\ b - 1 < b
    BY <1>0, <2>3, <2>4 DEF At
  <2>6. HvtOf(i, b - 1) <= MaxTid + 1 - (b - 1)
    <3>1. b - 1 \notin B
      <4> HIDE DEF B
      <4> QED BY <2>2, <2>3, <2>5
    <3> QED BY <1>0, <1>1, <2>5, <3>1
  <2>7. HvtOf(i, b - 1) > HvtOf(i, b)
    BY <2>3, <2>5 DEF OrderInv
  <2> QED BY <1>0, <1>1, <2>3, <2>5, <2>6, <2>7
<1>3. ASSUME NEW k \in At(i) PROVE k <= MaxTid + 1
  <2>1. k \in Nat /\ HvtOf(i, k) \in Nat /\ ~ (HvtOf(i, k) > MaxTid + 1 - k)
    BY <1>1, <1>2, Shape
  <2>2. PICK h \in Nat : h = HvtOf(i, k)
    BY <2>1
  <2> QED BY <1>0, <2>1, <2>2
<1> QED BY <1>0, <1>3

\* A vacuum removes the oldest bucket when every viewer can do with the next.
LEMMA RemovesUnneeded ==
    ASSUME IInv, ToldInv, NEW v \in Viewer, RemoveOldest(v), NEW w \in Viewer, NEW i, i = poll[v].new
    PROVE  /\ Len(maps[i]) - 1 \in At(i)
           /\ HvtOf(i, Len(maps[i]) - 1) <= hvt[w]
           /\ HvtOf(i, Len(maps[i])) < hvt[w]
<1>0. TypeOK /\ HInv /\ StageInv /\ OrderInv
  BY DEF IInv, HInv, HeapInv
<1>1. pc[v] = "vacuum" /\ ~ StillNeeded(i)
  BY DEF RemoveOldest
<1>2. i \in Indexes
  BY <1>1, PoolIndexes DEF IInv, HasNew, Locked
<1>4. PICK n \in Nat : n = Len(maps[i]) /\ n \in At(i) /\ At(i) = 1..n
  BY <1>0, <1>2, Shape DEF At
<1>3. n > 1 /\ (Required = None \/ ~ (HvtOf(i, n - 1) > Required))
  BY <1>1, <1>4 DEF StillNeeded, Depth, SecondOldest, HvtOf
<1>5. n - 1 \in At(i) /\ n - 1 < n
  BY <1>3, <1>4
<1>6. HvtOf(i, n - 1) \in Nat /\ HvtOf(i, n) \in Nat /\ HvtOf(i, n - 1) > HvtOf(i, n)
  BY <1>0, <1>2, <1>4, <1>5, Shape DEF OrderInv
<1>7. Required \in Nat /\ Required # None /\ Required <= hvt[w] /\ hvt[w] \in Nat
  <2> DEFINE H == {hvt[x] : x \in Attached}
  <2>1. Attached = Viewer /\ \A x \in Viewer : hvt[x] # None
    BY DEF ToldInv, Attached
  <2>2. H \subseteq Nat /\ hvt[w] \in H
    BY <2>1, ViewerNumbers
  <2>3. None \notin H
    BY <2>1
  <2>4. Required = Min(H)
    BY <2>1 DEF Required
  <2> HIDE DEF H
  <2>5. PICK x \in H : Min(H) = x /\ \A y \in H : x <= y
    BY <2>2, LeastOf
  <2> QED BY <2>2, <2>3, <2>4, <2>5
<1>8. HvtOf(i, n - 1) <= hvt[w] /\ HvtOf(i, n) < hvt[w]
  BY <1>3, <1>6, <1>7
<1> QED BY <1>4, <1>5, <1>8

\* Every step leaves indexes that will do for every viewer.
LEMMA CoversKept ==
    ASSUME IInv, IInv', ToldInv, Stepped, \A w \in Viewer : hvt'[w] \in Nat /\ hvt'[w] >= hvt[w]
    PROVE  \A j \in Indexes', w \in Viewer : Covers(j, hvt[w])'
<1> SUFFICES ASSUME NEW j \in Indexes', NEW w \in Viewer
             PROVE  /\ \E k \in At(j)' : HvtOf(j, k)' <= hvt'[w]
                    /\ \A k \in At(j)' : ~ Open(j, k)' => HvtOf(j, k)' < hvt'[w]
  BY DEF Covers
<1>0. HInv /\ HInv' /\ hvt[w] \in Nat
  BY ViewerNumbers DEF IInv
<1>1. \A i \in Indexes : /\ \E k \in At(i) : HvtOf(i, k) <= hvt[w]
                         /\ \A k \in At(i) : ~ Open(i, k) => HvtOf(i, k) < hvt[w]
  BY DEF ToldInv, Covers
<1>2. \A i \in Indexes : \A k \in At(i) : HvtOf(i, k) \in Nat
  BY <1>0, Shape
<1>3. \A i \in Indexes : /\ \E k \in At(i) : HvtOf(i, k) <= hvt'[w]
                         /\ \A k \in At(i) : ~ Open(i, k) => HvtOf(i, k) < hvt'[w]
  BY <1>0, <1>1, <1>2
<1>4. CASE UNCHANGED <<bucket, maps>> /\ Indexes' \subseteq Indexes
  <2>1. At(j)' = At(j) /\ \A k : HvtOf(j, k)' = HvtOf(j, k) /\ (Open(j, k)' <=> Open(j, k))
    BY <1>4 DEF At, HvtOf, Open
  <2> QED BY <1>3, <1>4, <2>1
<1>5. ASSUME NEW s \in Slot, NEW i \in Indexes, NEW h \in Tid, NEW since \in Tid,
             PushedOn(s, i, h, since), Indexes' \subseteq Indexes \cup {s}
      PROVE  /\ \E k \in At(j)' : HvtOf(j, k)' <= hvt'[w]
             /\ \A k \in At(j)' : ~ Open(j, k)' => HvtOf(j, k)' < hvt'[w]
  <2>1. CASE j \in Indexes
    <3>1. At(j)' = At(j) /\ \A k \in At(j) : HvtOf(j, k)' = HvtOf(j, k) /\ (Open(j, k)' <=> Open(j, k))
      BY <1>5, <2>1, SameIndexSame DEF PushedOn
    <3> QED BY <1>3, <2>1, <3>1
  <2>2. CASE j = s
    <3>1. /\ At(j)' = 1..(Len(maps[i]) + 1) /\ Open(j, 1)'
          /\ \A k \in At(i) : HvtOf(j, k + 1)' = HvtOf(i, k) /\ (Open(j, k + 1)' <=> Open(i, k))
      BY <1>5, <2>2 DEF PushedOn
    <3>2. Len(maps[i]) \in Nat /\ At(i) = 1..Len(maps[i])
      BY <1>0, Shape DEF At
    <3>3. PICK k \in At(i) : HvtOf(i, k) <= hvt'[w]
      BY <1>3
    <3>4. k + 1 \in At(j)' /\ HvtOf(j, k + 1)' <= hvt'[w]
      BY <3>1, <3>2, <3>3
    <3>5. ASSUME NEW l \in At(j)', ~ Open(j, l)' PROVE HvtOf(j, l)' < hvt'[w]
      <4>1. l # 1
        BY <3>1, <3>5
      <4>2. l \in 1..(Len(maps[i]) + 1)
        BY <3>1
      <4>3. PICK m \in At(i) : l = m + 1
        <5>1. l - 1 \in At(i) /\ (l - 1) + 1 = l
          BY <1>0, <4>1, <4>2, PushedPositions
        <5> QED BY <5>1
      <4> QED BY <1>3, <3>1, <3>5, <4>3
    <3> QED BY <3>4, <3>5
  <2> QED BY <1>5, <2>1, <2>2
<1>6. ASSUME NEW i \in Indexes, NEW o \in Oid, NEW t \in Tid, ItemSet(i, o, t), UNCHANGED maps,
             Indexes' \subseteq Indexes
      PROVE  /\ \E k \in At(j)' : HvtOf(j, k)' <= hvt'[w]
             /\ \A k \in At(j)' : ~ Open(j, k)' => HvtOf(j, k)' < hvt'[w]
  <2>1. \A s \in Slot : bucket'[s].hvt = bucket[s].hvt /\ bucket'[s].open = bucket[s].open
    <3>1. CASE bucket' = bucket
      BY <3>1
    <3>2. ASSUME NEW k \in At(i), \A s \in Slot : s # maps[i][k] => bucket'[s] = bucket[s],
                 bucket'[maps[i][k]].hvt = bucket[maps[i][k]].hvt,
                 bucket'[maps[i][k]].open = bucket[maps[i][k]].open
          PROVE  \A s \in Slot : bucket'[s].hvt = bucket[s].hvt /\ bucket'[s].open = bucket[s].open
      BY <3>2
    <3> QED BY <1>6, <3>1, <3>2 DEF ItemSet
  <2>2. j \in Indexes /\ At(j)' = At(j) /\ \A k \in At(j) : maps[j][k] \in Slot
    BY <1>0, <1>6, Shape DEF At
  <2>3. \A k \in At(j) : HvtOf(j, k)' = HvtOf(j, k) /\ (Open(j, k)' <=> Open(j, k))
    BY <1>6, <2>1, <2>2 DEF HvtOf, Open
  <2> QED BY <1>3, <2>2, <2>3
<1>7. ASSUME NEW v \in Viewer, NEW S \in SUBSET Oid, RemoveOldest(v), Indexes' \subseteq Indexes,
             Removed(poll[v].new, maps[poll[v].new][Len(maps[poll[v].new])], S)
      PROVE  /\ \E k \in At(j)' : HvtOf(j, k)' <= hvt'[w]
             /\ \A k \in At(j)' : ~ Open(j, k)' => HvtOf(j, k)' < hvt'[w]
  <2>1. PICK i, n, old : i = poll[v].new /\ n = Len(maps[i]) /\ old = maps[i][n]
    OBVIOUS
  <2>2. Removed(i, old, S) /\ i \in Indexes /\ n \in Nat /\ n > 1
    BY <1>7, <2>1 DEF Removed
  <2>3. n - 1 \in At(i) /\ HvtOf(i, n - 1) <= hvt[w] /\ HvtOf(i, n) < hvt[w]
    BY <1>7, <2>1, RemovesUnneeded
  <2>4. /\ \A s \in Slot : bucket'[s].hvt = bucket[s].hvt
        /\ \A s \in Slot : s # old => bucket'[s].open = bucket[s].open
    BY <2>2 DEF Removed
  <2>5. j \in Indexes /\ j \in Slot /\ \A k \in At(j) : maps[j][k] \in Slot
    BY <1>0, <1>7, Shape
  <2>6. /\ At(j)' \subseteq At(j) /\ \A k \in At(j)' : maps'[j][k] = maps[j][k]
        /\ j # i => At(j)' = At(j)
        /\ j = i => n - 1 \in At(j)'
    <3>1. CASE j # i
      BY <2>2, <2>5, <3>1 DEF Removed, At
    <3>2. CASE j = i
      <4>1. Len(maps'[j]) = n - 1 /\ \A k \in 1..(n - 1) : maps'[j][k] = maps[j][k]
        BY <2>1, <2>2, <3>2 DEF Removed
      <4>2. At(j)' = 1..(n - 1) /\ At(j) = 1..n
        BY <2>1, <3>2, <4>1 DEF At
      <4> QED BY <2>2, <3>2, <4>1, <4>2
    <3> QED BY <3>1, <3>2
  <2>7. \A k \in At(j)' : HvtOf(j, k)' = HvtOf(j, k)
    BY <2>4, <2>5, <2>6 DEF HvtOf
  <2>8. \E k \in At(j)' : HvtOf(j, k)' <= hvt'[w]
    <3>1. CASE j # i
      BY <1>3, <2>5, <2>6, <2>7, <3>1
    <3>2. CASE j = i
      <4>1. n - 1 \in At(j)' /\ n - 1 \in At(i) /\ HvtOf(j, n - 1)' = HvtOf(i, n - 1)
        BY <2>3, <2>6, <2>7, <3>2
      <4>2. HvtOf(i, n - 1) \in Nat
        BY <1>2, <2>2, <4>1
      <4>3. HvtOf(i, n - 1) <= hvt'[w]
        BY <1>0, <2>3, <4>2
      <4> QED BY <4>1, <4>3
    <3> QED BY <3>1, <3>2
  <2>9. ASSUME NEW k \in At(j)', ~ Open(j, k)' PROVE HvtOf(j, k)' < hvt'[w]
    <3>0. k \in At(j) /\ maps'[j][k] = maps[j][k] /\ maps[j][k] \in Slot /\ HvtOf(j, k)' = HvtOf(j, k)
      BY <2>5, <2>6, <2>7
    <3>1. CASE maps[j][k] = old
      <4>1. HvtOf(j, k) = HvtOf(i, n)
        BY <2>1, <3>1 DEF HvtOf
      <4>2. HvtOf(j, k) \in Nat
        BY <1>2, <2>5, <3>0
      <4> QED BY <1>0, <2>3, <3>0, <4>1, <4>2
    <3>2. CASE maps[j][k] # old
      <4>1. ~ Open(j, k)
        BY <2>4, <2>9, <3>0, <3>2 DEF Open
      <4> QED BY <1>3, <2>5, <3>0, <4>1
    <3> QED BY <3>1, <3>2
  <2> QED BY <2>8, <2>9
<1> QED BY <1>4, <1>5, <1>6, <1>7 DEF Stepped

\* Nobody is cut off while an index can be that deep.
LEMMA AttachedKept ==
    ASSUME IInv, ToldInv, [NextPool]_vars, deployment.max_depth > MaxTid,
           \A w \in Viewer : hvt'[w] \in Nat /\ hvt'[w] >= hvt[w]
    PROVE  Attached' = Viewer
<1>0. /\ TypeOK /\ HInv /\ OrderInv /\ object_index # None
      /\ \A w \in Viewer : hvt[w] \in Nat /\ hvt[w] # None /\ ~ detached[w]
  <2>1. \A w \in Viewer : hvt[w] \in Nat
    BY ViewerNumbers
  <2>2. \A w \in Viewer : hvt[w] # None /\ ~ detached[w]
    BY DEF ToldInv, Attached
  <2> QED BY <2>1, <2>2 DEF IInv, HInv, HeapInv, PoolInv
<1>1. \A w \in Viewer : hvt'[w] # None
  BY <1>0 DEF None
<1>2. ASSUME NEW w \in Viewer PROVE ~ detached'[w]
  <2>1. CASE UNCHANGED detached
    BY <1>0, <2>1
  <2>2. ASSUME NEW v \in Viewer, MoveViewer(v) PROVE ~ detached'[w]
    BY <1>0, <2>2 DEF MoveViewer, LosePoll, SetViewerState, TypeOK
  <2>3. ASSUME NEW v \in Viewer, DetachOldest(v) PROVE ~ detached'[w]
    <3>1. pc[v] = "detach"
      BY <2>3 DEF DetachOldest
    <3>2. poll[v].new \in Indexes
      BY <3>1, PoolIndexes DEF IInv, HasNew, Locked
    <3>3. PICK n \in Nat, d \in Nat : n = Depth(poll[v].new) /\ d = deployment.max_depth
      BY <1>0, <3>2, Shape, MvccAssumption DEF Depth, TypeOK
    <3>4. n <= MaxTid + 1 /\ d > MaxTid /\ MaxTid \in Nat
      BY <1>0, <3>2, <3>3, DepthBounded, MvccAssumption DEF Depth
    <3>5. ~ (n > d)
      BY <3>3, <3>4
    <3>6. UNCHANGED detached
      BY <2>3, <3>3, <3>5 DEF DetachOldest
    <3> QED BY <2>1, <3>6
  <2>4. ASSUME NEW v \in Viewer, Acts(v) PROVE UNCHANGED detached \/ MoveViewer(v) \/ DetachOldest(v)
    BY <1>0, <2>4 DEF Acts, PollStart, Query, Install, LosePoll, Build, FindChanges, CollectChanges,
       RemoveOldest, Freeze, VacuumDone, LoadFromCache, LoadMiss, LoadFromDatabase, Commit,
       AfterTpcFinish, viewer
  <2>5. CASE Elsewhere
    BY <2>1, <2>5 DEF Elsewhere, ExternalCommit, Evict, vars, viewer
  <2> QED BY <2>1, <2>2, <2>3, <2>4, <2>5, PoolSteps
<1> QED BY <1>1, <1>2 DEF Attached

\* collect_changes_after finds every object that changed after a tid that
\* the index covers, with the object's tid at that of the index.
LEMMA CollectsChanges ==
    ASSUME IInv, NEW i \in Indexes, NEW h \in Nat, Covers(i, h), NEW o \in Oid,
           TidAt(o, Front(i).hvt) > h
    PROVE  CollectChangesAfter(i, h)[o] = TidAt(o, Front(i).hvt)
<1>0. HInv /\ TypeOK /\ LookupInv /\ CoverInv
  BY DEF IInv, HInv, HeapInv
<1>1. /\ Front(i).hvt = HvtOf(i, 1) /\ 1 \in At(i) /\ At(i) \subseteq Nat \ {0}
      /\ \A k \in At(i) : HvtOf(i, k) \in Nat
  BY <1>0, Shape DEF HvtOf, Front
<1>2. PICK n \in Nat : At(i) = 1..n
  BY <1>0, Shape DEF At
<1>3. \A k \in At(i) : TidAt(o, HvtOf(i, k)) \in Nat /\ TidAt(o, HvtOf(i, k)) <= HvtOf(i, k)
  BY <1>0, <1>1, TidAtNewest, Numbers
<1> DEFINE newer == {k \in 1..Depth(i) : \A j \in 1..k : bucket[maps[i][j]].hvt > h}
           found == newer \cap Positions(i, o)
<1>4. \A k : k \in newer <=> k \in At(i) /\ \A j \in 1..k : HvtOf(i, j) > h
  BY DEF At, Depth, HvtOf
<1>5. \A k : k \in found <=> k \in newer /\ Entry(i, k, o) # None
  BY <1>4 DEF Positions, At, Depth, Entry
<1>6. CollectChangesAfter(i, h)[o] = IF found = {} THEN None ELSE Entry(i, Min(found), o)
  BY DEF CollectChangesAfter, Entry
<1> HIDE DEF newer, found
<1>7. found # {}
  <2> SUFFICES ASSUME found = {} PROVE FALSE
    OBVIOUS
  <2> DEFINE Old == {k \in At(i) : HvtOf(i, k) <= h}
  <2>1. Old # {} /\ Old \subseteq Nat
    BY <1>1 DEF Covers
  <2>2. PICK m \in Old : \A y \in Old : m <= y
    <3> HIDE DEF Old
    <3> QED BY <2>1, LeastOf
  <2>3. m \in At(i) /\ m \in Nat /\ HvtOf(i, m) <= h
    BY <2>1, <2>2
  <2>4. m # 1
    BY <1>1, <1>3, <2>3
  <2>5. 1 < m
    BY <1>2, <2>3, <2>4
  <2>6. ASSUME NEW k \in 1..(m - 1) PROVE k \in At(i) /\ k < m /\ HvtOf(i, k) > h
    <3>1. k \in At(i) /\ k < m /\ k \in Nat
      BY <1>2, <2>3
    <3>2. k \notin Old
      <4> HIDE DEF Old
      <4> QED BY <2>2, <2>3, <3>1
    <3> QED BY <1>1, <3>1, <3>2
  <2>7. ASSUME NEW k \in 1..(m - 1) PROVE Open(i, k) /\ Entry(i, k, o) = None
    <3>1. k \in At(i) /\ HvtOf(i, k) > h /\ HvtOf(i, k) \in Nat
      BY <1>1, <2>6
    <3>2. Open(i, k)
      BY <3>1 DEF Covers
    <3>3. \A j \in 1..k : j \in 1..(m - 1)
      BY <2>3
    <3>4. k \in newer
      BY <1>4, <2>6, <3>1, <3>3
    <3> QED BY <1>5, <3>2, <3>4
  <2>8. TidAt(o, HvtOf(i, 1)) = TidAt(o, HvtOf(i, m))
    BY <1>0, <1>1, <2>3, <2>5, <2>7 DEF CoverInv
  <2> QED BY <1>1, <1>3, <2>3, <2>8
<1>8. found \subseteq Nat
  BY <1>1, <1>4, <1>5
<1>9. PICK l \in found : Min(found) = l /\ \A y \in found : l <= y
  BY <1>7, <1>8, LeastOf
<1>10. l \in At(i) /\ l \in Nat /\ Entry(i, l, o) # None
  BY <1>4, <1>5, <1>8
<1>11. ASSUME NEW k \in At(i), k < l PROVE Entry(i, k, o) = None
  <2>1. k \in Nat /\ \A j \in 1..k : j \in 1..l
    BY <1>1, <1>10, <1>11
  <2>2. k \in newer
    BY <1>4, <1>5, <2>1
  <2>3. k \notin found
    BY <1>9, <1>10, <1>11, <2>1
  <2> QED BY <1>5, <2>2, <2>3
<1>12. Entry(i, l, o) = TidAt(o, HvtOf(i, 1))
  BY <1>0, <1>10, <1>11 DEF LookupInv
<1> QED BY <1>1, <1>6, <1>7, <1>9, <1>12

\* Every step keeps ToldInv.
LEMMA ToldKept ==
    ASSUME IInv, IInv', Stepped, ForwardInv, ToldInv, [NextPool]_vars, deployment.max_depth > MaxTid
    PROVE  ToldInv'
<1>0. TypeOK /\ HeapType /\ Onward
  BY DEF IInv, HInv, Stepped
<1>1. \A w \in Viewer : hvt'[w] \in Nat /\ hvt'[w] >= hvt[w]
  <2>1. \A w \in Viewer : hvt'[w] \in Tid
    BY DEF IInv, HInv, TypeOK
  <2> QED BY <1>0, <2>1, Numbers, ForwardKept
<1>2. Attached' = Viewer
  BY <1>1, AttachedKept
<1>3. \A i \in Indexes', w \in Viewer : Covers(i, hvt[w])'
  BY <1>1, CoversKept
<1>4. ASSUME NEW w \in Viewer, pc'[w] = "move" PROVE Told(w)'
  <2>1. snapshot[w] \in Nat /\ snapshot[w] <= dbTid /\ hvt[w] \in Nat
    BY ViewerNumbers DEF IInv, PoolInv, ViewerInv
  <2>2. ASSUME UNCHANGED <<snapshot[w], hvt[w], committed[w], poll[w].changes>>, Told(w)
        PROVE  Told(w)'
    <3>1. PICK s \in Nat : s = snapshot[w] /\ s <= dbTid
      BY <2>1
    <3>2. \A o \in Oid : TidAt(o, s)' = TidAt(o, s)
      BY <1>0, <3>1 DEF Onward
    <3>3. \A o \in Oid : TidAt(o, snapshot[w])' = TidAt(o, s)'
      BY <2>2, <3>1 DEF TidAt
    <3> QED BY <2>2, <3>1, <3>2, <3>3 DEF Told
  <2>3. CASE Stays(w)
    <3>1. pc[w] = "move" /\ UNCHANGED <<snapshot[w], hvt[w], committed[w], poll[w].changes>>
      BY <1>4, <2>3 DEF Stays, SameViewer
    <3> QED BY <2>2, <3>1 DEF ToldInv
  <2>4. CASE Acts(w)
    <3>1. hvt[w] # None /\ ~ detached[w] /\ object_index # None
      BY DEF ToldInv, Attached, IInv, PoolInv
    <3>2. CollectChanges(w)
      BY <1>0, <1>4, <2>4, <3>1 DEF Acts, PollStart, Query, Install, LosePoll, Build, FindChanges,
         MoveViewer, DetachOldest, RemoveOldest, Freeze, VacuumDone, LoadFromCache, LoadMiss,
         LoadFromDatabase, Commit, AfterTpcFinish, Goto, HeapType
    <3>3. PICK changes : changes = CollectChangesAfter(poll[w].new, hvt[w])
      OBVIOUS
    <3>4. /\ pc[w] = "collect" /\ UNCHANGED <<snapshot, hvt, committed, history>>
          /\ poll'[w].changes = {o \in Oid : changes[o] # None /\ changes[o] # committed[w]}
      BY <1>0, <3>2, <3>3 DEF CollectChanges, viewer, database, HeapType, Poll
    <3>5. poll[w].new \in Indexes /\ Front(poll[w].new).hvt = snapshot[w]
      BY <3>4, PoolIndexes DEF IInv, PoolInv, ViewerInv, HasNew
    <3>6. ASSUME NEW o \in Oid, TidAt(o, snapshot[w]) > hvt[w]
          PROVE  o \in poll'[w].changes \/ TidAt(o, snapshot[w]) = committed[w]
      <4>1. Covers(poll[w].new, hvt[w])
        BY <3>5 DEF ToldInv
      <4>2. changes[o] = TidAt(o, snapshot[w])
        BY <2>1, <3>3, <3>5, <3>6, <4>1, CollectsChanges
      <4>3. TidAt(o, snapshot[w]) \in Nat
        BY <1>0, <2>1, TidAtNewest, Numbers
      <4>4. changes[o] # None
        BY <2>1, <3>6, <4>2, <4>3 DEF None
      <4> QED BY <3>4, <4>2, <4>4
    <3>7. \A o \in Oid : TidAt(o, snapshot[w])' = TidAt(o, snapshot[w])
      BY <3>4 DEF TidAt
    <3> QED BY <3>4, <3>6, <3>7 DEF Told
  <2> QED BY <2>3, <2>4, PoolSteps, OthersStay, ElsewhereStays
<1> QED BY <1>2, <1>3, <1>4 DEF ToldInv

\* At first there is one bucket, of the tid that everybody has.
LEMMA InitTold ==
    ASSUME InitPool
    PROVE  ToldInv
<1>1. /\ object_index = 1 /\ maps[1] = <<1>> /\ bucket[1].hvt = InitTid /\ bucket[1].open
      /\ \A v \in Viewer : /\ pc[v] = "open" /\ hvt[v] = InitTid /\ ~ detached[v] /\ index[v] = 1
                           /\ poll[v].new = None /\ poll[v].cur = None
  BY Numbers DEF InitPool, Start, NewBucket, NoPoll
<1>2. Indexes \subseteq {1}
  BY <1>1 DEF Indexes
<1>3. At(1) = {1} /\ HvtOf(1, 1) = InitTid /\ Open(1, 1)
  BY <1>1 DEF At, HvtOf, Open
<1>4. \A v \in Viewer : Covers(1, hvt[v])
  BY <1>1, <1>3 DEF Covers, InitTid
<1>5. Attached = Viewer
  BY <1>1 DEF Attached, InitTid, None
<1> QED BY <1>1, <1>2, <1>4, <1>5 DEF ToldInv

\* A viewer that polls is told of every object that changed since it last
\* polled, unless it wrote the change itself: for any number of viewers and
\* transactions, whatever polls overlap and whatever the vacuums removed
\* meanwhile, where the index cannot get so deep that viewers are cut off.
THEOREM PollsTellEverything ==
    ASSUME \A d \in Deployment : ~ d.revert_when_stale
    PROVE  SpecPool => []InvalidationsComplete
<1> DEFINE Inv == IInv /\ ForwardInv /\ (deployment.max_depth > MaxTid => ToldInv)
<1>1. InitPool => Inv
  BY InitPoolInv, InitHeld, InitTold
<1>2. Inv /\ [NextPool]_vars => Inv'
  <2> SUFFICES ASSUME Inv, [NextPool]_vars PROVE Inv'
    OBVIOUS
  <2>1. IInv' /\ Stepped /\ Onward
    BY NextPoolInv DEF Stepped
  <2>2. ForwardInv'
    BY <2>1, ForwardKept
  <2>3. deployment' = deployment
    BY SameDeployment
  <2>4. deployment.max_depth > MaxTid => ToldInv'
    BY <2>1, ToldKept
  <2> QED BY <2>1, <2>2, <2>3, <2>4
<1>3. Inv => InvalidationsComplete
  BY DEF ToldInv, Told, InvalidationsComplete
<1> HIDE DEF Inv
<1> QED BY <1>1, <1>2, <1>3, PTL DEF SpecPool

-----------------------------------------------------------------------------
(* A lone instance that reverts with its replica, among released ones. *)

\* The other instances of the process are not in use.
Resting(v) ==
    \A w \in Viewer : w # v => /\ pc[w] = "idle" /\ index[w] = None
                               /\ poll[w].cur = None /\ poll[w].new = None

\* Where the instance and its poll are.  Nobody else moves the coordinator,
\* so it polls with the installed index and never has to build its own; it
\* has an index only while the coordinator has one.
LoneViewer(v) ==
    /\ snapshot[v] <= dbTid
    /\ pc[v] \notin {"build", "stale"}
    /\ index[v] # None => object_index # None /\ hvt[v] = Front(index[v]).hvt
    /\ pc[v] \in {"query", "initial", "install"} =>
          poll[v].cur = object_index /\ poll[v].new = None
    /\ pc[v] \in {"query", "install"} /\ object_index # None =>
          poll[v].since = Front(object_index).hvt
    /\ pc[v] = "initial" => object_index = None
    /\ pc[v] = "install" => object_index # None /\ poll[v].since <= poll[v].polled
    /\ pc[v] \in {"initial", "install"} => poll[v].polled = snapshot[v]
    /\ pc[v] \in {"find", "collect", "move"} =>
          object_index # None /\ Front(poll[v].new).hvt = snapshot[v]
    /\ pc[v] \in {"open", "loading"} \cup Locked /\ index[v] # None => hvt[v] = snapshot[v]
    /\ pc[v] = "loading" => loading[v][2] \in {None, TidAt(loading[v][1], hvt[v])}

\* No bucket is newer than the database.
BucketsPast == \A s \in Slot : bucket[s].hvt <= dbTid

LoneInv(v) ==
    /\ HInv
    /\ HeapInv
    /\ BucketsPast
    /\ Resting(v)
    /\ LoneViewer(v)

\* The steps of the instance.
LoneActs(v) ==
    \/ PollStep(v)
    \/ LoadStep(v)
    \/ \E oids \in SUBSET Oid : Commit(v, oids)
    \/ AfterTpcFinish(v)
    \/ Release(v)

\* Only the instance in use takes steps.
LEMMA LoneSteps ==
    ASSUME NEW v \in Viewer, deployment.instances = {v}, [Next]_vars
    PROVE  LoneActs(v) \/ Elsewhere
<1>1. ASSUME NEW w \in Viewer, PollStep(w) PROVE w = v
  BY <1>1 DEF PollStep, PollStart, Query, InitialPoll, Revert, Install, Build, FindChanges,
     CollectChanges, MoveViewer, DetachOldest, RemoveOldest, Freeze, VacuumDone, MayRun
<1>2. ASSUME NEW w \in Viewer, LoadStep(w) PROVE w = v
  BY <1>2 DEF LoadStep, LoadWithoutIndex, LoadFromCache, LoadMiss, LoadFromDatabase, LoadConflict,
     LoadInconsistent, MayRun
<1>3. ASSUME NEW w \in Viewer, NEW oids \in SUBSET Oid, Commit(w, oids) PROVE w = v
  BY <1>3 DEF Commit
<1>4. ASSUME NEW w \in Viewer, AfterTpcFinish(w) \/ Release(w) PROVE w = v
  BY <1>4 DEF AfterTpcFinish, Release, MayRun
<1> QED BY <1>1, <1>2, <1>3, <1>4 DEF Next, NextPool, LoneActs, Elsewhere

\* The deployment never changes.
LEMMA LoneDeployment ==
    ASSUME [Next]_vars
    PROVE  deployment' = deployment
<1>1. ASSUME NEW w \in Viewer, PollStep(w) PROVE deployment' = deployment
  BY <1>1 DEF PollStep, PollStart, Query, InitialPoll, Revert, Install, Build, FindChanges,
     CollectChanges, MoveViewer, DetachOldest, RemoveOldest, Freeze, VacuumDone
<1>2. ASSUME NEW w \in Viewer, LoadStep(w) PROVE deployment' = deployment
  BY <1>2 DEF LoadStep, LoadWithoutIndex, LoadFromCache, LoadMiss, LoadFromDatabase, LoadConflict,
     LoadInconsistent
<1>3. ASSUME NEW w \in Viewer,
             AfterTpcFinish(w) \/ Release(w) \/ \E oids \in SUBSET Oid : Commit(w, oids)
      PROVE  deployment' = deployment
  BY <1>3 DEF AfterTpcFinish, Release, Commit
<1>4. ASSUME \/ \E oids \in SUBSET Oid : ExternalCommit(oids)
             \/ \E o \in Oid : Evict(o)
             \/ UNCHANGED vars
      PROVE  deployment' = deployment
  BY <1>4 DEF ExternalCommit, Evict, vars
<1> QED BY <1>1, <1>2, <1>3, <1>4 DEF Next, NextPool

\* The numbers of the instance.
LEMMA LoneNumbers ==
    ASSUME HInv, NEW v \in Viewer
    PROVE  /\ snapshot[v] \in Nat /\ snapshot[v] \in Tid /\ dbTid \in Nat /\ hvt[v] \in Nat
           /\ poll[v].since \in Nat /\ poll[v].since \in Tid /\ poll[v].polled \in Nat
           /\ \A s \in Slot : bucket[s].hvt \in Nat
<1>1. TypeOK /\ HeapType
  BY DEF HInv
<1>2. /\ snapshot[v] \in Tid /\ hvt[v] \in Tid /\ poll[v].since \in Tid /\ poll[v].polled \in Tid
      /\ \A s \in Slot : bucket[s].hvt \in Tid
  BY <1>1 DEF TypeOK, HeapType, Poll
<1>3. dbTid \in Nat
  BY <1>1, MvccAssumption DEF TypeOK
<1> QED BY <1>2, <1>3, Numbers

\* A step that leaves the heap alone, of the instance only.
LEMMA LoneQuiet ==
    ASSUME NEW v \in Viewer, LoneInv(v), HInv', UNCHANGED <<history, dbTid, bucket, maps>>,
           object_index' \in Indexes \cup {None},
           \A w \in Viewer : w # v => SameViewer(w), LoneViewer(v)',
           index'[v] \in Indexes \cup {None}, poll'[v].new \in Indexes \cup {None},
           poll'[v].cur \in Roots \cup {None},
           pc'[v] \notin {"vacuum", "freeze"} => poll'[v].cur \in Indexes \cup {None}
    PROVE  LoneInv(v)'
<1>0. HInv /\ HeapInv /\ BucketsPast /\ Resting(v)
  BY DEF LoneInv
<1>1. Indexes' \subseteq Indexes
  <2>1. /\ object_index' \in Indexes \cup {} \cup {None} /\ index'[v] \in Indexes \cup {} \cup {None}
        /\ poll'[v].new \in Indexes \cup {} \cup {None} /\ poll'[v].cur \in Roots \cup {} \cup {None}
        /\ pc'[v] \notin {"vacuum", "freeze"} => poll'[v].cur \in Indexes \cup {} \cup {None}
    OBVIOUS
  <2>2. Indexes' \subseteq Indexes \cup {}
    BY <2>1, StepIndexes
  <2> QED BY <2>2
<1>2. \A o \in Oid, s \in Nat : TidAt(o, s)' = TidAt(o, s)
  BY DEF TidAt
<1>3. HeapInv'
  BY <1>0, <1>1, <1>2, SameHeapInv DEF BucketsPast
<1>4. BucketsPast' /\ Resting(v)'
  BY <1>0 DEF BucketsPast, Resting, SameViewer
<1> QED BY <1>3, <1>4 DEF LoneInv

\* The start of a poll.
LEMMA PollStartLone ==
    ASSUME NEW v \in Viewer, LoneInv(v), HInv', PollStart(v)
    PROVE  LoneInv(v)'
<1>0. HInv /\ TypeOK /\ HeapType /\ LoneViewer(v)
  BY DEF LoneInv, HInv
<1>1. /\ pc' = [pc EXCEPT ![v] = "query"]
      /\ UNCHANGED <<history, dbTid, object_index, bucket, maps, hvt, index, snapshot, loading>>
  BY DEF PollStart, Goto, database, heap, viewer
<1> DEFINE p == [NoPoll EXCEPT !.cur = object_index,
                     !.since = IF object_index = None THEN 0 ELSE Front(object_index).hvt]
<1>2. /\ poll' = [poll EXCEPT ![v] = p] /\ p.cur = object_index /\ p.new = None
      /\ object_index # None => p.since = Front(object_index).hvt
  BY DEF PollStart, NoPoll
<1> HIDE DEF p
<1>3. /\ poll'[v] = p /\ pc'[v] = "query"
      /\ \A w \in Viewer : w # v => SameViewer(w)
  BY <1>0, <1>1, <1>2 DEF HeapType, SameViewer
<1>4. LoneViewer(v)'
  BY <1>0, <1>1, <1>2, <1>3 DEF LoneViewer, Front, Locked
<1>5. /\ object_index' \in Indexes \cup {None} /\ index'[v] \in Indexes \cup {None}
      /\ poll'[v].new \in Indexes \cup {None} /\ poll'[v].cur \in Indexes \cup {None}
  BY <1>1, <1>2, <1>3, InUse
<1>6. poll'[v].cur \in Roots \cup {None}
  BY <1>0, <1>5, IndexesReachable
<1> QED BY <1>1, <1>3, <1>4, <1>5, <1>6, LoneQuiet

\* The query: a snapshot before the index makes the instance revert.
LEMMA QueryLone ==
    ASSUME NEW v \in Viewer, LoneInv(v), HInv', NEW s \in InitTid..MaxTid, Query(v, s),
           deployment.revert_when_stale
    PROVE  LoneInv(v)'
<1>0. HInv /\ TypeOK /\ HeapType /\ LoneViewer(v)
  BY DEF LoneInv, HInv
<1>1. /\ pc[v] = "query" /\ snapshot' = [snapshot EXCEPT ![v] = s]
      /\ UNCHANGED <<history, dbTid, object_index, bucket, maps, hvt, index, loading>>
  BY DEF Query, database, heap, viewer
<1>2. PICK q : /\ poll' = [poll EXCEPT ![v].polled = q]
               /\ q = IF deployment.replica \/ poll[v].cur = None \/ s > poll[v].since
                      THEN s ELSE poll[v].since
  BY DEF Query
<1>3. /\ poll'[v].polled = q /\ poll'[v].since = poll[v].since /\ poll'[v].cur = poll[v].cur
      /\ poll'[v].new = poll[v].new /\ \A w \in Viewer : w # v => poll'[w] = poll[w]
  BY <1>0, <1>2 DEF HeapType, Poll
<1>4. \/ poll[v].cur = None /\ pc' = [pc EXCEPT ![v] = "initial"]
      \/ poll[v].cur # None /\ s >= poll[v].since /\ pc' = [pc EXCEPT ![v] = "install"]
      \/ pc' = [pc EXCEPT ![v] = "revert"]
  BY DEF Query, Goto
<1>5. s \in Nat /\ s <= dbTid /\ poll[v].since \in Nat
  <2>1. s \in Nat /\ dbTid \in Nat /\ poll[v].since \in Nat
    BY <1>0, LoneNumbers, MvccAssumption DEF InitTid
  <2>2. s \in InitTid..dbTid \/ s = dbTid
    BY DEF Query
  <2> QED BY <2>1, <2>2 DEF InitTid
<1>6. /\ snapshot'[v] = s /\ \A w \in Viewer : w # v => SameViewer(w)
      /\ \/ poll[v].cur = None /\ pc'[v] = "initial"
         \/ poll[v].cur # None /\ s >= poll[v].since /\ pc'[v] = "install"
         \/ pc'[v] = "revert"
  BY <1>0, <1>1, <1>3, <1>4 DEF HeapType, TypeOK, SameViewer
<1>7. s >= poll[v].since \/ poll[v].cur = None => q = s
  BY <1>2, <1>5
<1>8. LoneViewer(v)'
  <2>0. /\ poll[v].cur = object_index /\ poll[v].new = None
        /\ object_index # None => poll[v].since = Front(object_index).hvt
    BY <1>0, <1>1 DEF LoneViewer
  <2>1. CASE poll[v].cur = None /\ pc'[v] = "initial"
    BY <1>0, <1>1, <1>3, <1>5, <1>6, <1>7, <2>0, <2>1 DEF LoneViewer, Front, Locked
  <2>2. CASE poll[v].cur # None /\ s >= poll[v].since /\ pc'[v] = "install"
    BY <1>0, <1>1, <1>3, <1>5, <1>6, <1>7, <2>0, <2>2 DEF LoneViewer, Front, Locked
  <2>3. CASE pc'[v] = "revert"
    BY <1>0, <1>1, <1>3, <1>5, <1>6, <2>0, <2>3 DEF LoneViewer, Front, Locked
  <2> QED BY <1>6, <2>1, <2>2, <2>3
<1>9. /\ object_index' \in Indexes \cup {None} /\ index'[v] \in Indexes \cup {None}
      /\ poll'[v].new \in Indexes \cup {None}
      /\ poll'[v].cur \in Roots \cup {None} /\ poll'[v].cur \in Indexes \cup {None}
  BY <1>1, <1>3, InUse
<1> QED BY <1>1, <1>6, <1>8, <1>9, LoneQuiet

\* The first bucket of an index, where there was none: what was in the heap
\* is out of use.
LEMMA FreshHeapInv ==
    ASSUME HInv, HInv', HeapInv, UNCHANGED history, NEW s \in Slot, NEW h \in Tid,
           PushBucket(s, None, h, Incomplete, EmptyMap), Indexes' \subseteq {s}
    PROVE  HeapInv'
<1>1. \A p, a : TidAt(p, a)' = TidAt(p, a)
  BY DEF TidAt
<1>2. /\ bucket'[s] = NewBucket(h, Incomplete, EmptyMap) /\ maps'[s] = <<s>>
      /\ \A r \in Slot : r # s => bucket'[r] = bucket[r] \/ bucket'[r] = Free
  BY DEF PushBucket
<1>3. At(s)' = {1} /\ \A o \in Oid : Entry(s, 1, o)' = None
  BY <1>2 DEF At, Entry, NewBucket, EmptyMap
<1>4. OrderInv' /\ ClosedInv'
  BY <1>3 DEF OrderInv, ClosedInv
<1>5. EntryInv'
  <2> SUFFICES ASSUME NEW r \in Slot, NEW o \in Oid
               PROVE  /\ bucket'[r].map[o] \in {None, TidAt(o, bucket'[r].hvt)}
                      /\ bucket'[r].open /\ bucket'[r].cst # Incomplete
                            /\ TidAt(o, bucket'[r].hvt) > bucket'[r].cst
                         => bucket'[r].map[o] # None
    BY <1>1 DEF EntryInv
  <2>1. CASE r = s
    BY <1>2, <2>1 DEF NewBucket, EmptyMap
  <2>2. CASE bucket'[r] = Free
    BY <2>2 DEF Free, EmptyMap
  <2>3. CASE bucket'[r] = bucket[r]
    BY <2>3 DEF HeapInv, EntryInv
  <2> QED BY <1>2, <2>1, <2>2, <2>3
<1>6. LookupInv'
  BY <1>3 DEF LookupInv
<1>7. CoverInv'
  BY <1>3 DEF CoverInv
<1>8. SharedInv'
  BY <1>3 DEF SharedInv
<1> QED BY <1>4, <1>5, <1>6, <1>7, <1>8 DEF HeapInv

\* The first poll starts an index.
LEMMA InitialPollLone ==
    ASSUME NEW v \in Viewer, LoneInv(v), HInv', InitialPoll(v)
    PROVE  LoneInv(v)'
<1>0. HInv /\ HeapInv /\ TypeOK /\ HeapType /\ LoneViewer(v) /\ Resting(v) /\ BucketsPast
  BY DEF LoneInv, HInv
<1>1. pc[v] = "initial" /\ object_index = None /\ poll[v].polled = snapshot[v] /\ index[v] = None
  BY <1>0 DEF InitialPoll, LoneViewer
<1>2. PICK s \in Slot :
         /\ PushBucket(s, None, snapshot[v], Incomplete, EmptyMap)
         /\ object_index' = s /\ index' = [index EXCEPT ![v] = s]
         /\ hvt' = [hvt EXCEPT ![v] = snapshot[v]]
  BY <1>1 DEF InitialPoll
<1>3. /\ poll' = [poll EXCEPT ![v] = NoPoll] /\ pc' = [pc EXCEPT ![v] = "open"]
      /\ UNCHANGED <<history, dbTid, snapshot, loading>>
  BY DEF InitialPoll, Goto, database
<1>4. /\ poll'[v] = NoPoll /\ pc'[v] = "open" /\ index'[v] = s /\ hvt'[v] = snapshot[v]
      /\ \A w \in Viewer : w # v => SameViewer(w)
  BY <1>0, <1>2, <1>3 DEF HeapType, TypeOK, SameViewer
<1>5. NoPoll.cur = None /\ NoPoll.new = None /\ s # None
  BY Numbers DEF NoPoll
<1>6. Resting(v)'
  BY <1>0, <1>4 DEF Resting, SameViewer
<1>7. Indexes' \subseteq {s}
  <2>1. \A w \in Viewer : /\ index'[w] \in {s, None} /\ poll'[w].new = None /\ poll'[w].cur = None
    BY <1>4, <1>5, <1>6 DEF Resting
  <2> QED BY <1>2, <2>1 DEF Indexes
<1>8. snapshot[v] \in Tid /\ snapshot[v] <= dbTid /\ dbTid \in Nat
  BY <1>0, LoneNumbers DEF LoneViewer
<1>9. HeapInv'
  BY <1>0, <1>2, <1>3, <1>7, <1>8, FreshHeapInv
<1>10. /\ bucket'[s].hvt = snapshot[v]
       /\ \A r \in Slot : r # s => bucket'[r] = bucket[r] \/ bucket'[r] = Free
  BY <1>2 DEF PushBucket, NewBucket
<1>11. BucketsPast'
  <2> SUFFICES ASSUME NEW r \in Slot PROVE bucket'[r].hvt <= dbTid
    BY <1>3 DEF BucketsPast
  <2>1. CASE r = s
    BY <1>8, <1>10, <2>1
  <2>2. CASE bucket'[r] = bucket[r]
    BY <1>0, <2>2 DEF BucketsPast
  <2>3. CASE bucket'[r] = Free
    BY <1>8, <2>3 DEF Free
  <2> QED BY <1>10, <2>1, <2>2, <2>3
<1>12. LoneViewer(v)'
  BY <1>2, <1>3, <1>4, <1>5, <1>8, <1>10 DEF LoneViewer, Front, Locked
<1> QED BY <1>6, <1>9, <1>11, <1>12 DEF LoneInv

\* The instance forgets its index, and so does the coordinator.
LEMMA RevertLone ==
    ASSUME NEW v \in Viewer, LoneInv(v), HInv', Revert(v)
    PROVE  LoneInv(v)'
<1>0. HInv /\ TypeOK /\ HeapType /\ LoneViewer(v)
  BY DEF LoneInv, HInv
<1>1. /\ object_index' = None /\ index' = [index EXCEPT ![v] = None]
      /\ hvt' = [hvt EXCEPT ![v] = None] /\ poll' = [poll EXCEPT ![v] = NoPoll]
      /\ pc' = [pc EXCEPT ![v] = "open"]
      /\ UNCHANGED <<history, dbTid, bucket, maps, snapshot, loading>>
  BY DEF Revert, FlushAll, Goto, database, heap
<1>2. /\ poll'[v] = NoPoll /\ pc'[v] = "open" /\ index'[v] = None
      /\ \A w \in Viewer : w # v => SameViewer(w)
  BY <1>0, <1>1 DEF HeapType, TypeOK, SameViewer
<1>3. NoPoll.cur = None /\ NoPoll.new = None
  BY DEF NoPoll
<1>4. LoneViewer(v)'
  BY <1>0, <1>1, <1>2 DEF LoneViewer, Locked
<1> QED BY <1>1, <1>2, <1>3, <1>4, LoneQuiet

\* The poll found changes: they go on the installed index.
LEMMA InstallsLone ==
    ASSUME NEW v \in Viewer, LoneInv(v), HInv', pc[v] = "install", object_index # None,
           Front(object_index).hvt < poll[v].polled, NEW s \in Slot,
           PushBucket(s, object_index, poll[v].polled, poll[v].since,
                      ChangesAfter(poll[v].since, snapshot[v])),
           object_index' = s, PollNext(v, s), pc' = [pc EXCEPT ![v] = "find"],
           UNCHANGED <<history, dbTid, hvt, index, snapshot, loading>>
    PROVE  LoneInv(v)'
<1>0. HInv /\ HeapInv /\ TypeOK /\ HeapType /\ LoneViewer(v) /\ Resting(v) /\ BucketsPast
  BY DEF LoneInv, HInv
<1> DEFINE h == snapshot[v]
           since == poll[v].since
           i == object_index
<1>1. /\ h \in Tid /\ h \in Nat /\ since \in Tid /\ since \in Nat /\ h <= dbTid /\ dbTid \in Nat
      /\ poll[v].polled = h /\ since = Front(i).hvt /\ i \in Indexes
  BY <1>0, LoneNumbers, InUse DEF LoneViewer
<1>2. PushBucket(s, i, h, since, ChangesAfter(since, h)) /\ since <= Front(i).hvt /\ Front(i).hvt < h
  BY <1>1
<1>3. poll'[v].new = s /\ poll'[v].cur = poll[v].cur /\ pc'[v] = "find"
      /\ \A w \in Viewer : w # v => SameViewer(w)
  BY <1>0 DEF HeapType, PollNext, SameViewer
<1> HIDE DEF h, since, i
<1>4. PushedOn(s, i, h, since)
  BY <1>0, <1>1, <1>2, PushedOnIndex
<1>5. \A j \in Indexes : bucket'[j] = bucket[j]
  <2>1. \A j \in Indexes : SameIndex(j)
    BY <1>4 DEF PushedOn
  <2>2. \A j \in Indexes : maps[j][1] = j /\ 1 \in At(j)
    BY <1>0, Shape
  <2> QED BY <2>1, <2>2 DEF SameIndex
<1>6. bucket'[s].hvt = h
  BY <1>4 DEF PushedOn, HvtOf
<1>7. BucketsPast'
  <2> SUFFICES ASSUME NEW r \in Slot PROVE bucket'[r].hvt <= dbTid
    BY DEF BucketsPast
  <2>1. CASE bucket'[r] = bucket[r]
    BY <1>0, <2>1 DEF BucketsPast
  <2>2. CASE bucket'[r] = Free
    BY <1>1, <2>2 DEF Free
  <2>3. CASE bucket'[r] = NewBucket(h, since, ChangesAfter(since, h))
    BY <1>1, <2>3 DEF NewBucket
  <2> QED BY <1>4, <2>1, <2>2, <2>3 DEF PushedOn
<1>8. Indexes' \subseteq Indexes \cup {s}
  <2>1. /\ object_index' \in Indexes \cup {s} \cup {None} /\ index'[v] \in Indexes \cup {s} \cup {None}
        /\ poll'[v].new \in Indexes \cup {s} \cup {None} /\ poll'[v].cur \in Roots \cup {s} \cup {None}
        /\ pc'[v] \notin {"vacuum", "freeze"} => poll'[v].cur \in Indexes \cup {s} \cup {None}
    BY <1>3, InUse
  <2> QED BY <1>3, <2>1, StepIndexes
<1>9. HeapInv'
  BY <1>0, <1>1, <1>2, <1>8, PushHeapInv
<1>10. Resting(v)'
  BY <1>0, <1>3 DEF Resting, SameViewer
<1>11. LoneViewer(v)'
  <2>1. index'[v] # None => hvt'[v] = bucket'[index'[v]].hvt
    BY <1>0, <1>5, InUse DEF LoneViewer, Front
  <2>2. bucket'[poll'[v].new].hvt = snapshot'[v] /\ snapshot'[v] <= dbTid' /\ object_index' # None
    BY <1>1, <1>3, <1>6, Numbers DEF h
  <2> QED BY <1>3, <2>1, <2>2 DEF LoneViewer, Front, Locked
<1> QED BY <1>7, <1>9, <1>10, <1>11 DEF LoneInv

\* Steps of a poll that only look at the heap.
LEMMA LookLone ==
    ASSUME NEW v \in Viewer, LoneInv(v), HInv', NEW new \in Indexes, PollNext(v, new),
           NEW p \in {"find", "collect", "move"}, object_index # None,
           pc[v] \in {"install", "find", "collect"}, Front(new).hvt = snapshot[v],
           pc' = [pc EXCEPT ![v] = p],
           UNCHANGED <<database, object_index, heap, viewer, snapshot, loading>>
    PROVE  LoneInv(v)'
<1>0. HInv /\ TypeOK /\ HeapType /\ LoneViewer(v)
  BY DEF LoneInv, HInv
<1>1. UNCHANGED <<history, dbTid, object_index, bucket, maps, hvt, index, snapshot, loading>>
  BY DEF database, viewer, heap
<1>2. /\ pc'[v] = p /\ poll'[v].new = new /\ poll'[v].cur = poll[v].cur
      /\ \A w \in Viewer : w # v => SameViewer(w)
  BY <1>0, <1>1 DEF HeapType, PollNext, SameViewer
<1>3. LoneViewer(v)'
  BY <1>0, <1>1, <1>2 DEF LoneViewer, Front, Locked
<1>4. /\ object_index' \in Indexes \cup {None} /\ index'[v] \in Indexes \cup {None}
      /\ poll'[v].new \in Indexes \cup {None}
      /\ poll'[v].cur \in Roots \cup {None} /\ poll'[v].cur \in Indexes \cup {None}
  BY <1>1, <1>2, InUse
<1> QED BY <1>1, <1>2, <1>3, <1>4, LoneQuiet

\* The first locked section: the index is as old as the poll's, never newer.
LEMMA InstallLone ==
    ASSUME NEW v \in Viewer, LoneInv(v), HInv', Install(v)
    PROVE  LoneInv(v)'
<1>0. HInv /\ TypeOK /\ HeapType /\ LoneViewer(v)
  BY DEF LoneInv, HInv
<1>1. /\ pc[v] = "install" /\ object_index # None
      /\ UNCHANGED <<database, cache, toDelete, lock, snapshot, loading, committed, deployment>>
  BY <1>0 DEF Install, LoneViewer
<1>2. /\ object_index \in Indexes /\ poll[v].polled = snapshot[v]
      /\ Front(object_index).hvt = poll[v].since /\ poll[v].since <= poll[v].polled
      /\ poll[v].since \in Nat /\ poll[v].polled \in Nat
  BY <1>0, <1>1, InUse, LoneNumbers DEF LoneViewer
<1>3. ASSUME Front(object_index).hvt < poll[v].polled, NEW s \in Slot,
             PushBucket(s, object_index, poll[v].polled, poll[v].since,
                        ChangesAfter(poll[v].since, snapshot[v])),
             object_index' = s, poll' = [poll EXCEPT ![v].new = s, ![v].moved = TRUE],
             Goto(v, "find"), UNCHANGED <<viewer, zodb>>
      PROVE  LoneInv(v)'
  <2>1. PollNext(v, s)
    BY <1>0, <1>3, PollNew
  <2>2. UNCHANGED <<history, dbTid, hvt, index, snapshot, loading>> /\ pc' = [pc EXCEPT ![v] = "find"]
    BY <1>1, <1>3 DEF database, viewer, Goto
  <2> QED BY <1>1, <1>3, <2>1, <2>2, InstallsLone
<1>4. CASE /\ NoWork(v)
           /\ poll' = [poll EXCEPT ![v].new = object_index]
           /\ Goto(v, "find")
           /\ UNCHANGED <<object_index, heap, viewer, zodb>>
  <2>0. object_index \in Slot
    BY <1>0, <1>2, Shape
  <2>1. PollNext(v, object_index)
    BY <1>0, <1>4, <2>0, PollNew
  <2>2. Front(object_index).hvt = snapshot[v]
    BY <1>2, <1>4 DEF NoWork
  <2> QED BY <1>1, <1>2, <1>4, <2>1, <2>2, LookLone DEF Goto
<1>5. ~ (Front(object_index).hvt > poll[v].polled)
  BY <1>2
<1> QED BY <1>1, <1>3, <1>4, <1>5 DEF Install, LosePoll

\* The changes for the instance.
LEMMA FindLone ==
    ASSUME NEW v \in Viewer, LoneInv(v), HInv', FindChanges(v) \/ CollectChanges(v)
    PROVE  LoneInv(v)'
<1>0. HInv /\ TypeOK /\ HeapType /\ StageInv /\ LoneViewer(v)
  BY DEF LoneInv, HInv
<1>1. /\ pc[v] \in {"find", "collect"}
      /\ UNCHANGED <<database, object_index, heap, viewer, snapshot, loading>>
  BY DEF FindChanges, CollectChanges
<1>2. poll[v].new \in Indexes /\ Front(poll[v].new).hvt = snapshot[v] /\ object_index # None
  BY <1>0, <1>1, InUse DEF HasNew, StageInv, LoneViewer
<1>3. PollNext(v, poll[v].new)
  <2>1. UNCHANGED poll \/ \E c \in SUBSET Oid : poll' = [poll EXCEPT ![v].changes = c]
    BY DEF FindChanges, CollectChanges
  <2>2. CASE UNCHANGED poll
    BY <1>0, <2>2 DEF HeapType, PollNext
  <2>3. ASSUME NEW c \in SUBSET Oid, poll' = [poll EXCEPT ![v].changes = c]
        PROVE  PollNext(v, poll[v].new)
    BY <1>0, <2>3, PollChanges
  <2> QED BY <2>1, <2>2, <2>3
<1>4. \E p \in {"collect", "move"} : pc' = [pc EXCEPT ![v] = p]
  BY DEF FindChanges, CollectChanges, Goto
<1> QED BY <1>1, <1>2, <1>3, <1>4, LookLone

\* The second locked section.
LEMMA MoveViewerLone ==
    ASSUME NEW v \in Viewer, LoneInv(v), HInv', MoveViewer(v)
    PROVE  LoneInv(v)'
<1>0. HInv /\ TypeOK /\ HeapType /\ StageInv /\ LoneViewer(v)
  BY DEF LoneInv, HInv
<1>1. /\ pc[v] = "move" /\ object_index # None
      /\ UNCHANGED <<history, dbTid, snapshot, loading>>
  BY <1>0 DEF MoveViewer, LoneViewer, database
<1>2. /\ SetViewerState(v, poll[v].new)
      /\ \/ Goto(v, "detach") /\ UNCHANGED poll
         \/ Goto(v, "open") /\ poll' = [poll EXCEPT ![v] = NoPoll]
      /\ UNCHANGED <<object_index, bucket, maps>>
  BY <1>1 DEF MoveViewer, LosePoll, heap
<1>3. poll[v].new \in Indexes /\ poll[v].new # None /\ Front(poll[v].new).hvt = snapshot[v]
  BY <1>0, <1>1, InUse DEF HasNew, StageInv, LoneViewer
<1>4. index' = [index EXCEPT ![v] = poll[v].new] /\ hvt' = [hvt EXCEPT ![v] = snapshot[v]]
  BY <1>2, <1>3 DEF SetViewerState
<1>5. /\ index'[v] = poll[v].new /\ hvt'[v] = snapshot[v]
      /\ \A w \in Viewer : w # v => SameViewer(w)
      /\ pc'[v] \in {"open", "detach"}
      /\ poll'[v] = poll[v] \/ poll'[v] = NoPoll
  BY <1>0, <1>1, <1>2, <1>4 DEF HeapType, TypeOK, SameViewer, Goto
<1>6. LoneViewer(v)'
  BY <1>0, <1>1, <1>2, <1>3, <1>5 DEF LoneViewer, Front
<1>7. /\ object_index' \in Indexes \cup {None} /\ index'[v] \in Indexes
      /\ poll'[v].new \in Indexes \cup {None}
      /\ poll'[v].cur \in Roots \cup {None} /\ poll'[v].cur \in Indexes \cup {None}
  <2>1. NoPoll.cur = None /\ NoPoll.new = None
    BY DEF NoPoll
  <2> QED BY <1>1, <1>2, <1>3, <1>5, <2>1, InUse
<1> QED BY <1>1, <1>2, <1>5, <1>6, <1>7, LoneQuiet

\* The vacuum cuts off viewers, freezes a bucket, ends.
LEMMA VacuumLone ==
    ASSUME NEW v \in Viewer, LoneInv(v), HInv', DetachOldest(v) \/ Freeze(v) \/ VacuumDone(v)
    PROVE  LoneInv(v)'
<1>0. HInv /\ TypeOK /\ HeapType /\ LoneViewer(v)
  BY DEF LoneInv, HInv
<1>1. /\ pc[v] \in Locked
      /\ UNCHANGED <<history, dbTid, object_index, bucket, maps, hvt, index, snapshot, loading>>
  BY DEF DetachOldest, Freeze, VacuumDone, Locked, database, heap, viewer
<1>2. /\ \A w \in Viewer : w # v => SameViewer(w)
      /\ \/ pc'[v] = "vacuum" /\ poll'[v] = poll[v]
         \/ pc'[v] = "open" /\ poll'[v] = NoPoll
  BY <1>0, <1>1 DEF DetachOldest, Freeze, VacuumDone, HeapType, Goto, SameViewer
<1>3. LoneViewer(v)'
  BY <1>0, <1>1, <1>2 DEF LoneViewer, Front, Locked
<1>4. /\ object_index' \in Indexes \cup {None} /\ index'[v] \in Indexes \cup {None}
      /\ poll'[v].new \in Indexes \cup {None} /\ poll'[v].cur \in Roots \cup {None}
      /\ pc'[v] \notin {"vacuum", "freeze"} => poll'[v].cur \in Indexes \cup {None}
  <2>1. NoPoll.cur = None /\ NoPoll.new = None
    BY DEF NoPoll
  <2> QED BY <1>1, <1>2, <2>1, InUse
<1> QED BY <1>1, <1>2, <1>3, <1>4, LoneQuiet

\* It removes the oldest bucket.
LEMMA RemoveOldestLone ==
    ASSUME NEW v \in Viewer, LoneInv(v), HInv', RemoveOldest(v)
    PROVE  LoneInv(v)'
<1>0. HInv /\ HeapInv /\ TypeOK /\ HeapType /\ LoneViewer(v) /\ Resting(v) /\ BucketsPast
  BY DEF LoneInv, HInv
<1> DEFINE i == poll[v].new
           old == maps[i][Len(maps[i])]
<1>1. /\ pc[v] = "vacuum" /\ poll' = [poll EXCEPT ![v].cur = old]
      /\ pc' = [pc EXCEPT ![v] = "freeze"]
      /\ UNCHANGED <<history, dbTid, object_index, hvt, index, snapshot, loading>>
  BY DEF RemoveOldest, Depth, Goto, database, viewer
<1>2. PICK S \in SUBSET Oid : Removed(i, old, S)
  BY <1>0, RemoveOldestRemoves
<1> HIDE DEF old, i
<1>3. /\ pc'[v] = "freeze" /\ poll'[v].cur = old /\ poll'[v].new = poll[v].new
      /\ \A w \in Viewer : w # v => SameViewer(w)
  BY <1>0, <1>1 DEF HeapType, Poll, SameViewer
<1>4. \A s \in Slot : bucket'[s].hvt = bucket[s].hvt
  BY <1>2 DEF Removed
<1>5. index[v] # None => index[v] \in Slot
  BY <1>0, InUse, Shape
<1>6. LoneViewer(v)'
  BY <1>0, <1>1, <1>3, <1>4, <1>5 DEF LoneViewer, Front, Locked
<1>7. Indexes' \subseteq Indexes
  BY <1>1, <1>3 DEF Indexes, SameViewer
<1>8. HeapInv'
  BY <1>0, <1>1, <1>2, <1>7, RemoveHeapInv
<1>9. BucketsPast' /\ Resting(v)'
  BY <1>0, <1>1, <1>3, <1>4 DEF BucketsPast, Resting, SameViewer
<1> QED BY <1>6, <1>8, <1>9 DEF LoneInv

\* What the installed index of the instance looks up.
LEMMA LookupLone ==
    ASSUME NEW v \in Viewer, LoneInv(v), index[v] # None, NEW o \in Oid
    PROVE  Lookup(index[v], o) \in {None, TidAt(o, hvt[v])}
<1>0. HInv /\ LookupInv /\ index[v] \in Indexes /\ hvt[v] = Front(index[v]).hvt
  BY InUse DEF LoneInv, HeapInv, LoneViewer
<1>1. CASE Lookup(index[v], o) # None
  <2>1. PICK l \in At(index[v]) : /\ Lookup(index[v], o) = Entry(index[v], l, o)
                                  /\ \A k \in At(index[v]) : k < l => Entry(index[v], k, o) = None
    BY <1>0, <1>1, LookupType
  <2>2. Entry(index[v], l, o) = TidAt(o, HvtOf(index[v], 1))
    BY <1>0, <1>1, <2>1 DEF LookupInv
  <2>3. HvtOf(index[v], 1) = hvt[v]
    BY <1>0, Shape DEF HvtOf, Front
  <2> QED BY <2>1, <2>2, <2>3
<1> QED BY <1>1

\* A load that misses expects the tid of the index.
LEMMA LoadMissLone ==
    ASSUME NEW v \in Viewer, LoneInv(v), HInv', NEW o \in Oid, LoadMiss(v, o)
    PROVE  LoneInv(v)'
<1>0. HInv /\ TypeOK /\ HeapType /\ LoneViewer(v)
  BY DEF LoneInv, HInv
<1>1. /\ pc[v] = "open" /\ index[v] # None
      /\ loading' = [loading EXCEPT ![v] = <<o, Lookup(index[v], o)>>]
      /\ pc' = [pc EXCEPT ![v] = "loading"]
      /\ UNCHANGED <<history, dbTid, object_index, bucket, maps, hvt, index, snapshot, poll>>
  BY DEF LoadMiss, Goto, database, heap, viewer
<1>2. Lookup(index[v], o) \in {None, TidAt(o, hvt[v])}
  BY <1>1, LookupLone
<1>3. /\ pc'[v] = "loading" /\ loading'[v] = <<o, Lookup(index[v], o)>>
      /\ \A w \in Viewer : w # v => SameViewer(w)
  BY <1>0, <1>1 DEF HeapType, SameViewer
<1>4. loading'[v][1] = o /\ loading'[v][2] = Lookup(index[v], o)
  BY <1>3
<1>5. TidAt(loading[v][1], hvt[v])' = TidAt(o, hvt[v])
  BY <1>1, <1>4 DEF TidAt
<1>6. LoneViewer(v)'
  BY <1>0, <1>1, <1>2, <1>3, <1>4, <1>5 DEF LoneViewer, Front
<1>7. /\ object_index' \in Indexes \cup {None} /\ index'[v] \in Indexes \cup {None}
      /\ poll'[v].new \in Indexes \cup {None}
      /\ poll'[v].cur \in Roots \cup {None}
      /\ pc'[v] \notin {"vacuum", "freeze"} => poll'[v].cur \in Indexes \cup {None}
  BY <1>1, InUse
<1> QED BY <1>1, <1>3, <1>6, <1>7, LoneQuiet

\* What the database returns is not from the future of the instance, and is
\* what its index expects.
LEMMA LoadIsConsistentLone ==
    ASSUME NEW v \in Viewer, LoneInv(v), pc[v] = "loading"
    PROVE  /\ ~ FromFuture(v) /\ ~ Inconsistent(v)
           /\ loading[v][1] \in Oid /\ index[v] \in Indexes
           /\ Actual(v) = TidAt(loading[v][1], Front(index[v]).hvt)
           /\ Actual(v) \in 1..MaxTid
<1>0. HInv /\ TypeOK /\ HeapType /\ StageInv /\ HistoryInv /\ LoneViewer(v)
  BY DEF LoneInv, HInv
<1>1. /\ loading[v] # <<>> /\ snapshot[v] # 0 /\ index[v] # None
  BY <1>0 DEF StageInv
<1>2. /\ hvt[v] = snapshot[v] /\ hvt[v] = Front(index[v]).hvt
      /\ loading[v][2] \in {None, TidAt(loading[v][1], hvt[v])}
  BY <1>0, <1>1 DEF LoneViewer
<1>3. loading[v][1] \in Oid
  BY <1>0, <1>1 DEF HeapType
<1>4. snapshot[v] \in Nat \ {0}
  BY <1>0, <1>1, LoneNumbers
<1>5. Actual(v) \in 1..MaxTid /\ Actual(v) <= snapshot[v] /\ Actual(v) = TidAt(loading[v][1], hvt[v])
  <2>1. Actual(v) = TidAt(loading[v][1], snapshot[v])
    BY DEF Actual
  <2>2. TidAt(loading[v][1], snapshot[v]) <= snapshot[v]
    BY <1>0, <1>3, <1>4, TidAtNewest
  <2>3. TidAt(loading[v][1], snapshot[v]) \in 1..MaxTid
    BY <1>0, <1>3, <1>4, TidAtExists
  <2> QED BY <1>2, <2>1, <2>2, <2>3
<1>6. ~ FromFuture(v)
  BY <1>2, <1>4, <1>5 DEF FromFuture
<1>7. ~ Inconsistent(v)
  BY <1>2, <1>5 DEF Inconsistent, Expected
<1>8. index[v] \in Indexes
  BY <1>1, InUse
<1> QED BY <1>2, <1>3, <1>5, <1>6, <1>7, <1>8

\* The database answers a load.
LEMMA LoadFromDatabaseLone ==
    ASSUME NEW v \in Viewer, LoneInv(v), HInv', LoadFromDatabase(v)
    PROVE  LoneInv(v)'
<1>0. HInv /\ HeapInv /\ TypeOK /\ HeapType /\ LoneViewer(v) /\ Resting(v) /\ BucketsPast
  BY DEF LoneInv, HInv
<1>1. /\ pc[v] = "loading" /\ loading' = [loading EXCEPT ![v] = <<>>]
      /\ pc' = [pc EXCEPT ![v] = "open"]
      /\ UNCHANGED <<history, dbTid, object_index, maps, hvt, index, snapshot, poll>>
  BY DEF LoadFromDatabase, Goto, database, viewer
<1> DEFINE o == loading[v][1]
           a == Actual(v)
<1>2. ItemSet(index[v], o, a)
  BY <1>0, LoadFromDatabaseHeap
<1>3. o \in Oid /\ index[v] \in Indexes /\ a = TidAt(o, Front(index[v]).hvt) /\ a \in 1..MaxTid
  BY <1>1, LoadIsConsistentLone
<1>4. a \in Tid /\ a # None
  BY <1>3, MvccAssumption DEF Tid, None
<1>5. \A s \in Slot : bucket'[s].hvt = bucket[s].hvt
  BY <1>2, <1>3 DEF ItemSet
<1>6. /\ pc'[v] = "open" /\ \A w \in Viewer : w # v => SameViewer(w)
  BY <1>0, <1>1 DEF HeapType, SameViewer
<1>7. index[v] \in Slot
  BY <1>0, <1>3, Shape
<1>8. LoneViewer(v)'
  BY <1>0, <1>1, <1>5, <1>6, <1>7 DEF LoneViewer, Front, Locked
<1>9. Indexes' \subseteq Indexes
  BY <1>1, <1>6 DEF Indexes, SameViewer
<1> HIDE DEF o, a
<1>10. HeapInv'
  BY <1>0, <1>1, <1>2, <1>3, <1>4, <1>9, SetItemHeapInv
<1>11. BucketsPast' /\ Resting(v)'
  BY <1>0, <1>1, <1>5, <1>6 DEF BucketsPast, Resting, SameViewer
<1> QED BY <1>8, <1>10, <1>11 DEF LoneInv

\* The instance is released and a new one takes its place.
LEMMA ReleaseLone ==
    ASSUME NEW v \in Viewer, LoneInv(v), HInv', Release(v)
    PROVE  LoneInv(v)'
<1>0. HInv /\ TypeOK /\ HeapType /\ LoneViewer(v)
  BY DEF LoneInv, HInv
<1>1. /\ pc[v] \in {"idle", "open", "stale"} /\ pc' = [pc EXCEPT ![v] = "idle"]
      /\ index' = [index EXCEPT ![v] = None] /\ hvt' = [hvt EXCEPT ![v] = None]
      /\ snapshot' = [snapshot EXCEPT ![v] = 0]
      /\ UNCHANGED <<history, dbTid, object_index, bucket, maps, poll, loading>>
  BY DEF Release, Goto, database, heap
<1>2. /\ pc'[v] = "idle" /\ index'[v] = None /\ snapshot'[v] = 0
      /\ \A w \in Viewer : w # v => SameViewer(w)
  BY <1>0, <1>1 DEF HeapType, TypeOK, SameViewer
<1>3. LoneViewer(v)'
  BY <1>0, <1>1, <1>2, LoneNumbers DEF LoneViewer, Locked
<1>4. /\ object_index' \in Indexes \cup {None} /\ poll'[v].new \in Indexes \cup {None}
      /\ poll'[v].cur \in Roots \cup {None} /\ poll'[v].cur \in Indexes \cup {None}
  BY <1>1, InUse
<1> QED BY <1>1, <1>2, <1>3, <1>4, LoneQuiet

\* Steps that leave the heap and the polls alone; the database may go on.
LEMMA ElsewhereLone ==
    ASSUME NEW v \in Viewer, LoneInv(v), HInv',
           UNCHANGED <<object_index, bucket, maps, hvt, index, snapshot, poll, loading>>,
           \A w \in Viewer : w # v => pc'[w] = pc[w],
           pc'[v] = pc[v] \/ (pc'[v] \in {"finish", "idle"} /\ pc[v] \in {"open", "finish"}),
           UNCHANGED <<history, dbTid>> \/ \E oids \in SUBSET Oid : Write(oids)
    PROVE  LoneInv(v)'
<1>0. /\ HInv /\ HeapInv /\ TypeOK /\ HeapType /\ StageInv /\ HistoryInv
      /\ LoneViewer(v) /\ Resting(v) /\ BucketsPast
  BY DEF LoneInv, HInv
<1>1. /\ snapshot[v] \in Nat /\ hvt[v] \in Nat /\ dbTid \in Nat
      /\ \A s \in Slot : bucket[s].hvt \in Nat
  BY <1>0, LoneNumbers
<1>2. dbTid' \in Nat /\ dbTid' >= dbTid
  BY <1>1 DEF Write
<1>3. \A o \in Oid, s \in Nat : s <= dbTid => TidAt(o, s)' = TidAt(o, s)
  <2>1. CASE UNCHANGED <<history, dbTid>>
    BY <2>1 DEF TidAt
  <2>2. CASE \E oids \in SUBSET Oid : Write(oids)
    BY <1>0, <2>2, WriteKeepsPast
  <2> QED BY <2>1, <2>2
<1>4. BucketsPast' /\ snapshot'[v] <= dbTid'
  BY <1>0, <1>1, <1>2 DEF BucketsPast, LoneViewer
<1>5. Resting(v)'
  BY <1>0 DEF Resting
<1>6. Indexes' \subseteq Indexes
  BY DEF Indexes
<1>7. HeapInv'
  BY <1>0, <1>3, <1>6, SameHeapInv DEF BucketsPast
<1>8. ASSUME pc'[v] = "loading"
      PROVE  (loading[v][2] \in {None, TidAt(loading[v][1], hvt[v])})'
  <2>1. pc[v] = "loading" /\ index[v] # None /\ loading[v] # <<>>
    BY <1>0, <1>8 DEF StageInv
  <2>2. /\ loading[v][2] \in {None, TidAt(loading[v][1], hvt[v])}
        /\ hvt[v] = snapshot[v] /\ snapshot[v] <= dbTid /\ loading[v][1] \in Oid
    BY <1>0, <2>1 DEF LoneViewer, HeapType
  <2>3. PICK o \in Oid, s \in Nat : o = loading[v][1] /\ s = hvt[v] /\ s <= dbTid
    BY <1>1, <2>2
  <2>4. TidAt(o, s)' = TidAt(o, s)
    BY <1>3, <2>3
  <2>5. TidAt(loading[v][1], hvt[v])' = TidAt(o, s)'
    BY <2>3 DEF TidAt
  <2> QED BY <2>2, <2>3, <2>4, <2>5
<1>9. LoneViewer(v)'
  <2>1. CASE pc'[v] = pc[v]
    BY <1>0, <1>4, <1>8, <2>1 DEF LoneViewer, Front
  <2>2. CASE pc'[v] \in {"finish", "idle"}
    BY <1>0, <1>4, <2>2 DEF LoneViewer, Front, Locked
  <2> QED BY <2>1, <2>2
<1> QED BY <1>4, <1>5, <1>7, <1>9 DEF LoneInv

\* Every step keeps the invariant of a lone instance.
LEMMA NextLone ==
    ASSUME NEW v \in Viewer, LoneInv(v), [Next]_vars, deployment.instances = {v},
           deployment.revert_when_stale
    PROVE  LoneInv(v)'
<1>0. HInv /\ HInv' /\ HeapType /\ LoneViewer(v)
  BY NextHeap DEF LoneInv, HInv
<1>1. ASSUME PollStep(v) PROVE LoneInv(v)'
  <2>1. ~ Build(v)
    BY <1>0 DEF Build, LoneViewer
  <2> QED BY <1>0, <1>1, <2>1, PollStartLone, QueryLone, InitialPollLone, RevertLone, InstallLone,
             FindLone, MoveViewerLone, VacuumLone, RemoveOldestLone DEF PollStep
<1>2. ASSUME LoadStep(v) PROVE LoneInv(v)'
  <2>1. ~ LoadConflict(v) /\ ~ LoadInconsistent(v)
    BY LoadIsConsistentLone DEF LoadConflict, LoadInconsistent
  <2>2. ASSUME NEW o \in Oid, LoadWithoutIndex(v, o) \/ LoadFromCache(v, o) PROVE LoneInv(v)'
    <3>1. UNCHANGED <<history, dbTid, object_index, bucket, maps, hvt, index, snapshot, poll, loading, pc>>
      BY <2>2 DEF LoadWithoutIndex, LoadFromCache, database, heap, viewer
    <3> QED BY <1>0, <3>1, ElsewhereLone
  <2> QED BY <1>0, <1>2, <2>1, <2>2, LoadMissLone, LoadFromDatabaseLone DEF LoadStep
<1>3. ASSUME NEW oids \in SUBSET Oid, Commit(v, oids) PROVE LoneInv(v)'
  <2>1. /\ UNCHANGED <<object_index, bucket, maps, hvt, index, snapshot, poll, loading>>
        /\ pc[v] = "open" /\ pc' = [pc EXCEPT ![v] = "finish"] /\ Write(oids)
    BY <1>3 DEF Commit, heap, viewer, Goto
  <2>2. pc'[v] = "finish" /\ \A w \in Viewer : w # v => pc'[w] = pc[w]
    BY <1>0, <2>1 DEF HeapType
  <2> QED BY <1>0, <2>1, <2>2, ElsewhereLone
<1>4. ASSUME AfterTpcFinish(v) PROVE LoneInv(v)'
  <2>1. /\ UNCHANGED <<history, dbTid, object_index, bucket, maps, hvt, index, snapshot, poll, loading>>
        /\ pc[v] = "finish" /\ pc' = [pc EXCEPT ![v] = "idle"]
    BY <1>4 DEF AfterTpcFinish, database, heap, viewer, Goto
  <2>2. pc'[v] = "idle" /\ \A w \in Viewer : w # v => pc'[w] = pc[w]
    BY <1>0, <2>1 DEF HeapType
  <2> QED BY <1>0, <2>1, <2>2, ElsewhereLone
<1>5. ASSUME Elsewhere PROVE LoneInv(v)'
  <2>1. /\ UNCHANGED <<object_index, bucket, maps, hvt, index, snapshot, poll, loading, pc>>
        /\ UNCHANGED <<history, dbTid>> \/ \E oids \in SUBSET Oid : Write(oids)
    BY <1>5 DEF Elsewhere, ExternalCommit, Evict, vars, database, heap, viewer
  <2> QED BY <1>0, <2>1, ElsewhereLone
<1>6. LoneActs(v) \/ Elsewhere
  BY LoneSteps
<1> QED BY <1>0, <1>1, <1>2, <1>3, <1>4, <1>5, <1>6, ReleaseLone DEF LoneActs

\* It holds when the process starts, whether or not it restored an index.
LEMMA InitLone ==
    ASSUME Init, NEW v \in Viewer
    PROVE  LoneInv(v)
<1>0. Start(Restored, FALSE) /\ Restored \in BOOLEAN
  BY MvccAssumption DEF Init
<1>1. HInv
  BY <1>0, StartHeap
<1>2. /\ object_index \in {1, None} /\ dbTid = 1 /\ 1 \in Slot
      /\ object_index = 1 => maps[1] = <<1>>
      /\ \A s \in Slot : \/ bucket[s] = NewBucket(1, Incomplete, EmptyMap)
                         \/ bucket[s] = Free
      /\ \A w \in Viewer : /\ pc[w] = "idle" /\ index[w] = None /\ snapshot[w] = 0
                           /\ poll[w] = NoPoll
  BY <1>0, Numbers DEF Start, InitTid
<1>3. NoPoll.cur = None /\ NoPoll.new = None
  BY DEF NoPoll
<1>4. Indexes \subseteq {1} /\ \A i \in Indexes : object_index = 1
  BY <1>2, <1>3 DEF Indexes
<1>5. \A s \in Slot, o \in Oid : bucket[s].map[o] = None /\ bucket[s].cst = Incomplete
  BY <1>2 DEF NewBucket, Free, EmptyMap
<1>6. ASSUME NEW i \in Indexes
      PROVE  i = 1 /\ At(i) = {1} /\ \A o \in Oid : Entry(i, 1, o) = None
  <2>1. i = 1 /\ maps[1] = <<1>>
    BY <1>2, <1>4
  <2>2. At(i) = {1} /\ maps[i][1] = 1
    BY <2>1 DEF At
  <2> QED BY <1>2, <1>5, <2>1, <2>2 DEF Entry
<1>7. OrderInv /\ ClosedInv
  BY <1>6 DEF OrderInv, ClosedInv
<1>8. EntryInv
  BY <1>5 DEF EntryInv
<1>9. LookupInv
  BY <1>6 DEF LookupInv
<1>10. CoverInv
  BY <1>6 DEF CoverInv
<1>11. SharedInv
  BY <1>6 DEF SharedInv
<1>12. BucketsPast
  BY <1>2 DEF BucketsPast, NewBucket, Free
<1>13. Resting(v)
  BY <1>2, <1>3 DEF Resting
<1>14. LoneViewer(v)
  BY <1>2 DEF LoneViewer, Locked
<1> QED BY <1>1, <1>7, <1>8, <1>9, <1>10, <1>11, <1>12, <1>13, <1>14 DEF LoneInv, HeapInv

\* An instance that goes back in time with its replica keeps nothing of an
\* index from its future: whenever it is in a transaction, each entry of its
\* index is the object's tid in its snapshot, for any number of objects and
\* transactions, any depth of index, any wandering of the replica, and
\* whether the instance is released and another registers or not.  It is
\* the only one in use of its process.
THEOREM RevertsForgetTheFuture ==
    ASSUME \A d \in Deployment : d.revert_when_stale => \E v \in Viewer : d.instances = {v}
    PROVE  Spec => []RevertForgetsTheFuture
<1> DEFINE Inv == /\ deployment \in Deployment
                  /\ deployment.revert_when_stale =>
                        \A v \in Viewer : deployment.instances = {v} => LoneInv(v)
<1>1. Init => Inv
  BY InitLone DEF Init, Start
<1>2. Inv /\ [Next]_vars => Inv'
  <2> SUFFICES ASSUME Inv, [Next]_vars PROVE Inv'
    OBVIOUS
  <2>1. deployment' = deployment
    BY LoneDeployment
  <2>2. ASSUME deployment.revert_when_stale, NEW v \in Viewer, deployment.instances = {v}
        PROVE  LoneInv(v)'
    BY <2>2, NextLone
  <2> QED BY <2>1, <2>2
<1>3. Inv => RevertForgetsTheFuture
  <2> SUFFICES ASSUME Inv, deployment.revert_when_stale, NEW v \in deployment.instances,
                      InTransaction(v), index[v] # None, NEW o \in Oid
               PROVE  Lookup(index[v], o) \in {None, TidAt(o, snapshot[v])}
    BY DEF RevertForgetsTheFuture, EntriesMatchSnapshot
  <2>1. v \in Viewer /\ LoneInv(v)
    OBVIOUS
  <2>2. hvt[v] = snapshot[v]
    BY <2>1 DEF LoneInv, LoneViewer, InTransaction
  <2>3. Lookup(index[v], o) \in {None, TidAt(o, hvt[v])}
    BY <2>1, LookupLone
  <2> QED BY <2>2, <2>3
<1> HIDE DEF Inv
<1> QED BY <1>1, <1>2, <1>3, PTL DEF Spec

=============================================================================
