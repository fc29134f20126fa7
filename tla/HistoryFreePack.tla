--------------------------- MODULE HistoryFreePack ---------------------------
(***************************************************************************)
(* Packing a history-free database: the garbage collector fills a table    *)
(* with all objects, analyses their references in a later snapshot, marks  *)
(* what the root reaches and removes the rest, while transactions commit.  *)
(* It commits its work in batches and may crash between them.              *)
(*                                                                         *)
(* The pack lock makes it the only one.  A state is the set of objects it  *)
(* refers to.  A batch is any number of the steps of one object: it ends   *)
(* where the packer crashes.                                               *)
(***************************************************************************)
EXTENDS Integers, FiniteSets, FiniteSetsExt

CONSTANTS
    Oid,
    Root,
    InitGraphs,   \* the references of each object, before
    InitOids,     \* the objects there are, before
    MaxTid        \* bound: the last transaction id

ASSUME PackAssumption ==
    /\ Oid \subseteq Nat /\ IsFiniteSet(Oid)
    /\ Root \in InitOids /\ InitOids \subseteq Oid
    /\ InitGraphs \subseteq [Oid -> SUBSET InitOids]
    /\ MaxTid \in Nat \ {0}

VARIABLES
    object_state, \* [Oid -> its tid and references]; tid 0 is no row
    dbTid,        \* the last committed tid
    used,         \* the oids that were ever allocated
    pack_object,  \* [Oid -> keep and keep_tid]; keep_tid 0 is no row
    object_ref,   \* [Oid -> the tid and the references analysed], the tables
                  \* object_ref and object_refs_added; tid 0 is no row
    prepacked,    \* pack_object is the result of a complete pre-pack
    pc,
    pack_tid,
    snapshot,     \* object_state as the load connection of pre_pack sees it
    oids,         \* the objects still to analyse, to mark or to remove
    garbage       \* history: what the pack had to remove when it began

database == <<object_state, dbTid, used>>
tables == <<pack_object, object_ref, prepacked>>
packer == <<pc, pack_tid, snapshot, oids>>
vars == <<database, tables, packer, garbage>>

InitTid == 1
NoState == [tid |-> 0, refs |-> {}]
NoStates == [o \in Oid |-> NoState]
NotPacked == [o \in Oid |-> [keep |-> FALSE, keep_tid |-> 0]]

Exists(states) == {o \in Oid : states[o].tid # 0}
Packed == {o \in Oid : pack_object[o].keep_tid # 0}

\* TreeMarker: the objects that the roots reach, pass after pass.
Mark(roots, refs) ==
    LET pass[n \in Nat] == IF n = 0 THEN roots
                           ELSE pass[n - 1] \cup UNION {refs[o] : o \in pass[n - 1]}
    IN  pass[Cardinality(Oid)]

References(states) == [o \in Oid |-> states[o].refs]
Reachable == Mark({Root}, References(object_state))

Init ==
    /\ \E g \in InitGraphs :
          object_state = [o \in Oid |-> IF o \in InitOids THEN [tid |-> InitTid, refs |-> g[o]]
                                        ELSE NoState]
    /\ dbTid = InitTid
    /\ used = InitOids
    /\ pack_object = NotPacked
    /\ object_ref = NoStates
    /\ prepacked = TRUE
    /\ pc = "idle"
    /\ pack_tid = 0
    /\ snapshot = NoStates
    /\ oids = {}
    /\ garbage = {}

-----------------------------------------------------------------------------
(* Applications.  They can refer to what they reach, and to new objects.   *)

\* A transaction stores object o, and the objects of new with it.
Commit(o, refs, new, newRefs) ==
    /\ dbTid' = dbTid + 1
    /\ used' = used \cup new
    /\ object_state' = [x \in Oid |->
           IF x = o THEN [tid |-> dbTid + 1, refs |-> refs \cup new]
           ELSE IF x \in new THEN [tid |-> dbTid + 1, refs |-> newRefs]
           ELSE object_state[x]]
    /\ UNCHANGED <<tables, packer, garbage>>

\* It may create an object, which it refers to.  References to the root or
\* to the object itself make no difference.
Transaction ==
    /\ dbTid < MaxTid
    /\ LET children == Reachable \ {Root} IN
       \E o \in Reachable, refs \in SUBSET children :
          /\ o \notin refs
          /\ \/ Commit(o, refs, {}, {})
             \/ \E n \in Oid \ used, newRefs \in SUBSET children : Commit(o, refs, {n}, newRefs)

\* What pre_pack takes for granted of an application until the snapshot is
\* taken: an old object is not to be had through new objects only.
OldStaysReferenced ==
    pc = "filled" =>
        Reachable \cap Packed
            \subseteq Mark({Root}, [o \in Oid |-> IF o \in Packed THEN object_state[o].refs ELSE {}])

-----------------------------------------------------------------------------
(* pre_pack. *)

Goto(l) == pc' = l

\* Mutant: the pack point itself, which may be in the future.
PackPointItself(pack_point) == pack_point

\* The transaction at or before the pack point.
ChosenTid(pack_point) ==
    Max({object_state[o].tid : o \in {x \in Exists(object_state) : object_state[x].tid <= pack_point}})

\* Packing to a time: the current time is greater than any tid.  If there is
\* no transaction, pre_pack is skipped: see SkipPrePack.
ChoosePackTransaction(pack_point) ==
    /\ pc = "idle"
    /\ \E o \in Exists(object_state) : object_state[o].tid <= pack_point
    /\ pack_tid' = ChosenTid(pack_point)
    /\ Goto("chosen")
    /\ UNCHANGED <<database, tables, snapshot, oids, garbage>>

\* Mutant: also what the pack transaction changed.
KeepAtPackTid(o) == object_state[o].tid >= pack_tid \/ o = Root

\* Anything that has changed since pack_tid, and the root.
Keep(o) == object_state[o].tid > pack_tid \/ o = Root

\* _pre_pack_main fills pack_object, and commits.
FillPackObject ==
    /\ pc = "chosen"
    /\ pack_object' = [o \in Oid |->
           IF o \in Exists(object_state) THEN [keep |-> Keep(o), keep_tid |-> object_state[o].tid]
           ELSE NotPacked[o]]
    /\ prepacked' = FALSE
    /\ garbage' = Exists(object_state) \ Mark(
           {Root} \cup {o \in Oid : object_state[o].tid > pack_tid}, References(object_state))
    /\ Goto("filled")
    /\ UNCHANGED <<database, object_ref, pack_tid, snapshot, oids>>

\* Mutant: objects that were analysed before are left out.
ExamineNew == {o \in Packed \cap Exists(object_state) : object_ref[o].tid = 0}

\* The objects whose current state was not analysed yet.
ToExamine == {o \in Packed \cap Exists(object_state) : object_ref[o].tid # object_state[o].tid}

\* fill_object_refs: the load connection begins its snapshot now.
CollectObjects ==
    /\ pc = "filled"
    /\ snapshot' = object_state
    /\ oids' = ToExamine
    /\ Goto("examine")
    /\ UNCHANGED <<database, tables, pack_tid, garbage>>

\* _add_refs_for_oids, in the order of the oids, from the snapshot.
AddRefs ==
    /\ pc = "examine" /\ oids # {}
    /\ object_ref' = [object_ref EXCEPT ![Min(oids)] = snapshot[Min(oids)]]
    /\ oids' = oids \ {Min(oids)}
    /\ UNCHANGED <<database, pack_object, prepacked, pc, pack_tid, snapshot, garbage>>

\* The references to follow: those of the state in pack_object, or newer.
CurrentRefs == [o \in Oid |-> IF o \in Packed /\ object_ref[o].tid >= pack_object[o].keep_tid
                              THEN object_ref[o].refs ELSE {}]

\* _traverse_graph, on a new snapshot of the tables.
TraverseGraph ==
    /\ pc = "examine" /\ oids = {}
    /\ oids' = Mark({o \in Packed : pack_object[o].keep}, CurrentRefs)
    /\ snapshot' = NoStates
    /\ Goto("mark")
    /\ UNCHANGED <<database, tables, pack_tid, garbage>>

\* The keep flags are uploaded in the order of a set.
MarkReachable(o) ==
    /\ pc = "mark" /\ o \in oids
    /\ pack_object' = [pack_object EXCEPT ![o].keep = o \in Packed]
    /\ oids' = oids \ {o}
    /\ UNCHANGED <<database, object_ref, prepacked, pc, pack_tid, snapshot, garbage>>

\* pre_pack is complete: go on, or leave the rest to another pack.
FinishPrePack ==
    /\ pc = "mark" /\ oids = {}
    /\ prepacked' = TRUE
    /\ pack_tid' = 0
    /\ \/ Goto("prepacked")
       \/ Goto("idle")
    /\ UNCHANGED <<database, pack_object, object_ref, snapshot, oids, garbage>>

-----------------------------------------------------------------------------
(* pack. *)

\* skip_prepack, or nothing to pre-pack: with what an earlier one left.
SkipPrePack ==
    /\ pc = "idle"
    /\ Goto("prepacked")
    /\ UNCHANGED <<database, tables, pack_tid, snapshot, oids, garbage>>

FetchObjectsToRemove ==
    /\ pc = "prepacked"
    /\ oids' = {o \in Packed : ~ pack_object[o].keep}
    /\ Goto("remove")
    /\ UNCHANGED <<database, tables, pack_tid, snapshot, garbage>>

\* Objects are deleted whatever their tid.
Remove ==
    /\ pc = "remove" /\ oids # {}
    /\ object_state' = [object_state EXCEPT ![Min(oids)] = NoState]
    /\ oids' = oids \ {Min(oids)}
    /\ UNCHANGED <<dbTid, used, tables, pc, pack_tid, snapshot, garbage>>

\* _pack_cleanup: the references of what was removed, and pack_object.
PackCleanup ==
    /\ pc = "remove" /\ oids = {}
    /\ object_ref' = [o \in Oid |-> IF o \in Packed /\ ~ pack_object[o].keep
                                    THEN NoState ELSE object_ref[o]]
    /\ pack_object' = NotPacked
    /\ garbage' = {}
    /\ Goto("idle")
    /\ UNCHANGED <<database, prepacked, pack_tid, snapshot, oids>>

\* The packer crashes or fails.  The work it committed stays.
Crash ==
    /\ pc # "idle"
    /\ pack_tid' = 0
    /\ snapshot' = NoStates
    /\ oids' = {}
    /\ Goto("idle")
    /\ UNCHANGED <<database, tables, garbage>>

-----------------------------------------------------------------------------

\* pack "requires the information provided by pre_pack", and does not look
\* whether there was one: administrators do.
CompletePrePack == prepacked

PackStep ==
    \/ \E pack_point \in InitTid..MaxTid + 1 : ChoosePackTransaction(pack_point)
    \/ FillPackObject
    \/ CollectObjects
    \/ TraverseGraph
    \/ FinishPrePack
    \/ SkipPrePack /\ CompletePrePack
    \/ FetchObjectsToRemove
    \/ PackCleanup
    \/ AddRefs
    \/ \E o \in Oid : MarkReachable(o)
    \/ Remove

Next == PackStep \/ Crash \/ Transaction
NextAssumed == PackStep \/ Crash \/ (Transaction /\ OldStaysReferenced')

Spec == Init /\ [][Next]_vars
SpecAssumed == Init /\ [][NextAssumed]_vars

-----------------------------------------------------------------------------
(* Properties. *)

States == [tid : 0..MaxTid, refs : SUBSET Oid]

\* Every variable has the type of the table or local it models; the pack
\* transaction is one that was committed.
TypeOK ==
    /\ object_state \in [Oid -> States]
    /\ dbTid \in 1..MaxTid
    /\ used \subseteq Oid
    /\ pack_object \in [Oid -> [keep : BOOLEAN, keep_tid : 0..MaxTid]]
    /\ object_ref \in [Oid -> States]
    /\ prepacked \in BOOLEAN
    /\ pc \in {"idle", "chosen", "filled", "examine", "mark", "prepacked", "remove"}
    /\ pack_tid \in 0..dbTid
    /\ snapshot \in [Oid -> States]
    /\ oids \subseteq Oid
    /\ garbage \subseteq Oid

\* Whatever transactions commit while the garbage collector works, and
\* wherever it crashes, an object that the root reaches is never removed.
NoDanglingReferences == Reachable \subseteq Exists(object_state)

\* A pack removes all that was garbage when it began, however much of the
\* analysis it reuses from packs before it.
CollectsGarbage ==
    pc = "remove" /\ oids = {} => garbage \cap Exists(object_state) = {}
=============================================================================
