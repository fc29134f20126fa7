----------------------------- MODULE ValueCache -----------------------------
(***************************************************************************)
(* What the in-memory cache promises to the code that uses it (PyCache of  *)
(* cache.pyx and the interface part of c_cache.h), with no word on rings,  *)
(* weights, entries or memory: for every object a set of values, one for   *)
(* each transaction id, which change only by the operation that names the  *)
(* object; an operation in progress may evict other objects, never the one *)
(* it works on.                                                            *)
(***************************************************************************)
EXTENDS Naturals

CONSTANTS
    Oids,       \* object ids
    Tids,       \* transaction ids
    Nobody,     \* no operation is in progress
    Loader      \* the bulk load of an empty cache is in progress

VARIABLES
    values,     \* values[oid]: the set of [tid, frozen] cached for the object
    using       \* the object the operation in progress works on

vars == <<values, using>>

Init ==
    /\ values = [o \in Oids |-> {}]
    /\ using = Nobody

TidsOf(o) == {v.tid : v \in values[o]}

\* Add a value; a value of the same transaction that is there already is kept.
Store(o, t) ==
    /\ using = Nobody
    /\ values' = IF t \in TidsOf(o)
                 THEN values
                 ELSE [values EXCEPT ![o] = @ \cup {[tid |-> t, frozen |-> FALSE]}]
    /\ using' = o

Hit(o) ==
    /\ using = Nobody
    /\ values[o] # {}
    /\ using' = o
    /\ UNCHANGED values

\* Remove every value of the object.
Forget(o) ==
    /\ using = Nobody
    /\ values' = [values EXCEPT ![o] = {}]
    /\ UNCHANGED using

\* Values older than the tid are removed, the one of the tid is frozen.
Freeze(o, t) ==
    /\ using = Nobody
    /\ values' = [values EXCEPT ![o] =
                     {[v EXCEPT !.frozen = @ \/ v.tid = t] :
                          v \in {w \in @ : w.tid >= t}}]
    /\ UNCHANGED using

\* A subset of the values is removed, no other value appears: the caller of
\* delitem(oid, tid) may rely on nothing more.  An entry with several values
\* removes those up to the tid, one with a single value removes it from the
\* tid on; what this does to the readers is ReadsSnapshot in MvccCache.
Discard(o) ==
    /\ using = Nobody
    /\ \E kept \in SUBSET values[o] : values' = [values EXCEPT ![o] = kept]
    /\ UNCHANGED using

Evict(o) ==
    /\ using \notin {Nobody, o}
    /\ values' = [values EXCEPT ![o] = {}]
    /\ UNCHANGED using

\* A bulk load starts with nothing cached and brings one value per object.
StartLoad ==
    /\ using = Nobody
    /\ \A o \in Oids : values[o] = {}
    /\ using' = Loader
    /\ UNCHANGED values

Load(o, t, frozen) ==
    /\ using = Loader
    /\ values[o] = {}
    /\ values' = [values EXCEPT ![o] = {[tid |-> t, frozen |-> frozen]}]
    /\ UNCHANGED using

Finish ==
    /\ using # Nobody
    /\ using' = Nobody
    /\ UNCHANGED values

Clear ==
    /\ using = Nobody
    /\ values' = [o \in Oids |-> {}]
    /\ UNCHANGED using

Next ==
    \/ \E o \in Oids :
          \/ Hit(o) \/ Forget(o) \/ Discard(o) \/ Evict(o)
          \/ \E t \in Tids :
                \/ Store(o, t)
                \/ Freeze(o, t)
                \/ \E frozen \in BOOLEAN : Load(o, t, frozen)
    \/ StartLoad \/ Finish \/ Clear

Spec == Init /\ [][Next]_vars
=============================================================================
