---------------------------- MODULE CachedValues ----------------------------
(***************************************************************************)
(* The values the in-memory cache keeps for one object, as its callers see *)
(* them: a set of tids, some of them frozen.  GenerationalCache models     *)
(* where and how long the cache keeps them.                                *)
(***************************************************************************)
EXTENDS Integers, FiniteSets, FiniteSetsExt

None == 0

Value(t) == [tid |-> t, frozen |-> FALSE]
Tids(values) == {e.tid : e \in values}

\* adding_value of an equal tid keeps the entry.
AddingValue(values, t) == IF t \in Tids(values) THEN values ELSE values \cup {Value(t)}

FreezeToTid(values, t) ==
    {[e EXCEPT !.frozen = @ \/ e.tid = t] : e \in {x \in values : x.tid >= t}}

\* The single-value entry removes itself if it is not older than the tid;
\* several values lose those that are not newer.
DiscardingTidsBefore(values, t) ==
    IF Cardinality(values) = 1
    THEN {e \in values : e.tid < t}
    ELSE {e \in values : e.tid > t}

\* matching_tid: None matches the newest frozen value.
MatchingTid(values, t) ==
    IF t # None THEN Tids(values) \cap {t}
    ELSE LET frozen == Tids({e \in values : e.frozen}) IN
         IF frozen = {} THEN {} ELSE {Max(frozen)}
=============================================================================
