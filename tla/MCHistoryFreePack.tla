------------------------- MODULE MCHistoryFreePack -------------------------
(***************************************************************************)
(* Instances of HistoryFreePack for TLC.                                   *)
(***************************************************************************)
EXTENDS HistoryFreePack

\* The root refers to 1, and 1 to 2; or 2 is garbage.
MCGraphs == {[o \in Oid |-> IF o \in {0, 1} THEN {o + 1} ELSE {}],
             [o \in Oid |-> IF o = 0 THEN {1} ELSE {}]}
=============================================================================
