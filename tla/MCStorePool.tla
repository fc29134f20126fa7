----------------------------- MODULE MCStorePool -----------------------------
(***************************************************************************)
(* Instances of StorePool for TLC.  Connections can be exchanged, and so   *)
(* can all instances but the first.                                        *)
(***************************************************************************)
EXTENDS StorePool

CONSTANTS i1, i2, i3, c1, c2, c3

Symmetry == Permutations(Conn) \cup Permutations(Instance \ {First})
=============================================================================
