---------------------------- MODULE MCTpcCommit ----------------------------
(***************************************************************************)
(* Instances of TpcCommit for TLC: c1 allocated every oid.                 *)
(***************************************************************************)
EXTENDS TpcCommit

CONSTANTS c1, c2

MCOwner == [o \in Oid |-> c1]
=============================================================================
