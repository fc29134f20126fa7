---------------------------- MODULE MCMvccCache ----------------------------
(***************************************************************************)
(* Instances of MvccCache for TLC.                                         *)
(***************************************************************************)
EXTENDS MvccCache, TLC

MCSymmetry == Permutations(Viewer)

Greenlets == [instances |-> Viewer, threads |-> FALSE, replica |-> FALSE,
              revert_when_stale |-> FALSE, max_depth |-> 9]
Threads == [Greenlets EXCEPT !.threads = TRUE]
OnReplica == [Greenlets EXCEPT !.replica = TRUE]
Reverting(v) == [OnReplica EXCEPT !.instances = {v}, !.revert_when_stale = TRUE]

MCGreenlets == {Greenlets}
MCPools == {Threads, [Greenlets EXCEPT !.max_depth = 2]} \cup
           {[OnReplica EXCEPT !.instances = {v}] : v \in Viewer}
MCThreadsOrReverting == {Threads} \cup {Reverting(v) : v \in Viewer}
=============================================================================
