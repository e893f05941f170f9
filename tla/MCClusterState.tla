--------------------------- MODULE MCClusterState ---------------------------
(* ClusterState with model values for names and provider IDs. *)
EXTENDS ClusterState, TLC

Symmetry == Permutations(Nodes)

Quiet == [creates |-> 1, joins |-> 1, binds |-> 0, marks |-> 0, errors |-> 0, passes |-> 0,
          lateSeed |-> FALSE]

(* A claim and its Node, marked, unmarked and re-read after errors; pods     *)
(* that move between two Nodes; and pods on the instance of a claim.         *)
NodesAndPods ==
    {[Quiet EXCEPT !.marks = 2, !.errors = 1, !.passes = 1],
     [Quiet EXCEPT !.creates = 0, !.joins = 2, !.binds = 2, !.errors = 1],
     [Quiet EXCEPT !.binds = 2]}

(* The seed of a claim lands after its launch. *)
DelayedSeed == {[Quiet EXCEPT !.joins = 0, !.lateSeed = TRUE]}

(* A pod completes on the node of a claim after a pass of consolidation. *)
CompletedPod == {[Quiet EXCEPT !.binds = 1, !.passes = 1]}
=============================================================================
