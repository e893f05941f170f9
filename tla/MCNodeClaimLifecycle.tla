------------------------ MODULE MCNodeClaimLifecycle ------------------------
(* Small instances of NodeClaimLifecycle. *)
EXTENDS NodeClaimLifecycle, TLC

Symmetry == Permutations(Instances)

OneNode == {CHOOSE n \in Nodes : TRUE}

Plain == [gracePeriod |-> FALSE, readsOwnWrites |-> FALSE, joins |-> OneNode, launches |-> 1,
          launchErrors |-> 0, patchErrors |-> 0, restarts |-> 0, deletes |-> 0, pods |-> 0,
          lost |-> FALSE, forgot |-> FALSE]
Prompt == [Plain EXCEPT !.readsOwnWrites = TRUE]

(* A launch fails and the claim is deleted; the process restarts and the     *)
(* claim is deleted, or is launched again; calls fail under a lagging cache; *)
(* and a node with a pod is drained.                                         *)
LaunchesAndDeletions ==
    {[Plain EXCEPT !.launchErrors = 1, !.deletes = 1],
     [Plain EXCEPT !.restarts = 1, !.deletes = 1],
     [Plain EXCEPT !.launches = 2, !.restarts = 1, !.joins = {}],
     [Plain EXCEPT !.launches = 2, !.launchErrors = 1, !.patchErrors = 1],
     [Prompt EXCEPT !.gracePeriod = TRUE, !.deletes = 1, !.pods = 1]}

(* A launch fails; the claim is deleted; two Nodes claim one instance. *)
WaitsAndDuplicates ==
    {[Prompt EXCEPT !.launchErrors = 1],
     [Prompt EXCEPT !.deletes = 1],
     [Prompt EXCEPT !.joins = Nodes]}

(* No grace period: a node with a pod is deleted around a restart. *)
RestartWhileRegistering == {[Prompt EXCEPT !.restarts = 1, !.deletes = 1, !.pods = 1]}

(* The patch that records a launch fails and the claim is deleted. *)
FailedPatch == {[Plain EXCEPT !.launches = 2, !.patchErrors = 1, !.deletes = 1]}
=============================================================================
