---------------------------- MODULE MCProvisioning ----------------------------
(* Instances of Provisioning for TLC. *)
EXTENDS Provisioning, TLC

CONSTANTS p1, p2, p3

PodSymmetry == Permutations(Pods)

Calm == [pods |-> 2, limit |-> 2, kind |-> "cpu", replaces |-> FALSE,
         errors |-> 0, ice |-> 0, drains |-> 0, deletes |-> 0, edits |-> 0, restarts |-> 0]

(* A node is drained; the limit is lowered; a process that restarts or a     *)
(* launch that fails meets more pods than the limit has room for.            *)
DrainsAndCrashes == {
    [Calm EXCEPT !.drains = 1],
    [Calm EXCEPT !.edits = 1],
    [Calm EXCEPT !.ice = 1, !.restarts = 1],
    [Calm EXCEPT !.pods = 3, !.restarts = 1]}

(* Capacity is lost in every way the Provisioner must make up for. *)
LostCapacity == {
    [Calm EXCEPT !.pods = 1, !.limit = 9, !.errors = 1, !.ice = 1, !.deletes = 1],
    [Calm EXCEPT !.pods = 1, !.limit = 9, !.replaces = TRUE, !.drains = 1, !.restarts = 1]}

(* A replacement is launched before its node is marked for deletion. *)
Replacement == {[Calm EXCEPT !.limit = 9, !.replaces = TRUE, !.drains = 1]}

(* A deleted node takes pods until the termination controller taints it. *)
Uncordoned == {[Calm EXCEPT !.limit = 9, !.deletes = 1]}

(* The limit is on the number of nodes. *)
NodeLimit == {[Calm EXCEPT !.limit = 1, !.kind = "nodes"]}
=============================================================================
