-------------------------- MODULE MCStaticCapacity --------------------------
(* Small instances of StaticCapacity for TLC. *)
EXTENDS StaticCapacity, TLC

Symmetry == Permutations(NodeClaims)

Calm == [claims |-> 3, drifts |-> 0, deletes |-> 0, failures |-> 0, scales |-> 0, restarts |-> 0]

(* The pool is scaled and the process restarts; or a claim drifts while      *)
(* another is deleted or a call fails.                                       *)
ScaleAndDrift ==
    {[Calm EXCEPT !.scales = 1, !.restarts = 1],
     [Calm EXCEPT !.claims = 2, !.drifts = 1, !.deletes = 1],
     [Calm EXCEPT !.claims = 2, !.drifts = 1, !.failures = 1]}

(* Nothing but static provisioning. *)
OnlyCalm == {Calm}
=============================================================================
