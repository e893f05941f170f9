------------------------------ MODULE MCReboot -------------------------------
(* Scenarios for TLC. *)
EXTENDS Reboot

Calm == [init |-> "True", tgp |-> "zero", pods |-> FALSE, commits |-> 1, errors |-> 0,
         restarts |-> 0, vanish |-> 0, edits |-> 0, late |-> FALSE]
WithPods == [Calm EXCEPT !.tgp = "some", !.pods = TRUE]

(* Pods are drained up to a bound, or without bound across a restart; a call *)
(* fails; the Node vanishes; the bound is overwritten; the Node has not been *)
(* initialized; repair comes back after the reboot.                          *)
Reboots ==
    {WithPods,
     [WithPods EXCEPT !.tgp = "none", !.restarts = 1],
     [Calm EXCEPT !.errors = 1],
     [Calm EXCEPT !.vanish = 1],
     [Calm EXCEPT !.edits = 1],
     [Calm EXCEPT !.init = "NotReady"],
     [Calm EXCEPT !.commits = 2]}

(* A Node that has not been initialized. *)
Uninitialized == {[Calm EXCEPT !.init = "NotReady"]}

(* Pods still bind for a while after the fence is up. *)
LateBindings == {[WithPods EXCEPT !.tgp = "none", !.late = TRUE]}
=============================================================================
