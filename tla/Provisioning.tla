----------------------------- MODULE Provisioning -----------------------------
(***************************************************************************)
(* The provisioning loop: the batcher with its Trigger callers, the        *)
(* singleton Provisioner with the reads of Schedule in their order, the    *)
(* creation of NodeClaims, and the lag between the API server, the pod     *)
(* cache and cluster state.                                                *)
(*                                                                         *)
(* Every pod needs a node of its own, so what the scheduling simulation    *)
(* computes is a number of new NodeClaims; requirements, packing and       *)
(* instance types are abstracted.  A node has one unit of the limited      *)
(* resource.                                                               *)
(***************************************************************************)
EXTENDS Integers, FiniteSets, FiniteSetsExt

CONSTANTS
    Pods,
    MaxClaims,  \* bound on the NodeClaims ever created
    Scenarios   \* what the environment may do; see Environments

(* The NodePool limit at first and the resource it is on, whether disruption *)
(* launches a replacement before it marks a node, and how often each of the  *)
(* other disturbances may happen.                                            *)
Environments ==
    [pods : Nat, limit : Nat, kind : {"cpu", "nodes"}, replaces : BOOLEAN,
     errors : Nat, ice : Nat, drains : Nat, deletes : Nat, edits : Nat, restarts : Nat]

ASSUME ProvisioningAssumption == MaxClaims \in Nat /\ Scenarios \subseteq Environments

VARIABLES
    pod,        \* each pod on the API server: where it is
    cache,      \* the pod as the client's informer cache has it
    bound,      \* the pod as cluster state has it
    claim,      \* each NodeClaim with its Node on the API server
    known,      \* the NodeClaim as cluster state has it
    hasSynced,  \* Cluster.hasSynced
    batcher,    \* the trigger channel, the tracked elements, the callers of Trigger
    prov,       \* the Provisioner: where it is and what it has read
    limit,      \* NodePool.spec.limits
    cmd,        \* the node whose replacement disruption has just launched, or 0
    env         \* the scenario, with the disturbances left

vars == <<pod, cache, bound, claim, known, hasSynced, batcher, prov, limit, cmd, env>>

Claims == 1..MaxClaims
Absent == -1
Pending == 0
Places == {Absent, Pending} \cup Claims     \* a number in Claims: bound to its node

Stages == {"none", "created", "launched", "ready", "tainted", "deleting", "draining", "gone"}
Waiting == [pc |-> "wait", free |-> {}, del |-> {}, pend |-> {}, moving |-> {}, used |-> 0, k |-> 0]

TypeOK ==
    /\ {pod, cache, bound} \subseteq [Pods -> Places]
    /\ claim \in [Claims -> Stages]
    /\ known \in [Claims -> {"none", "unlaunched", "active", "marked"}]
    /\ hasSynced \in BOOLEAN
    /\ batcher \in [trigger : BOOLEAN, elems : SUBSET Pods,
                    caller : [Pods -> {"idle", "send", "insert"}]]
    /\ prov \in [pc : {"wait", "window", "sync", "nodes", "pending", "deleting", "solve", "create"},
                 free : SUBSET Claims, del : SUBSET Claims, pend : SUBSET Pods, moving : SUBSET Pods,
                 used : 0..MaxClaims, k : 0..(2 * Cardinality(Pods))]
    /\ limit \in 0..env.limit /\ cmd \in 0..MaxClaims
    /\ env \in Environments

Init ==
    /\ pod = [p \in Pods |-> Absent] /\ cache = pod /\ bound = pod
    /\ claim = [c \in Claims |-> "none"] /\ known = claim
    /\ hasSynced = FALSE
    /\ batcher = [trigger |-> FALSE, elems |-> {}, caller |-> [p \in Pods |-> "idle"]]
    /\ prov = Waiting
    /\ env \in Scenarios
    /\ limit = env.limit /\ cmd = 0

views == <<cache, bound, known, hasSynced>>
objects == <<pod, claim, limit>>

-----------------------------------------------------------------------------
(* The pod controller calls Trigger for a provisionable pod, again every 10  *)
(* seconds.  Trigger checks under a read lock, arms the channel without any  *)
(* lock, and inserts under the write lock: three steps.                      *)

IsProvisionable(p) == cache[p] = Pending

Call(p, s) == batcher' = [batcher EXCEPT !.caller[p] = s]

Trigger(p) ==
    /\ IsProvisionable(p) /\ batcher.caller[p] = "idle" /\ p \notin batcher.elems
    /\ Call(p, "send")
    /\ UNCHANGED <<objects, views, prov, cmd, env>>

Send(p) ==
    /\ batcher.caller[p] = "send"
    /\ batcher' = [batcher EXCEPT !.caller[p] = "insert", !.trigger = TRUE]
    /\ UNCHANGED <<objects, views, prov, cmd, env>>

Insert(p) ==
    /\ batcher.caller[p] = "insert"
    /\ batcher' = [batcher EXCEPT !.caller[p] = "idle", !.elems = @ \cup {p}]
    /\ UNCHANGED <<objects, views, prov, cmd, env>>

(* The node controller and the callers without a dedupe key. *)
TriggerNow ==
    /\ \E c \in Claims : claim[c] \in {"tainted", "draining"}
    /\ ~batcher.trigger
    /\ batcher' = [batcher EXCEPT !.trigger = TRUE]
    /\ UNCHANGED <<objects, views, prov, cmd, env>>

-----------------------------------------------------------------------------
(* Wait.  Its deferred function clears the elements on every return.         *)

WaitTriggered ==
    /\ prov.pc = "wait" /\ batcher.trigger
    /\ batcher' = [batcher EXCEPT !.trigger = FALSE]
    /\ prov' = [prov EXCEPT !.pc = "window"]
    /\ UNCHANGED <<objects, views, cmd, env>>

KeepsElems ==
    /\ prov.pc = "wait" /\ batcher.elems # {}
    /\ UNCHANGED vars

WaitTimeout ==
    /\ prov.pc = "wait" /\ batcher.elems # {}
    /\ batcher' = [batcher EXCEPT !.elems = {}]
    /\ UNCHANGED <<objects, views, prov, cmd, env>>

WindowExtended ==
    /\ prov.pc = "window" /\ batcher.trigger
    /\ batcher' = [batcher EXCEPT !.trigger = FALSE]
    /\ UNCHANGED <<objects, views, prov, cmd, env>>

WindowClosed ==
    /\ prov.pc = "window"
    /\ batcher' = [batcher EXCEPT !.elems = {}]
    /\ prov' = [prov EXCEPT !.pc = "sync"]
    /\ UNCHANGED <<objects, views, cmd, env>>

-----------------------------------------------------------------------------
(* Cluster.Synced: every tracked claim has a provider ID, and, until that    *)
(* held once with every existing claim tracked, every claim is tracked.      *)

Exists(c) == claim[c] \notin {"none", "gone"}

Synced ==
    /\ \A c \in Claims : known[c] # "unlaunched"
    /\ hasSynced \/ \A c \in Claims : Exists(c) => known[c] # "none"

CheckSynced ==
    /\ prov.pc = "sync"
    /\ hasSynced' = (hasSynced \/ Synced)
    /\ prov' = IF Synced THEN [prov EXCEPT !.pc = "nodes"] ELSE Waiting
    /\ UNCHANGED <<objects, cache, bound, known, batcher, cmd, env>>

-----------------------------------------------------------------------------
(* Schedule: DeepCopyNodes, then the pending pods, then the pods of the      *)
(* nodes that were marked for deletion in that copy, then Solve.             *)

Free == {c \in Claims : known[c] = "active" /\ claim[c] # "tainted" /\ \A p \in Pods : bound[p] # c}
Marked == {c \in Claims : known[c] = "marked"}
ActiveNodes == {c \in Claims : known[c] = "active"}

PendingPods == {p \in Pods : IsProvisionable(p)}
ReschedulablePods(on) == {p \in Pods : cache[p] \in on}

CopyNodesAnd(pc) ==
    prov' = [prov EXCEPT !.pc = pc, !.free = Free, !.del = Marked, !.used = Cardinality(ActiveNodes)]

PodsBeforeNodes ==
    \/ /\ prov.pc = "nodes" /\ prov' = [prov EXCEPT !.pc = "pending", !.pend = PendingPods]
       /\ UNCHANGED <<objects, views, batcher, cmd, env>>
    \/ /\ prov.pc = "pending" /\ CopyNodesAnd("deleting")
       /\ UNCHANGED <<objects, views, batcher, cmd, env>>

ReadNodesAndPending ==
    \/ /\ prov.pc = "nodes" /\ CopyNodesAnd("pending")
       /\ UNCHANGED <<objects, views, batcher, cmd, env>>
    \/ /\ prov.pc = "pending" /\ prov' = [prov EXCEPT !.pc = "deleting", !.pend = PendingPods]
       /\ UNCHANGED <<objects, views, batcher, cmd, env>>

ReadDeleting ==
    /\ prov.pc = "deleting"
    /\ prov' = [prov EXCEPT !.pc = "solve", !.moving = ReschedulablePods(prov.del), !.del = {}]
    /\ UNCHANGED <<objects, views, batcher, cmd, env>>

(* Solve plans a claim for every pod that finds no free node.  The limit     *)
(* left over by the copied active nodes shrinks by the capacity of each      *)
(* planned claim, and the capacity of an instance type has no "nodes"; a     *)
(* node limit only stops the plan when it was already used up.               *)
IgnoresLimit(remaining, need) == need

Planned(remaining, need) ==
    IF env.kind = "nodes" THEN (IF remaining > 0 THEN need ELSE 0)
                           ELSE Max({0, Min({remaining, need})})

Solve ==
    /\ prov.pc = "solve"
    /\ LET need == Max({0, Cardinality(prov.pend) + Cardinality(prov.moving) - Cardinality(prov.free)})
           k == Planned(limit - prov.used, need)
       IN  prov' = IF k = 0 THEN Waiting ELSE [Waiting EXCEPT !.pc = "create", !.k = k]
    /\ UNCHANGED <<objects, views, batcher, cmd, env>>

-----------------------------------------------------------------------------
(* CreateNodeClaims calls Create for each plan.  Create compares the usage   *)
(* of the pool with the limit, creates the NodeClaim and records it in       *)
(* cluster state by hand.                                                    *)

NextClaim == CHOOSE c \in Claims : claim[c] = "none" /\ \A d \in 1..(c - 1) : claim[d] # "none"
HasClaim == \E c \in Claims : claim[c] = "none"
OneDone == prov' = IF prov.k = 1 THEN Waiting ELSE [prov EXCEPT !.k = @ - 1]
Exceeded == Cardinality(ActiveNodes) > limit

Create ==
    /\ prov.pc = "create" /\ ~Exceeded /\ HasClaim
    /\ claim' = [claim EXCEPT ![NextClaim] = "created"]
    /\ known' = [known EXCEPT ![NextClaim] = "unlaunched"]
    /\ OneDone
    /\ UNCHANGED <<pod, limit, cache, bound, hasSynced, batcher, cmd, env>>

CreateRefused ==
    /\ prov.pc = "create" /\ Exceeded
    /\ OneDone
    /\ UNCHANGED <<objects, views, batcher, cmd, env>>

(* A failed API call: the error ends this Create, or the whole Schedule. *)
CallFails ==
    /\ prov.pc \in {"pending", "deleting", "solve", "create"} /\ env.errors > 0
    /\ env' = [env EXCEPT !.errors = @ - 1]
    /\ IF prov.pc = "create" THEN OneDone ELSE prov' = Waiting
    /\ UNCHANGED <<objects, views, batcher, cmd>>

-----------------------------------------------------------------------------
(* Informers.  The state controllers read the objects from the cache, so     *)
(* cluster state is never ahead of it.                                       *)

CacheSees(p) ==
    /\ cache[p] # pod[p]
    /\ cache' = [cache EXCEPT ![p] = pod[p]]
    /\ UNCHANGED <<objects, bound, known, hasSynced, batcher, prov, cmd, env>>

UpdatePod(p) ==
    /\ bound[p] # cache[p]
    /\ bound' = [bound EXCEPT ![p] = cache[p]]
    /\ UNCHANGED <<objects, cache, known, hasSynced, batcher, prov, cmd, env>>

Observed(c) ==
    CASE claim[c] = "created" -> "unlaunched"
      [] claim[c] \in {"launched", "ready", "tainted"} -> IF known[c] = "marked" THEN "marked" ELSE "active"
      [] claim[c] \in {"deleting", "draining"} -> "marked"
      [] OTHER -> "none"

UpdateNodeClaim(c) ==
    /\ known[c] # Observed(c)
    /\ known' = [known EXCEPT ![c] = Observed(c)]
    /\ UNCHANGED <<objects, cache, bound, hasSynced, batcher, prov, cmd, env>>

-----------------------------------------------------------------------------
(* The NodeClaim lifecycle, the kube-scheduler and the workload.             *)

Become(c, s) == claim' = [claim EXCEPT ![c] = s]

Launch(c) ==
    /\ claim[c] = "created" /\ Become(c, "launched")
    /\ UNCHANGED <<pod, limit, views, batcher, prov, cmd, env>>

InsufficientCapacity(c) ==
    /\ claim[c] = "created" /\ env.ice > 0 /\ Become(c, "gone")
    /\ env' = [env EXCEPT !.ice = @ - 1]
    /\ UNCHANGED <<pod, limit, views, batcher, prov, cmd>>

Initialize(c) ==
    /\ claim[c] = "launched" /\ Become(c, "ready")
    /\ UNCHANGED <<pod, limit, views, batcher, prov, cmd, env>>

CreatePod(p) ==
    /\ pod[p] = Absent /\ env.pods > 0
    /\ pod' = [pod EXCEPT ![p] = Pending]
    /\ env' = [env EXCEPT !.pods = @ - 1]
    /\ UNCHANGED <<claim, limit, views, batcher, prov, cmd>>

(* A node under deletion takes pods until the termination controller taints it. *)
Bind(p, c) ==
    /\ pod[p] = Pending /\ claim[c] \in {"ready", "deleting"} /\ \A q \in Pods : pod[q] # c
    /\ pod' = [pod EXCEPT ![p] = c]
    /\ UNCHANGED <<claim, limit, views, batcher, prov, cmd, env>>

(* The eviction deletes the pod, and its owner creates it again. *)
Evict(p) ==
    /\ pod[p] \in Claims
    /\ claim[pod[p]] = "draining" \/ (claim[pod[p]] = "tainted" /\ known[pod[p]] = "marked")
    /\ pod' = [pod EXCEPT ![p] = Pending]
    /\ UNCHANGED <<claim, limit, views, batcher, prov, cmd, env>>

Terminated(c) ==
    /\ claim[c] = "draining" \/ (claim[c] = "tainted" /\ known[c] = "marked")
    /\ \A p \in Pods : pod[p] # c
    /\ Become(c, "gone")
    /\ UNCHANGED <<pod, limit, views, batcher, prov, cmd, env>>

-----------------------------------------------------------------------------
(* Disruption, as far as the Provisioner meets it: taint the node, launch a  *)
(* replacement when the command has one, then mark the node for deletion.    *)
(* The cache has the pods of a node by the time disruption taints it, which  *)
(* it does 15 seconds after it first looked at them.                         *)

TaintNode(c) ==
    /\ claim[c] = "ready" /\ known[c] = "active" /\ env.drains > 0 /\ Become(c, "tainted")
    /\ \A p \in Pods : pod[p] = c => cache[p] = c
    /\ env.replaces => \E p \in Pods : pod[p] = c
    /\ env' = [env EXCEPT !.drains = @ - 1]
    /\ UNCHANGED <<pod, limit, views, batcher, prov, cmd>>

LaunchReplacement(c) ==
    /\ env.replaces /\ claim[c] = "tainted" /\ known[c] = "active" /\ cmd = 0 /\ HasClaim
    /\ Become(NextClaim, "created")
    /\ known' = [known EXCEPT ![NextClaim] = "unlaunched"]
    /\ cmd' = c
    /\ UNCHANGED <<pod, limit, cache, bound, hasSynced, batcher, prov, env>>

MarkForDeletion(c) ==
    /\ claim[c] = "tainted" /\ known[c] = "active" /\ (env.replaces => cmd = c)
    /\ known' = [known EXCEPT ![c] = "marked"]
    /\ cmd' = 0
    /\ UNCHANGED <<objects, cache, bound, hasSynced, batcher, prov, env>>

(* Someone deletes the Node or its NodeClaim. *)
DeleteNode(c) ==
    /\ claim[c] = "ready" /\ env.deletes > 0 /\ Become(c, "deleting")
    /\ env' = [env EXCEPT !.deletes = @ - 1]
    /\ UNCHANGED <<pod, limit, views, batcher, prov, cmd>>

TaintDeleted(c) ==
    /\ claim[c] = "deleting" /\ Become(c, "draining")
    /\ UNCHANGED <<pod, limit, views, batcher, prov, cmd, env>>

(* The user lowers the limit of the NodePool. *)
LowerLimit ==
    /\ env.edits > 0
    /\ \E l \in 0..(limit - 1) : limit' = l
    /\ env' = [env EXCEPT !.edits = @ - 1]
    /\ UNCHANGED <<pod, claim, views, batcher, prov, cmd>>

(* A new process starts with filled caches and an empty cluster state. *)
Restart ==
    /\ env.restarts > 0
    /\ env' = [env EXCEPT !.restarts = @ - 1]
    /\ cache' = pod
    /\ bound' = [p \in Pods |-> Absent] /\ known' = [c \in Claims |-> "none"]
    /\ hasSynced' = FALSE
    /\ batcher' = [trigger |-> FALSE, elems |-> {}, caller |-> [p \in Pods |-> "idle"]]
    /\ prov' = Waiting
    /\ cmd' = 0
    /\ UNCHANGED objects

-----------------------------------------------------------------------------
TriggerSteps == \E p \in Pods : Trigger(p) \/ Send(p) \/ Insert(p)
WaitSteps == WaitTriggered \/ WaitTimeout \/ WindowExtended \/ WindowClosed
Reconcile == CheckSynced \/ ReadNodesAndPending \/ ReadDeleting \/ Solve \/ Create \/ CreateRefused
PodInformer == \E p \in Pods : CacheSees(p) \/ UpdatePod(p)
ClaimSteps == \E c \in Claims : UpdateNodeClaim(c) \/ Launch(c) \/ Initialize(c) \/ Terminated(c) \/ TaintDeleted(c)
KubeScheduler == \E p \in Pods, c \in Claims : Bind(p, c)
Disruption == \E c \in Claims : TaintNode(c) \/ LaunchReplacement(c) \/ MarkForDeletion(c)
Environment ==
    \/ CallFails \/ LowerLimit \/ Restart
    \/ \E c \in Claims : InsufficientCapacity(c) \/ DeleteNode(c)
    \/ \E p \in Pods : CreatePod(p) \/ Evict(p)

Next == TriggerSteps \/ TriggerNow \/ WaitSteps \/ Reconcile \/ PodInformer \/ ClaimSteps
        \/ KubeScheduler \/ Disruption \/ Environment

Spec == Init /\ [][Next]_vars

(* Goroutines run, timers fire, watches deliver, instances launch and        *)
(* initialize, the kube-scheduler binds.  Evictions succeed in the end.      *)
Fairness ==
    /\ \A p \in Pods : WF_vars(Trigger(p)) /\ WF_vars(Send(p)) /\ WF_vars(Insert(p))
    /\ WF_vars(WaitTriggered) /\ WF_vars(WaitTimeout) /\ WF_vars(WindowClosed) /\ WF_vars(Reconcile)
    /\ \A p \in Pods : WF_vars(CacheSees(p)) /\ WF_vars(UpdatePod(p)) /\ WF_vars(Evict(p))
    /\ \A c \in Claims : WF_vars(UpdateNodeClaim(c)) /\ WF_vars(Launch(c)) /\ WF_vars(Initialize(c))
                         /\ WF_vars(LaunchReplacement(c)) /\ WF_vars(MarkForDeletion(c)) /\ WF_vars(TaintDeleted(c))
    /\ WF_vars(KubeScheduler)

FairSpec == Spec /\ Fairness

-----------------------------------------------------------------------------
(* Properties *)

Requested == {p \in Pods : pod[p] # Absent}
Capacity == {c \in Claims : claim[c] \in {"created", "launched", "ready"}}

(* Capacity is only created for pods that need it: the nodes that exist, are *)
(* launching or are requested, and are not on their way out, never outnumber *)
(* the pods, whatever binds, moves or lags while Schedule reads.             *)
NoOverProvisioning == Cardinality(Capacity) <= Cardinality(Requested)

(* The capacity of a NodePool that is not being removed, launched or only    *)
(* requested, stays within the limit the NodePool has had.                   *)
LimitKept == Cardinality(Capacity) <= env.limit

(* A pod that is pending is eventually bound: no race between Trigger and    *)
(* Wait, no loop skipped while the state is not synced, and no failed call   *)
(* or lost instance leaves it without a node for good.                       *)
PendingPodsRun == \A p \in Pods : pod[p] = Pending ~> pod[p] \in Claims
=============================================================================
