---------------------------- MODULE ClusterState ----------------------------
(***************************************************************************)
(* state.Cluster: the in-memory picture of NodeClaims, Nodes and pods that *)
(* scheduling and disruption read, and the informers that maintain it.     *)
(*                                                                         *)
(* Every method holds Cluster.mu, so a method is a function on the value c *)
(* of the Cluster.  World variables hold what the informer cache shows; a  *)
(* reconcile reads an object in one step and applies it in a later one,    *)
(* and the workqueue runs one reconcile per object at a time.  One         *)
(* NodePool, Pool, is modelled; an instance has at most one Node.          *)
(***************************************************************************)
EXTENDS NodePoolState

CONSTANTS
    Pool,        \* the NodePool of every managed claim
    Nodes, Pods, \* names
    PIDs,        \* provider IDs
    None,        \* nil, or an absent map entry
    Empty,       \* the empty provider ID
    ClaimCap,    \* status.capacity of a NodeClaim
    NodeCap,     \* status.capacity of an initialized Node, 0 before
    Scenarios    \* bounds to start with: how many claims are created, Nodes join, pods are
                 \* bound, commands mark a node, reconciles of a Node fail half way and
                 \* passes of consolidation find nothing to do; and whether Create may be
                 \* delayed past the launch of its claim

ASSUME ClusterStateAssumption ==
    /\ Pool \in NodePools
    /\ IsFiniteSet(Nodes) /\ IsFiniteSet(PIDs)
    /\ NodeClaims \cap Nodes = {} /\ NodeClaims \cap Pods = {} /\ Nodes \cap Pods = {}
    /\ None \notin PIDs \cup NodeClaims \cup Nodes
    /\ Empty \notin PIDs \cup Nodes \cup {None}
    /\ PIDs \cap Nodes = {}
    /\ ClaimCap \in Nat /\ NodeCap \in Nat
    /\ Scenarios \subseteq [creates : Nat, joins : Nat, binds : Nat, marks : Nat, errors : Nat,
                           passes : Nat, lateSeed : BOOLEAN]

VARIABLES
    claims,    \* NodeClaims in the cache
    nodes,     \* Nodes in the cache
    pods,      \* pods in the cache
    seeding,   \* claims created and not yet seeded by Provisioner.Create
    dirty,     \* objects with a reconcile to run
    reading,   \* what a running reconcile has read
    c,         \* the Cluster
    env        \* what is left of each bound

vars == <<claims, nodes, pods, seeding, dirty, reading, c, env>>

Keys == PIDs \cup Nodes     \* a Node without provider ID is keyed by its name

ClaimObj == [phase : {"absent", "exists", "gone"}, pid : PIDs \cup {Empty}, deleting : BOOLEAN]
NodeObj  == [exists : BOOLEAN, pid : PIDs \cup {Empty}, pool : BOOLEAN, typed : BOOLEAN,
             reg : BOOLEAN, init : BOOLEAN, deleting : BOOLEAN]
PodObj   == [node : Nodes \cup {None}, exists : BOOLEAN, terminal : BOOLEAN]

ASSUME NilAssumption == None \notin ClaimObj \cup NodeObj \cup PodObj   \* nil is not an object

NoNode == [exists |-> FALSE, pid |-> Empty, pool |-> FALSE, typed |-> FALSE,
           reg |-> FALSE, init |-> FALSE, deleting |-> FALSE]

-----------------------------------------------------------------------------
(* StateNode *)

NewNode == [claim |-> None, claimDeleting |-> FALSE, node |-> None, obj |-> NoNode,
            marked |-> FALSE, pods |-> {}, costs |-> {}]

Tracks(s)  == s.claim # None \/ s.node # None
Managed(s) == s.claim # None

Registered(s)  == Managed(s) => s.node # None /\ s.obj.reg
Initialized(s) == Managed(s) => s.node # None /\ s.obj.init

Deleted(s) == \/ Managed(s) /\ s.claimDeleting
              \/ s.node # None /\ ~Managed(s) /\ s.obj.deleting
MarkedForDeletion(s) == s.marked \/ Deleted(s)

(* Labels()[NodePoolLabelKey] # "". *)
InPool(s) == Tracks(s) /\ (s.node = None \/ (Managed(s) /\ ~Registered(s)) \/ s.obj.pool)

(* Capacity: quantities the Node does not report yet come from the claim. *)
Capacity(s) == IF Managed(s) /\ ~Initialized(s) THEN ClaimCap
               ELSE IF s.obj.init THEN NodeCap ELSE 0

-----------------------------------------------------------------------------
(* Cluster *)

NewCluster == [nodes |-> [k \in Keys |-> NewNode],
               nodePid |-> [n \in Nodes |-> None],
               claimPid |-> [nc \in NodeClaims |-> None],
               bindings |-> [p \in Pods |-> None],
               count |-> 0, cpu |-> 0,
               nps |-> NewNodePoolState,
               consolidated |-> FALSE]

MarkUnconsolidated(d) == [d EXCEPT !.consolidated = FALSE]

Counted(s) == InPool(s) /\ ~MarkedForDeletion(s)

updateNodePoolResources(d, old, new) ==
    [d EXCEPT !.count = @ - (IF Counted(old) THEN 1 ELSE 0) + (IF Counted(new) THEN 1 ELSE 0),
              !.cpu   = @ - (IF Counted(old) THEN Capacity(old) ELSE 0)
                          + (IF Counted(new) THEN Capacity(new) ELSE 0)]

triggerConsolidationOnChange(d, old, new) ==
    IF \/ ~Tracks(old) \/ ~Tracks(new)
       \/ Initialized(old) # Initialized(new)
       \/ MarkedForDeletion(old) # MarkedForDeletion(new)
    THEN MarkUnconsolidated(d) ELSE d

SetNode(d, id, s) == [updateNodePoolResources(d, d.nodes[id], s) EXCEPT !.nodes[id] = s]

ForgetsOther(s) == NewNode

(* The StateNode without its NodeClaim, or without its Node; an entry with  *)
(* neither is deleted from the map.                                         *)
WithoutClaim(s) == IF s.node = None THEN NewNode
                   ELSE [s EXCEPT !.claim = None, !.claimDeleting = FALSE]
WithoutNode(s)  == IF s.claim = None THEN NewNode ELSE [s EXCEPT !.node = None, !.obj = NoNode]

CleanupKeepsResources(d, nc) ==
    LET id == d.claimPid[nc]
        e  == IF id \in PIDs THEN MarkUnconsolidated([d EXCEPT !.nodes[id] = WithoutClaim(@)]) ELSE d
    IN  [e EXCEPT !.claimPid[nc] = None, !.nps = Cleanup(@, nc)]

cleanupNodeClaim(d, nc) ==
    LET id == d.claimPid[nc]
        e  == IF id \in PIDs THEN MarkUnconsolidated(SetNode(d, id, WithoutClaim(d.nodes[id]))) ELSE d
    IN  [e EXCEPT !.claimPid[nc] = None, !.nps = Cleanup(@, nc)]

cleanupNode(d, n) ==
    LET id == d.nodePid[n]
    IN  IF id = None THEN d
        ELSE [MarkUnconsolidated(SetNode(d, id, WithoutNode(d.nodes[id]))) EXCEPT !.nodePid[n] = None]

(* newStateFromNodeClaim does not copy podDisruptionCosts. *)
newStateFromNodeClaim(d, nc, o) ==
    LET old == d.nodes[o.pid]
        new == [old EXCEPT !.claim = nc, !.claimDeleting = o.deleting, !.costs = {}]
        e   == IF d.claimPid[nc] \notin {None, o.pid} THEN cleanupNodeClaim(d, nc) ELSE d
    IN  triggerConsolidationOnChange([updateNodePoolResources(e, old, new) EXCEPT !.nodes[o.pid] = new],
                                     old, new)

UpdateNodeClaimOp(d, nc, o) ==
    LET e == IF o.pid = Empty THEN d ELSE newStateFromNodeClaim(d, nc, o)
        marked == o.pid # Empty /\ MarkedForDeletion(e.nodes[o.pid])
    IN  [e EXCEPT !.nps = UpdateNodeClaim(@, Pool, nc, marked), !.claimPid[nc] = o.pid]

BoundTo(n) == {p \in Pods : pods[p].exists /\ ~pods[p].terminal /\ pods[p].node = n}

BindKeepsOld(d, P, n) == [d EXCEPT !.bindings = [p \in Pods |-> IF p \in P THEN n ELSE d.bindings[p]]]

(* cleanupOldBindings and bindings[p] = n, for every pod p in P. *)
Bind(d, P, n) ==
    LET moved(k) == {p \in P : /\ d.bindings[p] \notin {None, n}
                               /\ d.nodePid[d.bindings[p]] = k}
    IN  [d EXCEPT !.nodes = [k \in Keys |-> [d.nodes[k] EXCEPT !.pods = @ \ moved(k),
                                                                !.costs = @ \ moved(k)]],
                  !.bindings = [p \in Pods |-> IF p \in P THEN n ELSE d.bindings[p]],
                  !.consolidated = @ /\ \A p \in P : d.bindings[p] = n]

(* UpdateNode ignores a managed Node without provider ID, or one that is not *)
(* initialized and has no instance type yet.                                 *)
Ignored(o) == o.pool /\ (o.pid = Empty \/ (~o.typed /\ ~o.init))

NodeKey(n, o) == IF o.pid = Empty THEN n ELSE o.pid

UpdateNodeOp(d, n, o) ==
    LET id  == NodeKey(n, o)
        b   == Bind(d, BoundTo(n), n)
        old == d.nodes[id]
        new == [old EXCEPT !.node = n, !.obj = o, !.pods = BoundTo(n), !.costs = BoundTo(n)]
        e   == IF b.nodePid[n] \notin {None, id} THEN cleanupNode(b, n) ELSE b
    IN  IF Ignored(o) THEN d
        ELSE [triggerConsolidationOnChange(
                 [updateNodePoolResources(e, old, new) EXCEPT !.nodes[id] = new], old, new)
              EXCEPT !.nodePid[n] = id]

(* The Node of a bound pod must be known. *)
Unknown(d, o) == o.exists /\ ~o.terminal /\ o.node # None /\ d.nodePid[o.node] = None

(* updateNodeUsageFromPodCompletion *)
ForgetPod(d, p) ==
    LET id == IF d.bindings[p] = None THEN None ELSE d.nodePid[d.bindings[p]]
        e  == [d EXCEPT !.bindings[p] = None]
    IN  IF id = None THEN e ELSE [e EXCEPT !.nodes[id].pods = @ \ {p}, !.nodes[id].costs = @ \ {p}]

UpdatePodOp(d, p, o) ==
    LET id == d.nodePid[o.node]
        e  == [d EXCEPT !.nodes[id].pods = @ \cup {p}, !.nodes[id].costs = @ \cup {p}]
    IN  IF o.terminal THEN ForgetPod(d, p)
        ELSE IF o.node = None \/ Unknown(d, o) THEN d
        ELSE Bind(e, {p}, o.node)

DeletePodOp(d, p) == MarkUnconsolidated(ForgetPod(d, p))

(* MarkForDeletion and UnmarkForDeletion of the StateNode with key k. *)
MarkOp(d, k) ==
    LET s == [d.nodes[k] EXCEPT !.marked = TRUE]
        e == SetNode(d, k, s)
    IN  IF s.claim = None THEN e ELSE [e EXCEPT !.nps = MarkNodeClaimDeleting(@, Pool, s.claim)]

UnmarkOp(d, k) ==
    LET s == [d.nodes[k] EXCEPT !.marked = FALSE]
        e == SetNode(d, k, s)
    IN  IF s.claim = None \/ s.claimDeleting THEN e
        ELSE [e EXCEPT !.nps = MarkNodeClaimActive(@, Pool, s.claim)]

-----------------------------------------------------------------------------
(* The objects the informers watch. *)

Change(k) == dirty' = dirty \cup {k}

(* Provisioner.Create: the API call, and the seed that follows it. *)
CreateClaim(nc) ==
    /\ claims[nc].phase = "absent" /\ env.creates > 0
    /\ claims' = [claims EXCEPT ![nc].phase = "exists"]
    /\ seeding' = seeding \cup {nc}
    /\ Change(nc)
    /\ env' = [env EXCEPT !.creates = @ - 1]
    /\ UNCHANGED <<nodes, pods, reading, c>>

(* A claim that exists is reconciled again after stateRetryPeriod, so a late *)
(* seed is corrected unless the claim is deleted first.                      *)
Seed(nc) ==
    /\ nc \in seeding
    /\ seeding' = seeding \ {nc}
    /\ c' = UpdateNodeClaimOp(c, nc, [phase |-> "exists", pid |-> Empty, deleting |-> FALSE])
    /\ dirty' = IF claims[nc].phase = "exists" THEN dirty \cup {nc} ELSE dirty
    /\ UNCHANGED <<claims, nodes, pods, reading, env>>

LaunchClaim(nc, p) ==
    /\ claims[nc].phase = "exists" /\ claims[nc].pid = Empty /\ ~claims[nc].deleting
    /\ nc \in seeding => env.lateSeed
    /\ \A other \in NodeClaims : claims[other].pid # p
    /\ claims' = [claims EXCEPT ![nc].pid = p]
    /\ Change(nc)
    /\ UNCHANGED <<nodes, pods, seeding, reading, c, env>>

DeleteClaim(nc) ==
    /\ claims[nc].phase = "exists" /\ ~claims[nc].deleting
    /\ claims' = [claims EXCEPT ![nc].deleting = TRUE]
    /\ Change(nc)
    /\ UNCHANGED <<nodes, pods, seeding, reading, c, env>>

RemoveClaim(nc) ==
    /\ claims[nc].phase = "exists" /\ claims[nc].deleting
    /\ claims' = [claims EXCEPT ![nc].phase = "gone"]
    /\ Change(nc)
    /\ UNCHANGED <<nodes, pods, seeding, reading, c, env>>

SetNodeObj(n, o) ==
    /\ nodes' = [nodes EXCEPT ![n] = o]
    /\ Change(n)
    /\ UNCHANGED <<claims, pods, seeding, reading, c, env>>

(* The kubelet joins, the CCM fills in the provider ID and the instance     *)
(* type, registration copies the claim's labels, initialization follows.    *)
JoinNode(n) ==
    /\ nodes[n] = NoNode /\ env.joins > 0
    /\ \E pool \in BOOLEAN : nodes' = [nodes EXCEPT ![n] = [NoNode EXCEPT !.exists = TRUE, !.pool = pool]]
    /\ Change(n)
    /\ env' = [env EXCEPT !.joins = @ - 1]
    /\ UNCHANGED <<claims, pods, seeding, reading, c>>

SetProviderID(n, p) ==
    /\ nodes[n].exists /\ nodes[n].pid = Empty
    /\ \A m \in Nodes : nodes[m].pid # p
    /\ SetNodeObj(n, [nodes[n] EXCEPT !.pid = p])

SetInstanceType(n) ==
    /\ nodes[n].exists /\ nodes[n].pid # Empty /\ nodes[n].pool /\ ~nodes[n].typed
    /\ SetNodeObj(n, [nodes[n] EXCEPT !.typed = TRUE])

RegisterNode(n) ==
    /\ nodes[n].exists /\ ~nodes[n].reg
    /\ \E nc \in NodeClaims : claims[nc].phase = "exists" /\ claims[nc].pid = nodes[n].pid
                              /\ claims[nc].pid # Empty
    /\ SetNodeObj(n, [nodes[n] EXCEPT !.pool = TRUE, !.typed = TRUE, !.reg = TRUE])

InitializeNode(n) ==
    /\ nodes[n].exists /\ nodes[n].reg /\ ~nodes[n].init
    /\ SetNodeObj(n, [nodes[n] EXCEPT !.init = TRUE])

DeleteNodeObj(n) ==
    /\ nodes[n].exists /\ ~nodes[n].deleting
    /\ SetNodeObj(n, [nodes[n] EXCEPT !.deleting = TRUE])

RemoveNode(n) ==
    /\ nodes[n].exists /\ nodes[n].deleting
    /\ SetNodeObj(n, [nodes[n] EXCEPT !.exists = FALSE])

SetPod(p, o) ==
    /\ pods' = [pods EXCEPT ![p] = o]
    /\ Change(p)
    /\ UNCHANGED <<claims, nodes, seeding, reading, c>>

(* A pod is bound to a Node; its name may be reused. *)
BindPod(p, n) ==
    /\ nodes[n].exists /\ ~pods[p].exists /\ env.binds > 0
    /\ SetPod(p, [exists |-> TRUE, node |-> n, terminal |-> FALSE])
    /\ env' = [env EXCEPT !.binds = @ - 1]

FinishPod(p) ==
    /\ pods[p].exists /\ ~pods[p].terminal
    /\ SetPod(p, [pods[p] EXCEPT !.terminal = TRUE])
    /\ UNCHANGED env

RemovePod(p) ==
    /\ pods[p].exists
    /\ SetPod(p, [exists |-> FALSE, node |-> None, terminal |-> FALSE])
    /\ UNCHANGED env

-----------------------------------------------------------------------------
(* The reconcilers of state.nodeclaim, state.node and state.pod. *)

Read(k, o) ==
    /\ k \in dirty /\ reading[k] = None
    /\ dirty' = dirty \ {k}
    /\ reading' = [reading EXCEPT ![k] = o]
    /\ UNCHANGED <<claims, nodes, pods, seeding, c, env>>

ReadClaim(nc) == Read(nc, claims[nc])
ReadNode(n)   == Read(n, nodes[n])
ReadPod(p)    == Read(p, pods[p])

Done(k) == reading' = [reading EXCEPT ![k] = None]

ApplyClaim(nc) ==
    /\ reading[nc] # None
    /\ c' = IF reading[nc].phase = "exists" THEN UpdateNodeClaimOp(c, nc, reading[nc])
                                            ELSE cleanupNodeClaim(c, nc)
    /\ Done(nc)
    /\ UNCHANGED <<claims, nodes, pods, seeding, dirty, env>>

ApplyNode(n) ==
    /\ reading[n] # None
    /\ c' = IF reading[n].exists THEN UpdateNodeOp(c, n, reading[n]) ELSE cleanupNode(c, n)
    /\ Done(n)
    /\ UNCHANGED <<claims, nodes, pods, seeding, dirty, env>>

(* UpdateNode fails after binding some of the pods: listing pods or volumes *)
(* fails, the StateNode is dropped and the reconcile is retried.            *)
ApplyNodeFails(n) ==
    /\ reading[n] # None /\ reading[n].exists /\ ~Ignored(reading[n])
    /\ env.errors > 0
    /\ env' = [env EXCEPT !.errors = @ - 1]
    /\ \E P \in SUBSET BoundTo(n) : c' = Bind(c, P, n)
    /\ Done(n) /\ Change(n)
    /\ UNCHANGED <<claims, nodes, pods, seeding>>

(* A pod whose Node is unknown is requeued. *)
ApplyPod(p) ==
    /\ reading[p] # None
    /\ c' = IF reading[p].exists THEN UpdatePodOp(c, p, reading[p]) ELSE DeletePodOp(c, p)
    /\ dirty' = IF Unknown(c, reading[p]) THEN dirty \cup {p} ELSE dirty
    /\ Done(p)
    /\ UNCHANGED <<claims, nodes, pods, seeding, env>>

(* state.nodeclaimgc: the claim is gone and its entry never launched. *)
NodeClaimGC(nc) ==
    /\ claims[nc].phase = "gone" /\ nc \notin seeding
    /\ c.claimPid[nc] = Empty
    /\ c' = cleanupNodeClaim(c, nc)
    /\ UNCHANGED <<claims, nodes, pods, seeding, dirty, reading, env>>

-----------------------------------------------------------------------------
(* The disruption queue marks and unmarks, consolidation takes note of the  *)
(* cluster it has seen, and forgets after five minutes.                     *)

MarkForDeletion(k) ==
    /\ Tracks(c.nodes[k]) /\ ~c.nodes[k].marked /\ env.marks > 0
    /\ c' = MarkOp(c, k)
    /\ env' = [env EXCEPT !.marks = @ - 1]
    /\ UNCHANGED <<claims, nodes, pods, seeding, dirty, reading>>

UnmarkForDeletion(k) ==
    /\ c.nodes[k].marked
    /\ c' = UnmarkOp(c, k)
    /\ UNCHANGED <<claims, nodes, pods, seeding, dirty, reading, env>>

Consolidate ==
    /\ ~c.consolidated /\ env.passes > 0
    /\ c' = [c EXCEPT !.consolidated = TRUE]
    /\ env' = [env EXCEPT !.passes = @ - 1]
    /\ UNCHANGED <<claims, nodes, pods, seeding, dirty, reading>>

ConsolidationExpires ==
    /\ c.consolidated
    /\ c' = MarkUnconsolidated(c)
    /\ UNCHANGED <<claims, nodes, pods, seeding, dirty, reading, env>>

Init ==
    /\ claims = [nc \in NodeClaims |-> [phase |-> "absent", pid |-> Empty, deleting |-> FALSE]]
    /\ nodes = [n \in Nodes |-> NoNode]
    /\ pods = [p \in Pods |-> [exists |-> FALSE, node |-> None, terminal |-> FALSE]]
    /\ seeding = {} /\ dirty = {}
    /\ reading = [k \in NodeClaims \cup Nodes \cup Pods |-> None]
    /\ c = NewCluster
    /\ env \in Scenarios

ClaimStep == \E nc \in NodeClaims : \/ CreateClaim(nc) \/ Seed(nc) \/ DeleteClaim(nc) \/ RemoveClaim(nc)
                                    \/ ReadClaim(nc) \/ ApplyClaim(nc) \/ NodeClaimGC(nc)
                                    \/ \E p \in PIDs : LaunchClaim(nc, p)
NodeStep  == \E n \in Nodes : \/ JoinNode(n) \/ SetInstanceType(n) \/ RegisterNode(n) \/ InitializeNode(n)
                              \/ DeleteNodeObj(n) \/ RemoveNode(n)
                              \/ ReadNode(n) \/ ApplyNode(n) \/ ApplyNodeFails(n)
                              \/ \E p \in PIDs : SetProviderID(n, p)
PodStep   == \E p \in Pods : \/ FinishPod(p) \/ RemovePod(p) \/ ReadPod(p) \/ ApplyPod(p)
                             \/ \E n \in Nodes : BindPod(p, n)
MarkStep  == \/ \E k \in Keys : MarkForDeletion(k) \/ UnmarkForDeletion(k)
             \/ Consolidate \/ ConsolidationExpires

Next == ClaimStep \/ NodeStep \/ PodStep \/ MarkStep

Spec == Init /\ [][Next]_vars

-----------------------------------------------------------------------------
(* Properties. *)

StateNodes == [claim : NodeClaims \cup {None}, claimDeleting : BOOLEAN, node : Nodes \cup {None},
               obj : NodeObj, marked : BOOLEAN, pods : SUBSET Pods, costs : SUBSET Pods]
Clusters == [nodes : [Keys -> StateNodes], nodePid : [Nodes -> Keys \cup {None}],
             claimPid : [NodeClaims -> PIDs \cup {Empty, None}], bindings : [Pods -> Nodes \cup {None}],
             count : Nat, cpu : Nat, nps : NodePoolStates, consolidated : BOOLEAN]

(* The Cluster holds values of the types the code declares, and a reconcile  *)
(* has read an object of its kind.                                           *)
TypeOK ==
    /\ claims \in [NodeClaims -> ClaimObj] /\ nodes \in [Nodes -> NodeObj] /\ pods \in [Pods -> PodObj]
    /\ \A nc \in NodeClaims : reading[nc] \in ClaimObj \cup {None}
    /\ \A n \in Nodes : reading[n] \in NodeObj \cup {None}
    /\ \A p \in Pods : reading[p] \in PodObj \cup {None}
    /\ DOMAIN reading = NodeClaims \cup Nodes \cup Pods
    /\ c \in Clusters

(* Every name that maps to a provider ID finds its StateNode, with itself in *)
(* it: cleanupNodeClaim and cleanupNode dereference c.nodes[id] unchecked     *)
(* (cluster.go:771, 826).                                                     *)
MappingsResolve ==
    /\ \A nc \in NodeClaims : c.claimPid[nc] \in PIDs => c.nodes[c.claimPid[nc]].claim = nc
    /\ \A n \in Nodes : c.nodePid[n] # None => c.nodes[c.nodePid[n]].node = n

(* The capacity of nodes is that of their claims until they are initialized. *)
FromClaim(s) == Managed(s) /\ ~Initialized(s)
FromNode(s) == ~FromClaim(s) /\ s.obj.init
SumCpu(S) == ClaimCap * Cardinality({k \in S : FromClaim(c.nodes[k])})
             + NodeCap * Cardinality({k \in S : FromNode(c.nodes[k])})

(* The running totals of nodePoolResources equal the sum over the nodes of    *)
(* the pool not marked for deletion, in any order of updates of a Node and    *)
(* its claim, changes of provider ID, marks and removals (cluster.go:862).    *)
ResourcesExact ==
    LET S == {k \in Keys : Counted(c.nodes[k])}
    IN  c.count = Cardinality(S) /\ c.cpu = SumCpu(S)

CaughtUp == dirty = {} /\ seeding = {} /\ \A k \in DOMAIN reading : reading[k] = None

Live(nc)  == claims[nc].phase = "exists"
Known(n)  == nodes[n].exists /\ ~Ignored(nodes[n])

(* When every event has been applied, the Cluster is what a rebuild from the  *)
(* cache gives: each instance has one StateNode with its claim, its Node and  *)
(* exactly the pods bound to it, and NodePoolState counts exactly the claims  *)
(* that exist, as deleting those whose StateNode is marked, whatever order    *)
(* the events came in (cluster.go:347-461, 740-837, 949-1000), as long as no  *)
(* Create is delayed past the launch of its claim: NothingLeftToHeal is what  *)
(* fails then.                                                                *)
Converged ==
    CaughtUp /\ ~env.lateSeed =>
        /\ \A nc \in NodeClaims : Live(nc) /\ claims[nc].pid # Empty =>
              LET s == c.nodes[claims[nc].pid] IN s.claim = nc /\ s.claimDeleting = claims[nc].deleting
        /\ \A n \in Nodes : Known(n) =>
              LET s == c.nodes[NodeKey(n, nodes[n])]
              IN  s.node = n /\ s.obj = nodes[n] /\ s.pods = BoundTo(n)
        /\ \A k \in Keys :
              /\ c.nodes[k].claim # None => Live(c.nodes[k].claim)
              /\ c.nodes[k].node # None => Known(c.nodes[k].node)
        /\ (\A nc \in NodeClaims : c.claimPid[nc] = Empty => Live(nc)) =>
              LET st == c.nps.claims[Pool]
              IN  /\ Tracked(c.nps, Pool) = {nc \in NodeClaims : Live(nc)}
                  /\ st.deleting = {nc \in NodeClaims : /\ Live(nc) /\ claims[nc].pid # Empty
                                                        /\ MarkedForDeletion(c.nodes[claims[nc].pid])}

(* Once the claim is gone, the seed has landed and every event is applied,    *)
(* there is nothing to heal but an unlaunched entry                           *)
(* (state/nodeclaimgc/controller.go:63-64).                                   *)
NothingLeftToHeal ==
    CaughtUp => \A k \in Keys : c.nodes[k].claim # None => Live(c.nodes[k].claim)

(* DisruptionCost is exact: it is maintained as pods are added and removed    *)
(* (statenode.go:533-534).                                                    *)
DisruptionCostExact ==
    CaughtUp => \A n \in Nodes : Known(n) => c.nodes[NodeKey(n, nodes[n])].costs = BoundTo(n)

(* MarkUnconsolidated is called whenever something changed that may have made *)
(* the cluster consolidatable: a pod that leaves a node (cluster.go:630-632). *)
FreedCapacityUnconsolidates ==
    [][\A k \in Keys : /\ Tracks(c'.nodes[k]) /\ c.nodes[k].pods \ c'.nodes[k].pods # {}
                       => ~c'.consolidated]_vars
=============================================================================
