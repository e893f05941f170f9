--------------------------- MODULE StaticCapacity ---------------------------
(***************************************************************************)
(* A static NodePool (spec.replicas set): the static provisioning and      *)
(* deprovisioning controllers, the static drift method with the part of    *)
(* the orchestration queue that replaces one candidate, and the            *)
(* NodePoolState accounting they share, under an API server whose objects  *)
(* reach Cluster through a lagging informer.                               *)
(*                                                                         *)
(* Controllers run concurrently; a step is the code between two points     *)
(* where another goroutine can observe or change shared state (an API      *)
(* call, or the release of Cluster.mu or NodePoolState.mu).                *)
(***************************************************************************)
EXTENDS NodePoolState

CONSTANTS
    Pool,            \* the static NodePool
    None,            \* no NodeClaim
    Replicas,        \* the values spec.replicas takes
    NodeLimit,       \* spec.limits.nodes
    Budget,          \* nodes the disruption budgets let static drift disrupt
    TerminateFirst,  \* the TerminateFirstDrift feature gate
    Scenarios        \* bounds to start with: how many NodeClaims are created, become
                     \* drifted, are deleted by someone else; failed API calls and
                     \* command timeouts; changes of spec.replicas; restarts

ASSUME StaticCapacityAssumption ==
    /\ Pool \in NodePools
    /\ None \notin NodeClaims
    /\ Replicas \subseteq Nat
    /\ NodeLimit \in Nat
    /\ Budget \in Nat
    /\ TerminateFirst \in BOOLEAN
    /\ Scenarios \subseteq [claims : Nat, drifts : Nat, deletes : Nat, failures : Nat,
                            scales : Nat, restarts : Nat]

VARIABLES
    used,      \* names of the NodeClaims created so far
    api,       \* NodeClaims as the API server stores them
    removed,   \* claims whose removal the state informer has yet to see
    cluster,   \* what Cluster knows of each claim
    updating,  \* the claim whose UpdateNodeClaim holds Cluster.mu, or None
    nps,       \* Cluster.NodePoolState
    hasSynced, \* Cluster.hasSynced
    replicas,  \* NodePool spec.replicas
    prov,      \* static.provisioning: Reconcile and its CreateNodeClaims workers
    deprov,    \* static.deprovisioning: Reconcile
    drift,     \* disruption controller: the candidates of the current pass
    cmd,       \* the command that disrupts each claim
    env        \* what is left of each bound

vars == <<used, api, removed, cluster, updating, nps, hasSynced, replicas,
          prov, deprov, drift, cmd, env>>

Absent  == [phase |-> "absent", deleting |-> FALSE, drifted |-> FALSE]
Created == [phase |-> "created", deleting |-> FALSE, drifted |-> FALSE]
Unknown == [pid |-> "none", node |-> FALSE, drifted |-> FALSE,
            deleting |-> FALSE, marked |-> FALSE]
NoCmd   == [phase |-> "none", repl |-> None, staged |-> FALSE]

Claim == [phase : {"absent", "created", "launched"},
          deleting : BOOLEAN, drifted : BOOLEAN]
ClusterEntry == [pid : {"none", "empty", "set"}, node : BOOLEAN,
                 drifted : BOOLEAN, deleting : BOOLEAN, marked : BOOLEAN]
CmdPhases == {"none", "start", "mark", "create", "seed", "release",
              "failed", "markdel", "queued", "done", "failing"}
Command == [phase : CmdPhases, repl : NodeClaims \cup {None}, staged : BOOLEAN]

Exists(o)   == o.phase # "absent"
Launched(o) == o.phase = "launched"

-----------------------------------------------------------------------------
(* Cluster state, restricted to NodeClaims. *)

MarkedForDeletion(e) == e.marked \/ (e.node /\ e.deleting)

LockFree == updating = None

(* Cluster.UpdateNodeClaim(o) up to NodePoolState.UpdateNodeClaim.  A claim *)
(* whose providerID resolves is cleaned up first and filed again after,     *)
(* in separate critical sections of NodePoolState.mu.                       *)
BeginUpdateNodeClaim(nc, o) ==
    LET e == cluster[nc]
    IN  IF Launched(o)
        THEN /\ cluster' = [cluster EXCEPT ![nc] =
                                [pid |-> "set", node |-> TRUE, drifted |-> o.drifted,
                                 deleting |-> o.deleting, marked |-> e.marked]]
             /\ nps' = IF e.pid = "empty" THEN Cleanup(nps, nc) ELSE nps
             /\ updating' = nc
        ELSE /\ cluster' = [cluster EXCEPT ![nc].pid = "empty"]
             /\ nps' = UpdateNodeClaim(nps, Pool, nc, FALSE)
             /\ updating' = None

(* The rest of Cluster.UpdateNodeClaim. *)
EndUpdateNodeClaim ==
    /\ updating # None
    /\ nps' = UpdateNodeClaim(nps, Pool, updating, MarkedForDeletion(cluster[updating]))
    /\ updating' = None
    /\ UNCHANGED <<used, api, removed, cluster, hasSynced, replicas, prov, deprov, drift, cmd, env>>

(* Cluster.DeleteNodeClaim; the StateNode survives when the name maps to "". *)
DeleteNodeClaim(nc) ==
    /\ cluster' = [cluster EXCEPT ![nc] = IF @.pid = "set" THEN Unknown
                                          ELSE [@ EXCEPT !.pid = "none"]]
    /\ nps' = Cleanup(nps, nc)

(* state.nodeclaim Reconcile.  It reads the informer cache, which shows any  *)
(* version of the claim from the last one Cluster saw to the current one.    *)
InformerUpdate(nc) ==
    /\ LockFree
    /\ Exists(api[nc])
    /\ \E o \in Claim :
          /\ o.phase \in {api[nc].phase} \cup IF cluster[nc].node THEN {} ELSE {"created"}
          /\ o.deleting \in {api[nc].deleting, cluster[nc].deleting}
          /\ o.drifted \in {api[nc].drifted, cluster[nc].drifted}
          /\ BeginUpdateNodeClaim(nc, o)
    /\ UNCHANGED <<used, api, removed, hasSynced, replicas, prov, deprov, drift, cmd, env>>

InformerDelete(nc) ==
    /\ LockFree
    /\ nc \in removed
    /\ DeleteNodeClaim(nc)
    /\ removed' = removed \ {nc}
    /\ UNCHANGED <<used, api, updating, hasSynced, replicas, prov, deprov, drift, cmd, env>>

(* state.nodeclaimgc Reconcile, run once the create/seed window has passed. *)
Seeding == prov.seeding \cup {cmd[c].repl : c \in {d \in NodeClaims : cmd[d].phase = "seed"}}

NodeClaimGC(nc) ==
    /\ LockFree
    /\ ~Exists(api[nc]) /\ nc \in used
    /\ nc \notin Seeding
    /\ cluster[nc].pid = "empty"
    /\ DeleteNodeClaim(nc)
    /\ UNCHANGED <<used, api, removed, updating, hasSynced, replicas, prov, deprov, drift, cmd, env>>

SyncUnlaunchedOnly ==
    /\ LockFree
    /\ ~hasSynced
    /\ \A nc \in NodeClaims : cluster[nc].pid # "empty"
    /\ hasSynced' = TRUE
    /\ UNCHANGED <<used, api, removed, cluster, updating, nps, replicas, prov, deprov, drift, cmd, env>>

(* Cluster.Synced, the part run until it first succeeds. *)
Sync ==
    /\ LockFree
    /\ ~hasSynced
    /\ \A nc \in NodeClaims : cluster[nc].pid # "empty"
    /\ \A nc \in NodeClaims : Exists(api[nc]) => cluster[nc].pid # "none"
    /\ hasSynced' = TRUE
    /\ UNCHANGED <<used, api, removed, cluster, updating, nps, replicas, prov, deprov, drift, cmd, env>>

(* Cluster.Synced once hasSynced. *)
Synced == hasSynced /\ \A nc \in NodeClaims : cluster[nc].pid # "empty"

-----------------------------------------------------------------------------
(* The API server and the rest of the system. *)

(* generateName returns a name not used before. *)
Fresh(nc) == nc \notin used /\ Cardinality(used) < env.claims

(* kubeClient.Delete: the lifecycle finalizer keeps the object. *)
Delete(nc) == api' = IF Exists(api[nc]) THEN [api EXCEPT ![nc].deleting = TRUE] ELSE api

(* nodeclaim.lifecycle: launch, registration and initialization in one      *)
(* step, and the finalizer of a deleted claim.                              *)
Launch(nc) ==
    /\ api[nc].phase = "created" /\ ~api[nc].deleting
    /\ api' = [api EXCEPT ![nc].phase = "launched"]
    /\ UNCHANGED <<used, removed, cluster, updating, nps, hasSynced, replicas, prov, deprov, drift, cmd, env>>

Finalize(nc) ==
    /\ api[nc].deleting
    /\ api' = [api EXCEPT ![nc] = Absent]
    /\ removed' = removed \cup {nc}
    /\ UNCHANGED <<used, cluster, updating, nps, hasSynced, replicas, prov, deprov, drift, cmd, env>>

(* nodeclaim.disruption sets the Drifted condition. *)
Drift(nc) ==
    /\ env.drifts > 0
    /\ Launched(api[nc]) /\ ~api[nc].deleting /\ ~api[nc].drifted
    /\ api' = [api EXCEPT ![nc].drifted = TRUE]
    /\ env' = [env EXCEPT !.drifts = @ - 1]
    /\ UNCHANGED <<used, removed, cluster, updating, nps, hasSynced, replicas, prov, deprov, drift, cmd>>

(* A user, expiration, garbage collection or a failed launch deletes a claim. *)
ExternalDelete(nc) ==
    /\ env.deletes > 0
    /\ Exists(api[nc]) /\ ~api[nc].deleting
    /\ Delete(nc)
    /\ env' = [env EXCEPT !.deletes = @ - 1]
    /\ UNCHANGED <<used, removed, cluster, updating, nps, hasSynced, replicas, prov, deprov, drift, cmd>>

Scale(n) ==
    /\ replicas # n
    /\ replicas' = n
    /\ env.scales > 0
    /\ env' = [env EXCEPT !.scales = @ - 1]
    /\ UNCHANGED <<used, api, removed, cluster, updating, nps, hasSynced, prov, deprov, drift, cmd>>

-----------------------------------------------------------------------------
(* static.provisioning *)

ProvIdle == [wanted |-> 0, todo |-> 0, seeding |-> {}, releasing |-> 0]

(* Reconcile up to ReserveNodeCount. *)
ProvisionRead ==
    /\ prov = ProvIdle
    /\ hasSynced
    /\ Running(nps, Pool) + Pending(nps, Pool) < replicas
    /\ prov' = [prov EXCEPT !.wanted = replicas - Running(nps, Pool)]
    /\ UNCHANGED <<used, api, removed, cluster, updating, nps, hasSynced, replicas, deprov, drift, cmd, env>>

(* ReserveNodeCount and the early return when nothing is granted. *)
ProvisionReserve ==
    /\ prov.wanted > 0
    /\ nps' = ReserveNodeCount(nps, Pool, NodeLimit, prov.wanted)
    /\ prov' = [prov EXCEPT !.wanted = 0,
                            !.todo = Granted(nps, Pool, NodeLimit, prov.wanted)]
    /\ UNCHANGED <<used, api, removed, cluster, updating, hasSynced, replicas, deprov, drift, cmd, env>>

(* Spec.Limits.ExceededBy over the nodes Cluster counts for the pool. *)
LimitExceeded ==
    Cardinality({nc \in NodeClaims : cluster[nc].node /\ ~MarkedForDeletion(cluster[nc])})
        > NodeLimit

(* Provisioner.Create as far as the API call, shared with replacements. *)
KubeCreate(nc) ==
    /\ LockFree
    /\ ~LimitExceeded
    /\ Fresh(nc)
    /\ used' = used \cup {nc}
    /\ api' = [api EXCEPT ![nc] = Created]

(* The limit check, the NodePool read or the API call fails; when the names *)
(* of the instance are used up, every call does.                            *)
CreateFails ==
    LET certain == LimitExceeded \/ ~\E nc \in NodeClaims : Fresh(nc)
    IN  /\ LockFree
        /\ certain \/ env.failures > 0
        /\ env' = IF certain THEN env ELSE [env EXCEPT !.failures = @ - 1]

ProvisionCreate(nc) ==
    /\ prov.todo > 0
    /\ KubeCreate(nc)
    /\ prov' = [prov EXCEPT !.todo = @ - 1, !.seeding = @ \cup {nc}]
    /\ UNCHANGED <<removed, cluster, updating, nps, hasSynced, replicas, deprov, drift, cmd, env>>

ProvisionCreateFails ==
    /\ prov.todo > 0
    /\ CreateFails
    /\ prov' = [prov EXCEPT !.todo = @ - 1, !.releasing = @ + 1]
    /\ UNCHANGED <<used, api, removed, cluster, updating, nps, hasSynced, replicas, deprov, drift, cmd>>

(* Create ends by seeding Cluster with the object it created. *)
ProvisionSeed(nc) ==
    /\ LockFree
    /\ nc \in prov.seeding
    /\ BeginUpdateNodeClaim(nc, Created)
    /\ prov' = [prov EXCEPT !.seeding = @ \ {nc}, !.releasing = @ + 1]
    /\ UNCHANGED <<used, api, removed, hasSynced, replicas, deprov, drift, cmd, env>>

(* CreateNodeClaims releases one reservation per claim, created or not. *)
ProvisionRelease ==
    /\ prov.releasing > 0
    /\ nps' = ReleaseNodeCount(nps, Pool, 1)
    /\ prov' = [prov EXCEPT !.releasing = @ - 1]
    /\ UNCHANGED <<used, api, removed, cluster, updating, hasSynced, replicas, deprov, drift, cmd, env>>

-----------------------------------------------------------------------------
(* static.deprovisioning *)

DeprovIdle == [count |-> 0, targets |-> {}, marks |-> {}]

DeprovisionRead ==
    /\ deprov = DeprovIdle
    /\ Running(nps, Pool) > replicas
    /\ deprov' = [deprov EXCEPT !.count = Running(nps, Pool) - replicas]
    /\ UNCHANGED <<used, api, removed, cluster, updating, nps, hasSynced, replicas, prov, drift, cmd, env>>

SmallerOf(a, b) == IF a < b THEN a ELSE b

(* getDeprovisioningCandidates: unlaunched claims first, then nodes Cluster *)
(* does not know to be deleting (empty and cheap ones first, left open).    *)
DeprovisionSelect ==
    LET unresolved == {nc \in NodeClaims : api[nc].phase = "created" /\ ~api[nc].deleting}
        resolved   == {nc \in NodeClaims : cluster[nc].node /\ ~MarkedForDeletion(cluster[nc])}
    IN  /\ LockFree
        /\ deprov.count > 0
        /\ \E U \in SUBSET unresolved, R \in SUBSET resolved :
              /\ Cardinality(U) = SmallerOf(deprov.count, Cardinality(unresolved))
              /\ Cardinality(R) = SmallerOf(deprov.count - Cardinality(U), Cardinality(resolved))
              /\ deprov' = [count |-> 0, targets |-> U \cup R, marks |-> {}]
        /\ UNCHANGED <<used, api, removed, cluster, updating, nps, hasSynced, replicas, prov, drift, cmd, env>>

DeprovisionDelete(nc) ==
    /\ nc \in deprov.targets
    /\ Delete(nc)
    /\ deprov' = [deprov EXCEPT !.targets = @ \ {nc}, !.marks = @ \cup {nc}]
    /\ UNCHANGED <<used, removed, cluster, updating, nps, hasSynced, replicas, prov, drift, cmd, env>>

DeprovisionDeleteFails(nc) ==
    /\ nc \in deprov.targets
    /\ env.failures > 0
    /\ env' = [env EXCEPT !.failures = @ - 1]
    /\ deprov' = [deprov EXCEPT !.targets = @ \ {nc}]
    /\ UNCHANGED <<used, api, removed, cluster, updating, nps, hasSynced, replicas, prov, drift, cmd>>

DeprovisionMark(nc) ==
    /\ nc \in deprov.marks
    /\ nps' = MarkNodeClaimDeleting(nps, Pool, nc)
    /\ deprov' = [deprov EXCEPT !.marks = @ \ {nc}]
    /\ UNCHANGED <<used, api, removed, cluster, updating, hasSynced, replicas, prov, drift, cmd, env>>

-----------------------------------------------------------------------------
(* Static drift: StaticDrift.ComputeCommands and Queue.StartCommand. *)

Starting == {c \in NodeClaims : cmd[c].phase \in CmdPhases \ {"none", "queued", "done", "failing"}}

(* GetCandidates of the singleton disruption controller. *)
DriftCandidates ==
    /\ LockFree
    /\ Synced
    /\ drift = {} /\ Starting = {}
    /\ drift' = {c \in NodeClaims : /\ cluster[c].node /\ cluster[c].drifted
                                    /\ ~MarkedForDeletion(cluster[c])
                                    /\ cmd[c].phase = "none"}
    /\ drift' # {}
    /\ UNCHANGED <<used, api, removed, cluster, updating, nps, hasSynced, replicas, prov, deprov, cmd, env>>

(* The disruption budget left after the nodes already being disrupted. *)
AllowedDisruptions ==
    LET disrupting == Cardinality({c \in NodeClaims : cluster[c].node /\ MarkedForDeletion(cluster[c])})
    IN  IF Budget > disrupting THEN Budget - disrupting ELSE 0

StartCommands(S, staged) ==
    cmd' = [c \in NodeClaims |-> IF c \in S THEN [phase |-> "start", repl |-> None, staged |-> staged]
                                            ELSE cmd[c]]

(* ComputeCommands: nothing while scaling down, one command per reserved    *)
(* slot; with the gate on, delete-only commands when no slot is left or     *)
(* for candidates that hold a slot of a full capacity reservation.          *)
DriftReserve ==
    LET maxDrifts == SmallerOf(AllowedDisruptions, Cardinality(drift))
        granted   == Granted(nps, Pool, NodeLimit, maxDrifts)
        blocked   == maxDrifts = 0 \/ Running(nps, Pool) + Pending(nps, Pool) > replicas
        deleteOnly == IF TerminateFirst THEN maxDrifts ELSE 0
    IN  /\ LockFree
        /\ drift # {}
        /\ drift' = {}
        /\ \/ blocked /\ UNCHANGED <<nps, cmd>>
           \/ /\ ~blocked /\ granted > 0
              /\ nps' = ReserveNodeCount(nps, Pool, NodeLimit, maxDrifts)
              /\ \E S \in SUBSET drift : Cardinality(S) = granted /\ StartCommands(S, TRUE)
           \/ /\ ~blocked /\ granted = 0
              /\ \E S \in SUBSET drift : Cardinality(S) = deleteOnly /\ StartCommands(S, FALSE)
              /\ UNCHANGED nps
           \/ /\ ~blocked /\ TerminateFirst
              /\ \E S \in SUBSET drift : Cardinality(S) <= maxDrifts /\ StartCommands(S, FALSE)
              /\ UNCHANGED nps
        /\ UNCHANGED <<used, api, removed, cluster, updating, hasSynced, replicas, prov, deprov, env>>

SetPhase(c, phase) == cmd' = [cmd EXCEPT ![c].phase = phase]

(* markDisrupted taints and patches the candidate; a claim that is gone     *)
(* counts as marked.                                                        *)
MarkDisrupted(c) ==
    /\ cmd[c].phase = "start"
    /\ SetPhase(c, "mark")
    /\ UNCHANGED <<used, api, removed, cluster, updating, nps, hasSynced, replicas, prov, deprov, drift, env>>

MarkDisruptedFailsKeepsSlot(c) ==
    /\ cmd[c].phase = "start"
    /\ env.failures > 0
    /\ env' = [env EXCEPT !.failures = @ - 1]
    /\ cmd' = [cmd EXCEPT ![c] = NoCmd]
    /\ UNCHANGED <<used, api, removed, cluster, updating, nps, hasSynced, replicas, prov, deprov, drift>>

(* It fails: the deferred call releases the reservation StartCommand owns.  *)
MarkDisruptedFails(c) ==
    /\ cmd[c].phase = "start"
    /\ env.failures > 0
    /\ env' = [env EXCEPT !.failures = @ - 1]
    /\ nps' = IF cmd[c].staged THEN ReleaseNodeCount(nps, Pool, 1) ELSE nps
    /\ cmd' = [cmd EXCEPT ![c] = NoCmd]
    /\ UNCHANGED <<used, api, removed, cluster, updating, hasSynced, replicas, prov, deprov, drift>>

MarkPending(c) ==
    /\ cmd[c].phase = "mark"
    /\ nps' = MarkNodeClaimPendingDisruption(nps, Pool, c)
    /\ SetPhase(c, IF cmd[c].staged THEN "create" ELSE "markdel")
    /\ UNCHANGED <<used, api, removed, cluster, updating, hasSynced, replicas, prov, deprov, drift, env>>

(* createReplacementNodeClaims. *)
ReplacementCreate(c, nc) ==
    /\ cmd[c].phase = "create"
    /\ KubeCreate(nc)
    /\ cmd' = [cmd EXCEPT ![c].phase = "seed", ![c].repl = nc]
    /\ UNCHANGED <<removed, cluster, updating, nps, hasSynced, replicas, prov, deprov, drift, env>>

ReplacementCreateFails(c) ==
    /\ cmd[c].phase = "create"
    /\ CreateFails
    /\ SetPhase(c, "failed")
    /\ UNCHANGED <<used, api, removed, cluster, updating, nps, hasSynced, replicas, prov, deprov, drift>>

ReplacementSeed(c) ==
    /\ LockFree
    /\ cmd[c].phase = "seed"
    /\ BeginUpdateNodeClaim(cmd[c].repl, Created)
    /\ SetPhase(c, "release")
    /\ UNCHANGED <<used, api, removed, hasSynced, replicas, prov, deprov, drift, env>>

(* The provisioner's worker releases; a failed creation ends the command.   *)
ReplacementRelease(c) ==
    /\ cmd[c].phase \in {"release", "failed"}
    /\ nps' = ReleaseNodeCount(nps, Pool, 1)
    /\ cmd' = [cmd EXCEPT ![c] = IF @.phase = "failed" THEN NoCmd
                                 ELSE [@ EXCEPT !.phase = "markdel"]]
    /\ UNCHANGED <<used, api, removed, cluster, updating, hasSynced, replicas, prov, deprov, drift, env>>

(* Cluster.MarkForDeletion, then the command enters the queue. *)
MarkForDeletion(c) ==
    /\ LockFree
    /\ cmd[c].phase = "markdel"
    /\ cluster' = [cluster EXCEPT ![c].marked = @ \/ cluster[c].node]
    /\ nps' = IF cluster[c].node THEN MarkNodeClaimDeleting(nps, Pool, c) ELSE nps
    /\ SetPhase(c, "queued")
    /\ UNCHANGED <<used, api, removed, updating, hasSynced, replicas, prov, deprov, drift, env>>

-----------------------------------------------------------------------------
(* Queue.Reconcile.  AsReconciler reads the candidate first:         *)
(* when it is gone the command is never looked at again.                    *)

ReplacementReady(c) == cmd[c].staged => Launched(api[cmd[c].repl])

(* waitOrTerminate deletes the candidate; past the timeout the deferred     *)
(* call turns even a success into a failure.                                *)
QueueTerminate(c) ==
    /\ cmd[c].phase = "queued" /\ Exists(api[c])
    /\ ReplacementReady(c)
    /\ Delete(c)
    /\ \/ SetPhase(c, "done") /\ env' = env
       \/ /\ env.failures > 0
          /\ env' = [env EXCEPT !.failures = @ - 1]
          /\ SetPhase(c, "failing")
    /\ UNCHANGED <<used, removed, cluster, updating, nps, hasSynced, replicas, prov, deprov, drift>>

(* The replacement was deleted, or the command timed out waiting. *)
QueueGiveUp(c) ==
    /\ LockFree
    /\ cmd[c].phase = "queued" /\ Exists(api[c]) /\ ~ReplacementReady(c)
    /\ \/ /\ ~Exists(api[cmd[c].repl]) /\ cluster[cmd[c].repl].pid = "none"
          /\ env' = env
       \/ /\ env.failures > 0
          /\ env' = [env EXCEPT !.failures = @ - 1]
    /\ SetPhase(c, "failing")
    /\ UNCHANGED <<used, api, removed, cluster, updating, nps, hasSynced, replicas, prov, deprov, drift>>

(* CompleteCommand; UnmarkForDeletion files the claim as active again       *)
(* unless Cluster's copy is already deleting.                               *)
CompleteCommand(c) ==
    /\ LockFree
    /\ cmd[c].phase \in {"done", "failing"}
    /\ IF cmd[c].phase = "failing" /\ cluster[c].node
       THEN /\ cluster' = [cluster EXCEPT ![c].marked = FALSE]
            /\ nps' = IF cluster[c].deleting THEN nps ELSE MarkNodeClaimActive(nps, Pool, c)
       ELSE UNCHANGED <<cluster, nps>>
    /\ cmd' = [cmd EXCEPT ![c] = NoCmd]
    /\ UNCHANGED <<used, api, removed, updating, hasSynced, replicas, prov, deprov, drift, env>>

-----------------------------------------------------------------------------
(* The process restarts: memory is lost. *)
Restart ==
    /\ env.restarts > 0
    /\ env' = [env EXCEPT !.restarts = @ - 1]
    /\ removed' = {}
    /\ cluster' = [nc \in NodeClaims |-> Unknown]
    /\ updating' = None
    /\ nps' = NewNodePoolState
    /\ hasSynced' = FALSE
    /\ prov' = ProvIdle /\ deprov' = DeprovIdle /\ drift' = {}
    /\ cmd' = [nc \in NodeClaims |-> NoCmd]
    /\ UNCHANGED <<used, api, replicas>>

Init ==
    /\ used = {}
    /\ api = [nc \in NodeClaims |-> Absent]
    /\ removed = {}
    /\ cluster = [nc \in NodeClaims |-> Unknown]
    /\ updating = None
    /\ nps = NewNodePoolState
    /\ hasSynced = FALSE
    /\ replicas \in Replicas
    /\ prov = ProvIdle /\ deprov = DeprovIdle /\ drift = {}
    /\ cmd = [nc \in NodeClaims |-> NoCmd]
    /\ env \in Scenarios

StateStep == Sync \/ EndUpdateNodeClaim
             \/ \E nc \in NodeClaims : InformerUpdate(nc) \/ InformerDelete(nc) \/ NodeClaimGC(nc)
ApiStep   == \E nc \in NodeClaims : Launch(nc) \/ Finalize(nc)
ProvStep  == ProvisionRead \/ ProvisionReserve \/ ProvisionRelease
             \/ \E nc \in NodeClaims : ProvisionCreate(nc) \/ ProvisionSeed(nc)
DeprovStep == DeprovisionRead \/ DeprovisionSelect
              \/ \E nc \in NodeClaims : DeprovisionDelete(nc) \/ DeprovisionMark(nc)
DriftStep == DriftCandidates \/ DriftReserve
             \/ \E c \in NodeClaims : \/ MarkDisrupted(c) \/ MarkPending(c) \/ ReplacementSeed(c)
                                      \/ ReplacementRelease(c) \/ MarkForDeletion(c)
                                      \/ \E nc \in NodeClaims : ReplacementCreate(c, nc)
QueueStep == \E c \in NodeClaims : QueueTerminate(c) \/ QueueGiveUp(c) \/ CompleteCommand(c)
EnvStep   == Restart \/ ProvisionCreateFails
             \/ \E nc \in NodeClaims : \/ Drift(nc) \/ ExternalDelete(nc) \/ DeprovisionDeleteFails(nc)
                                       \/ MarkDisruptedFails(nc) \/ ReplacementCreateFails(nc)
             \/ \E n \in Replicas : Scale(n)

Next == StateStep \/ ApiStep \/ ProvStep \/ DeprovStep \/ DriftStep \/ QueueStep \/ EnvStep

Spec == Init /\ [][Next]_vars

-----------------------------------------------------------------------------
(* Properties. *)

(* Every variable ranges over the values the code gives it. *)
TypeOK ==
    /\ used \subseteq NodeClaims /\ removed \subseteq NodeClaims
    /\ api \in [NodeClaims -> Claim]
    /\ cluster \in [NodeClaims -> ClusterEntry]
    /\ updating \in NodeClaims \cup {None}
    /\ nps \in NodePoolStates
    /\ hasSynced \in BOOLEAN
    /\ replicas \in Replicas
    /\ prov \in [wanted : Nat, todo : Nat, seeding : SUBSET NodeClaims, releasing : Nat]
    /\ deprov \in [count : Nat, targets : SUBSET NodeClaims, marks : SUBSET NodeClaims]
    /\ drift \subseteq NodeClaims
    /\ cmd \in [NodeClaims -> Command]

(* Commands whose replacement still holds the slot ComputeCommands reserved. *)
Holding == {c \in NodeClaims :
               cmd[c].staged /\ cmd[c].phase \in {"start", "mark", "create", "seed", "release", "failed"}}

Outstanding == prov.todo + Cardinality(prov.seeding) + prov.releasing + Cardinality(Holding)

(* No slot of the NodePool's node limit leaks: whatever StartCommand,        *)
(* CreateNodeClaims and their error paths do, the reservation counter never  *)
(* exceeds the slots still held by someone who is going to release them      *)
(* (queue.go:364-416, provisioner.go:202-208, statenodepool.go:134-178).     *)
NoReservationLeak == nps.reserved[Pool] <= Outstanding

(* A claim is counted once: NodePoolState never files it under two of        *)
(* Active, PendingDisruption and Deleting (statenodepool.go:71-101), in any  *)
(* order of marks by the queue, the informer and deprovisioning.             *)
FiledOnce ==
    LET st == nps.claims[Pool]
    IN  /\ st.active \cap (st.deleting \cup st.pendingDisruption) = {}
        /\ st.deleting \cap st.pendingDisruption = {}

(* Once Cluster has synced, the accounting counts every claim that exists    *)
(* unless Create has yet to seed it: provisioning after a restart does not   *)
(* create what is already there (static/provisioning/controller.go:83-88).   *)
(* Two kinds of claims are excepted: the one whose update is between Cleanup *)
(* and UpdateNodeClaim, and drifted ones, the candidates of commands: the    *)
(* Cleanup of the last active claim forgets whatever is pending disruption   *)
(* (statenodepool.go:115) and only a later event files it again.             *)
CountedOnceSynced ==
    hasSynced => \A nc \in NodeClaims :
        Exists(api[nc]) /\ ~api[nc].drifted =>
            nc \in Tracked(nps, Pool) \cup Seeding \cup {updating}

(* The claims that exist never outnumber spec.limits.nodes: what             *)
(* ReserveNodeCount promises (statenodepool.go:132-133).                     *)
NodeLimitRespected == Cardinality({nc \in NodeClaims : Exists(api[nc])}) <= NodeLimit

(* Every name the accounting counts has a mapping, so that the Cleanup of    *)
(* its deletion finds it: the state never represents more claims than exist  *)
(* for good (static/deprovisioning/controller.go:91).                        *)
TrackedIsMapped ==
    LockFree => \A nc \in Tracked(nps, Pool) : nps.poolOf[nc] = Pool

(* Provisioning counts the claims pending disruption as active: it asks for  *)
(* what is missing beyond them (static/provisioning/controller.go:93).       *)
ProvisionsShortfall ==
    [][prov'.wanted > 0 /\ prov.wanted = 0 =>
           prov'.wanted <= replicas - Running(nps, Pool) - Pending(nps, Pool)]_vars

(* A claim being replaced by drift does not make deprovisioning act: the     *)
(* active claims it counts, candidates of commands in progress aside,        *)
(* outnumber spec.replicas (static/deprovisioning/controller.go:95-98).      *)
DeprovisioningIgnoresDrift ==
    [][deprov'.count > 0 /\ deprov.count = 0 =>
           Cardinality(nps.claims[Pool].active \ {c \in NodeClaims : cmd[c].repl # None})
               > replicas]_vars
=============================================================================
