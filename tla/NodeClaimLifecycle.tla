------------------------- MODULE NodeClaimLifecycle -------------------------
(***************************************************************************)
(* One NodeClaim from creation to removal: the nodeclaim.lifecycle         *)
(* controller (launch, registration, initialization, liveness, finalize),  *)
(* the node.termination controller of its Nodes, garbage collection and    *)
(* expiration, over an API server, a lagging cache and a cloud provider.   *)
(*                                                                         *)
(* A reconcile is a sequence of steps, one per API or cloud call, on a     *)
(* local copy of the claim.  A patch with an optimistic lock succeeds when *)
(* the claim is still the one the copy was taken from.  Readiness stands   *)
(* for everything Initialization waits for.                                *)
(***************************************************************************)
EXTENDS Naturals, FiniteSets

CONSTANTS
    Instances,      \* instances the cloud provider can create
    Nodes,          \* names of Nodes
    None,
    Scenarios       \* what may happen: whether spec.terminationGracePeriod is set and the
                    \* sleep after a patch outlasts the lag of the cache, which Nodes may join
                    \* and how many instances can be had, and bounds on failing launches, other
                    \* failing calls, restarts, deletions by others and pods; lost and
                    \* forgot start FALSE

Envs == [gracePeriod : BOOLEAN, readsOwnWrites : BOOLEAN, joins : SUBSET Nodes, launches : Nat,
         launchErrors : Nat, patchErrors : Nat, restarts : Nat, deletes : Nat, pods : Nat,
         lost : BOOLEAN, forgot : BOOLEAN]

ASSUME LifecycleAssumption ==
    /\ None \notin Instances
    /\ \A e \in Scenarios : e \in Envs /\ ~e.lost /\ ~e.forgot

VARIABLES
    claim,    \* the NodeClaim on the API server
    seen,     \* the NodeClaim in the cache
    nodes,    \* the Nodes
    inst,     \* the instances
    cache,    \* Launch.cache, the instance created for the claim
    lc,       \* the running reconcile of nodeclaim.lifecycle
    nt,       \* the running reconcile of node.termination, per Node
    wake,     \* the claim is in the lifecycle workqueue
    nwake,    \* Nodes in the termination workqueue
    clock,    \* 1: launchTimeout has passed, 2: registrationTimeout too
    elapsed,  \* the termination time of the claim has passed
    env       \* the scenario, with what is left of each bound, whether a reconcile ended
              \* with an instance the claim does not record (lost), and whether the process
              \* did (forgot)

vars == <<claim, seen, nodes, inst, cache, lc, nt, wake, nwake, clock, elapsed, env>>

Claims == [phase : {"absent", "exists", "gone"}, deleting : BOOLEAN, fin : BOOLEAN, ann : BOOLEAN,
           pid : Instances \cup {None}, launched : BOOLEAN, reg : {"Unknown", "True", "False"},
           init : BOOLEAN, drained : {"nil", "Unknown", "True"}, term : BOOLEAN]

NewClaim == [phase |-> "absent", deleting |-> FALSE, fin |-> FALSE, ann |-> FALSE, pid |-> None,
             launched |-> FALSE, reg |-> "Unknown", init |-> FALSE, drained |-> "nil", term |-> FALSE]

NodeObjs == [phase : {"absent", "exists", "gone"}, inst : Instances \cup {None}, deleting : BOOLEAN,
             fin : BOOLEAN, reg : BOOLEAN, init : BOOLEAN, ready : BOOLEAN, taint : BOOLEAN,
             settled : BOOLEAN, pod : BOOLEAN, vol : BOOLEAN]

NewNode == [phase |-> "absent", inst |-> None, deleting |-> FALSE, fin |-> FALSE, reg |-> FALSE,
            init |-> FALSE, ready |-> FALSE, taint |-> FALSE, settled |-> FALSE, pod |-> FALSE, vol |-> FALSE]

LcPcs == {"idle", "sleep", "finalizer", "launch", "register", "initialize", "liveness", "patch",
          "fAnnotate", "fNodes", "fDelete", "fStatus", "fFinalizer"}
NtPcs == {"idle", "claim", "check", "drain", "terminate", "status", "remove"}

(* base is the version the copy obj was taken from, again asks for a requeue. *)
LcRecs == [pc : LcPcs, obj : Claims, base : Claims, again : BOOLEAN]
NtRecs == [pc : NtPcs, obj : Claims, base : Claims, again : BOOLEAN]
NoLc == [pc |-> "idle", obj |-> NewClaim, base |-> NewClaim, again |-> FALSE]
NoNt == [pc |-> "idle", obj |-> NewClaim, base |-> NewClaim, again |-> FALSE]

Exists   == claim.phase = "exists"
Locked(p) == claim = p.base      \* an optimistic lock on the version of process p holds
NotFound(i) == inst[i] = "gone"  \* what Delete and Get of the cloud provider answer
NodesOf(i) == {n \in Nodes : nodes[n].phase = "exists" /\ nodes[n].inst = i /\ i # None}

(* Delete of an object without finalizer removes it. *)
Deleted(o) == IF o.fin THEN [o EXCEPT !.deleting = TRUE]
              ELSE [o EXCEPT !.deleting = TRUE, !.phase = "gone"]

DeleteClaimObj == claim' = IF Exists THEN Deleted(claim) ELSE claim

-----------------------------------------------------------------------------
(* nodeclaim.lifecycle *)

(* Leave the reconcile; w asks for another one. *)
Finish(w) == lc' = NoLc /\ wake' = (wake \/ w)
GoTo(pc)  == lc' = [lc EXCEPT !.pc = pc] /\ UNCHANGED wake

LcRead ==
    /\ lc.pc = "idle" /\ wake
    /\ wake' = FALSE
    /\ lc' = IF seen.phase # "exists" \/ (seen.deleting /\ ~seen.fin) THEN NoLc
             ELSE [pc |-> IF seen.deleting THEN "fAnnotate" ELSE IF seen.fin THEN "launch" ELSE "finalizer",
                   obj |-> seen, base |-> seen, again |-> FALSE]
    /\ UNCHANGED <<claim, seen, nodes, inst, cache, nt, nwake, clock, elapsed, env>>

LcAddFinalizer ==
    /\ lc.pc = "finalizer"
    /\ \/ /\ Locked(lc) /\ Exists
          /\ claim' = [claim EXCEPT !.fin = TRUE]
          /\ lc' = [lc EXCEPT !.pc = "launch", !.obj = claim', !.base = claim']
          /\ UNCHANGED wake
       \/ /\ ~Locked(lc)
          /\ Finish(Exists)
          /\ UNCHANGED claim
    /\ UNCHANGED <<seen, nodes, inst, cache, nt, nwake, clock, elapsed, env>>

LaunchKnown ==
    /\ lc.pc = "launch" /\ lc.obj.launched
    /\ cache' = None
    /\ GoTo("register")
    /\ UNCHANGED <<claim, seen, nodes, inst, nt, nwake, clock, elapsed, env>>

PopulateNodeClaimDetails(i) ==
    lc' = [lc EXCEPT !.pc = "register", !.obj.pid = i, !.obj.launched = TRUE]

LaunchCached ==
    /\ lc.pc = "launch" /\ ~lc.obj.launched /\ cache # None
    /\ PopulateNodeClaimDetails(cache)
    /\ UNCHANGED <<claim, seen, nodes, inst, cache, nt, wake, nwake, clock, elapsed, env>>

LaunchForgets(i) ==
    /\ lc.pc = "launch" /\ ~lc.obj.launched
    /\ inst[i] = "none" /\ env.launches > 0
    /\ inst' = [inst EXCEPT ![i] = "running"]
    /\ PopulateNodeClaimDetails(i)
    /\ env' = [env EXCEPT !.launches = @ - 1]
    /\ UNCHANGED <<claim, seen, nodes, cache, nt, wake, nwake, clock, elapsed>>

LaunchCreate(i) ==
    /\ lc.pc = "launch" /\ ~lc.obj.launched /\ cache = None
    /\ inst[i] = "none" /\ env.launches > 0
    /\ inst' = [inst EXCEPT ![i] = "running"]
    /\ cache' = i
    /\ PopulateNodeClaimDetails(i)
    /\ env' = [env EXCEPT !.launches = @ - 1]
    /\ UNCHANGED <<claim, seen, nodes, nt, wake, nwake, clock, elapsed>>

LaunchErrors == {"InsufficientCapacity", "NodeClassNotReady", "Create"}

(* InsufficientCapacity and NodeClassNotReady delete the claim; any other    *)
(* error is retried.                                                         *)
LaunchFails ==
    /\ lc.pc = "launch" /\ ~lc.obj.launched /\ cache = None
    /\ env.launchErrors > 0
    /\ env' = [env EXCEPT !.launchErrors = @ - 1]
    /\ \E err \in LaunchErrors :
          \/ err \in {"InsufficientCapacity", "NodeClassNotReady"} /\ DeleteClaimObj /\ GoTo("register")
          \/ err = "Create" /\ lc' = [lc EXCEPT !.pc = "register", !.again = TRUE] /\ UNCHANGED <<claim, wake>>
    /\ UNCHANGED <<seen, nodes, inst, cache, nt, nwake, clock, elapsed>>

NodeEventIgnored(n) == nwake' = nwake \cup {n} /\ UNCHANGED wake

(* A change of Node n, or of the slices its DRA drivers publish, reaches both *)
(* workqueues; the handlers map it to the claim by the provider ID in the     *)
(* cache.                                                                     *)
NodeEvent(n) ==
    /\ wake' = (wake \/ (seen.phase = "exists" /\ seen.pid = nodes'[n].inst))
    /\ nwake' = nwake \cup {n}

SkipRegistration ==
    /\ lc.pc = "register"
    /\ lc.obj.reg # "Unknown" \/ NodesOf(lc.obj.pid) = {}
    /\ GoTo("initialize")
    /\ UNCHANGED <<claim, seen, nodes, inst, cache, nt, nwake, clock, elapsed, env>>

RegisterDuplicate ==
    /\ lc.pc = "register" /\ lc.obj.reg = "Unknown"
    /\ Cardinality(NodesOf(lc.obj.pid)) > 1
    /\ lc' = [lc EXCEPT !.pc = "initialize", !.obj.reg = "False"]
    /\ UNCHANGED <<claim, seen, nodes, inst, cache, nt, wake, nwake, clock, elapsed, env>>

(* What the registration hooks answer: all of them passed, or one is pending *)
(* or failed.                                                                *)
HookResults == BOOLEAN

(* The finalizer goes on with the labels and the removal of the taint, or    *)
(* alone while a registration hook is pending.                               *)
RegisterNode(n) ==
    /\ lc.pc = "register" /\ lc.obj.reg = "Unknown"
    /\ NodesOf(lc.obj.pid) = {n}
    /\ \E hooks \in HookResults :
          /\ nodes' = [nodes EXCEPT ![n].fin = TRUE, ![n].reg = hooks]
          /\ lc' = [lc EXCEPT !.pc = "initialize", !.obj.reg = IF hooks THEN "True" ELSE @,
                              !.again = @ \/ ~hooks]
    /\ NodeEvent(n)
    /\ UNCHANGED <<claim, seen, inst, cache, nt, clock, elapsed, env>>

(* The Node is Ready, its startup and ephemeral taints are gone, its         *)
(* resources are registered and its DRA drivers have published their pools.  *)
Operational(n) == nodes[n].ready

Initializable(n) == /\ ~lc.obj.init /\ lc.obj.reg = "True"
                    /\ NodesOf(lc.obj.pid) = {n} /\ Operational(n)

SkipInitialization ==
    /\ lc.pc = "initialize"
    /\ \A n \in Nodes : ~Initializable(n)
    /\ GoTo("liveness")
    /\ UNCHANGED <<claim, seen, nodes, inst, cache, nt, nwake, clock, elapsed, env>>

InitializeNode(n) ==
    /\ lc.pc = "initialize" /\ Initializable(n)
    /\ nodes' = [nodes EXCEPT ![n].init = TRUE]
    /\ lc' = [lc EXCEPT !.pc = "liveness", !.obj.init = TRUE]
    /\ NodeEvent(n)
    /\ UNCHANGED <<claim, seen, inst, cache, nt, clock, elapsed, env>>

LaunchTimedOut       == ~lc.obj.launched /\ clock >= 1
RegistrationTimedOut == (lc.obj.launched \/ LaunchTimedOut) /\ clock >= 2

TimedOutUnknown      == lc.obj.reg = "Unknown" /\ (LaunchTimedOut \/ RegistrationTimedOut)
TimedOut             == lc.obj.reg # "True" /\ (LaunchTimedOut \/ RegistrationTimedOut)

(* Liveness deletes the claim for one timeout or for both. *)
Liveness ==
    /\ lc.pc = "liveness"
    /\ IF TimedOut THEN DeleteClaimObj ELSE UNCHANGED claim
    /\ GoTo("patch")
    /\ UNCHANGED <<seen, nodes, inst, cache, nt, nwake, clock, elapsed, env>>

(* A patch of the Node, the update of the pool's health or a delete fails:   *)
(* the other parts of the reconcile still run and it is requeued.            *)
LcCallFails ==
    /\ env.patchErrors > 0
    /\ env' = [env EXCEPT !.patchErrors = @ - 1]
    /\ \/ /\ lc.pc = "register" /\ lc.obj.reg = "Unknown" /\ NodesOf(lc.obj.pid) # {}
          /\ lc' = [lc EXCEPT !.pc = "initialize", !.again = TRUE]
       \/ /\ lc.pc = "initialize" /\ \E n \in Nodes : Initializable(n)
          /\ lc' = [lc EXCEPT !.pc = "liveness", !.again = TRUE]
       \/ /\ lc.pc = "liveness" /\ TimedOut
          /\ lc' = [lc EXCEPT !.pc = "patch", !.again = TRUE]
    /\ UNCHANGED <<claim, seen, nodes, inst, cache, nt, wake, nwake, clock, elapsed>>

(* The conditions are a list, which a merge patch replaces as a whole. *)
Patched == [claim EXCEPT !.pid = IF lc.obj.pid = lc.base.pid THEN @ ELSE lc.obj.pid,
                         !.launched = lc.obj.launched, !.reg = lc.obj.reg, !.init = lc.obj.init,
                         !.drained = lc.obj.drained, !.term = lc.obj.term]

(* The reason of a condition may have changed and nothing else. *)
MustPatch == lc.obj # lc.base
MayPatch  == MustPatch \/ lc.obj.reg = "Unknown" \/ ~lc.obj.init

LcPatch ==
    /\ lc.pc = "patch" /\ MayPatch
    /\ \/ /\ Exists
          /\ claim' = Patched
          /\ lc' = [NoLc EXCEPT !.pc = IF env.readsOwnWrites /\ Patched # claim THEN "sleep" ELSE "idle"]
          /\ wake' = (wake \/ lc.again)
       \/ ~Exists /\ Finish(FALSE) /\ UNCHANGED claim
    /\ UNCHANGED <<seen, nodes, inst, cache, nt, nwake, clock, elapsed, env>>

LcSleepEnds ==
    /\ lc.pc = "sleep" /\ seen = claim
    /\ Finish(FALSE)
    /\ UNCHANGED <<claim, seen, nodes, inst, cache, nt, nwake, clock, elapsed, env>>

(* An instance runs that the claim does not record. *)
Unrecorded == \E i \in Instances : inst[i] = "running" /\ claim.pid # i

LcPatchFails ==
    /\ lc.pc = "patch" /\ MayPatch /\ env.patchErrors > 0
    /\ env' = [env EXCEPT !.patchErrors = @ - 1, !.lost = @ \/ Unrecorded]
    /\ Finish(TRUE)
    /\ UNCHANGED <<claim, seen, nodes, inst, cache, nt, nwake, clock, elapsed>>

LcNothingToPatch ==
    /\ lc.pc = "patch" /\ ~MustPatch
    /\ Finish(lc.again)
    /\ UNCHANGED <<claim, seen, nodes, inst, cache, nt, nwake, clock, elapsed, env>>

(* finalize *)

FinalizeAnnotate ==
    /\ lc.pc = "fAnnotate"
    /\ \/ /\ env.gracePeriod /\ ~lc.obj.ann /\ Locked(lc) /\ Exists
          /\ claim' = [claim EXCEPT !.ann = TRUE]
          /\ lc' = [lc EXCEPT !.pc = "fNodes", !.obj = claim', !.base = claim']
          /\ UNCHANGED wake
       \/ env.gracePeriod /\ ~lc.obj.ann /\ ~Locked(lc) /\ Exists /\ Finish(TRUE) /\ UNCHANGED claim
       \/ (~env.gracePeriod \/ lc.obj.ann \/ ~Exists) /\ GoTo("fNodes") /\ UNCHANGED claim
    /\ UNCHANGED <<seen, nodes, inst, cache, nt, nwake, clock, elapsed, env>>

(* The Nodes of a registered claim are deleted, and waited for: their        *)
(* removal is an event that starts the next reconcile.                       *)
FinalizeNodes ==
    LET N == IF lc.obj.reg = "True" THEN NodesOf(lc.obj.pid) ELSE {}
        D == {n \in N : ~nodes[n].deleting}
    IN  /\ lc.pc = "fNodes"
        /\ nodes' = [n \in Nodes |-> IF n \in D THEN Deleted(nodes[n]) ELSE nodes[n]]
        /\ nwake' = nwake \cup D
        /\ IF N = {} THEN GoTo("fDelete")
           ELSE Finish(D # {} /\ seen.phase = "exists" /\ seen.pid = lc.obj.pid)
        /\ UNCHANGED <<claim, seen, inst, cache, nt, clock, elapsed, env>>

(* cloudProvider.Delete: an instance that is gone is NotFound. *)
CloudDelete(i) == inst' = [inst EXCEPT ![i] = IF @ = "running" THEN "terminating" ELSE @]

FinalizeDelete ==
    /\ lc.pc = "fDelete"
    /\ \/ lc.obj.pid = None /\ GoTo("fFinalizer") /\ UNCHANGED inst
       \/ /\ lc.obj.pid # None
          /\ CloudDelete(lc.obj.pid)
          /\ lc' = [lc EXCEPT !.pc = "fStatus", !.obj.term = TRUE, !.again = ~NotFound(lc.obj.pid)]
          /\ UNCHANGED wake
    /\ UNCHANGED <<claim, seen, nodes, cache, nt, nwake, clock, elapsed, env>>

FinalizeDeleteFails ==
    /\ lc.pc = "fDelete" /\ lc.obj.pid # None /\ env.patchErrors > 0
    /\ env' = [env EXCEPT !.patchErrors = @ - 1]
    /\ Finish(TRUE)
    /\ UNCHANGED <<claim, seen, nodes, inst, cache, nt, nwake, clock, elapsed>>

(* The condition is patched under a lock, unless it was set before; then     *)
(* finalize waits until the instance is not found any more.                  *)
FinalizeStatus ==
    LET patch == lc.obj # lc.base
        Continue == IF lc.again THEN Finish(TRUE)
                    ELSE lc' = [lc EXCEPT !.pc = "fFinalizer", !.base = claim'] /\ UNCHANGED wake
    IN  /\ lc.pc = "fStatus"
        /\ \/ patch /\ Exists /\ Locked(lc) /\ claim' = lc.obj /\ Continue
           \/ patch /\ Exists /\ ~Locked(lc) /\ Finish(TRUE) /\ UNCHANGED claim
           \/ patch /\ ~Exists /\ Finish(FALSE) /\ UNCHANGED claim
           \/ /\ ~patch /\ UNCHANGED claim
              /\ IF lc.again THEN Finish(TRUE) ELSE GoTo("fFinalizer")
        /\ UNCHANGED <<seen, nodes, inst, cache, nt, nwake, clock, elapsed, env>>

FinalizeUnlocked ==
    /\ lc.pc = "fFinalizer"
    /\ claim' = IF Exists THEN [claim EXCEPT !.fin = FALSE, !.phase = "gone"] ELSE claim
    /\ Finish(FALSE)
    /\ UNCHANGED <<seen, nodes, inst, cache, nt, nwake, clock, elapsed, env>>

FinalizeRemove ==
    /\ lc.pc = "fFinalizer"
    /\ \/ Exists /\ Locked(lc) /\ claim' = [claim EXCEPT !.fin = FALSE, !.phase = "gone"] /\ Finish(FALSE)
       \/ ~(Exists /\ Locked(lc)) /\ Finish(Exists) /\ UNCHANGED claim
    /\ UNCHANGED <<seen, nodes, inst, cache, nt, nwake, clock, elapsed, env>>

-----------------------------------------------------------------------------
(* node.termination *)

NtFinish(n, w) == nt' = [nt EXCEPT ![n] = NoNt] /\ nwake' = IF w THEN nwake \cup {n} ELSE nwake
NtGoTo(n, pc)  == nt' = [nt EXCEPT ![n].pc = pc] /\ UNCHANGED nwake

HasClaim(n) == nt[n].obj.phase = "exists"

(* The claim is looked up in the cache by provider ID. *)
NtRead(n) ==
    LET o == IF seen.phase = "exists" /\ seen.pid = nodes[n].inst THEN seen ELSE NewClaim
    IN  /\ nt[n].pc = "idle" /\ n \in nwake
        /\ nwake' = nwake \ {n}
        /\ nt' = [nt EXCEPT ![n] =
                     IF nodes[n].phase = "exists" /\ nodes[n].deleting /\ nodes[n].fin
                     THEN [pc |-> "claim", obj |-> o, base |-> o, again |-> FALSE] ELSE NoNt]
        /\ UNCHANGED <<claim, seen, nodes, inst, cache, lc, wake, clock, elapsed, env>>

NtDeleteClaim(n) ==
    /\ nt[n].pc = "claim"
    /\ IF HasClaim(n) /\ ~nt[n].obj.deleting THEN DeleteClaimObj ELSE UNCHANGED claim
    /\ NtGoTo(n, "check")
    /\ UNCHANGED <<seen, nodes, inst, cache, lc, wake, clock, elapsed, env>>

Taint(n) == nodes' = [nodes EXCEPT ![n].taint = TRUE]

(* The finalizer comes off a Node that is not ready and has no instance;     *)
(* any other Node is tainted.                                                *)
NtCheck(n) ==
    /\ nt[n].pc = "check"
    /\ IF ~nodes[n].ready /\ NotFound(nodes[n].inst)
       THEN NtGoTo(n, "remove") /\ UNCHANGED <<nodes, wake>>
       ELSE /\ Taint(n)
            /\ nt' = [nt EXCEPT ![n].pc = "drain"]
            /\ IF nodes[n].taint THEN UNCHANGED <<wake, nwake>> ELSE NodeEvent(n)
    /\ UNCHANGED <<claim, seen, inst, cache, lc, clock, elapsed, env>>

DrainNoMinimum(n) ==
    LET o == [nt[n].obj EXCEPT !.drained = IF HasClaim(n) THEN "True" ELSE @]
    IN  /\ nt[n].pc = "drain"
        /\ nt' = [nt EXCEPT ![n].obj = IF nodes[n].pod THEN nt[n].obj ELSE o,
                            ![n].again = nodes[n].pod,
                            ![n].pc = IF nodes[n].pod THEN "status" ELSE "terminate"]
        /\ UNCHANGED <<claim, seen, nodes, inst, cache, lc, wake, nwake, clock, elapsed, env>>

(* awaitDrain: no pod is waiting and MinDrainTime has passed since the       *)
(* condition was set, by which time the scheduler has seen the taint.        *)
NtDrain(n) ==
    LET o    == IF HasClaim(n) /\ nt[n].obj.drained = "nil"
                THEN [nt[n].obj EXCEPT !.drained = "Unknown"] ELSE nt[n].obj
        done == ~nodes[n].pod /\ (HasClaim(n) => nt[n].obj.drained # "nil" /\ nodes[n].settled)
    IN  /\ nt[n].pc = "drain"
        /\ nt' = [nt EXCEPT ![n].obj = IF done /\ HasClaim(n) THEN [o EXCEPT !.drained = "True"] ELSE o,
                            ![n].again = ~done,
                            ![n].pc = IF done THEN "terminate" ELSE "status"]
        /\ UNCHANGED <<claim, seen, nodes, inst, cache, lc, wake, nwake, clock, elapsed, env>>

(* A volume attachment that does not belong to a pod that cannot be drained. *)
PendingVolumeAttachments(n) == nodes[n].vol

(* awaitVolumeDetachment and awaitInstanceTermination *)
NtTerminate(n) ==
    LET waits == PendingVolumeAttachments(n) /\ ~(nt[n].obj.ann /\ elapsed)
    IN  /\ nt[n].pc = "terminate"
        /\ \/ waits /\ nt' = [nt EXCEPT ![n].pc = "status", ![n].again = TRUE] /\ UNCHANGED inst
           \/ ~waits /\ ~HasClaim(n) /\ nt' = [nt EXCEPT ![n].pc = "status"] /\ UNCHANGED inst
           \/ /\ ~waits /\ HasClaim(n)
              /\ CloudDelete(nt[n].obj.pid)
              /\ nt' = [nt EXCEPT ![n].pc = "status", ![n].obj.term = TRUE,
                                  ![n].again = ~NotFound(nt[n].obj.pid)]
        /\ UNCHANGED <<claim, seen, nodes, cache, lc, wake, nwake, clock, elapsed, env>>

NtStatus(n) ==
    LET patch == HasClaim(n) /\ nt[n].obj # nt[n].base
        Continue == IF nt[n].again THEN NtFinish(n, TRUE) ELSE NtGoTo(n, "remove")
    IN  /\ nt[n].pc = "status"
        /\ \/ patch /\ Exists /\ Locked(nt[n]) /\ claim' = nt[n].obj /\ Continue
           \/ patch /\ Exists /\ ~Locked(nt[n]) /\ NtFinish(n, TRUE) /\ UNCHANGED claim
           \/ (~patch \/ ~Exists) /\ Continue /\ UNCHANGED claim
        /\ UNCHANGED <<seen, nodes, inst, cache, lc, wake, clock, elapsed, env>>

NtRemove(n) ==
    /\ nt[n].pc = "remove"
    /\ nodes' = [nodes EXCEPT ![n].fin = FALSE, ![n].phase = "gone"]
    /\ NodeEvent(n)
    /\ nt' = [nt EXCEPT ![n] = NoNt]
    /\ UNCHANGED <<claim, seen, inst, cache, lc, clock, elapsed, env>>

(* Any call of the reconcile fails. *)
NtFails(n) ==
    /\ nt[n].pc # "idle" /\ env.patchErrors > 0
    /\ env' = [env EXCEPT !.patchErrors = @ - 1]
    /\ NtFinish(n, TRUE)
    /\ UNCHANGED <<claim, seen, nodes, inst, cache, lc, wake, clock, elapsed>>

-----------------------------------------------------------------------------
(* Other controllers *)

(* nodeclaim.garbagecollection: the cloud provider no longer lists the       *)
(* instance and no ready Node speaks for it.                                 *)
GarbageCollect ==
    /\ seen.phase = "exists" /\ seen.reg = "True" /\ ~seen.deleting
    /\ inst[seen.pid] # "running"
    /\ \A n \in Nodes : NodesOf(seen.pid) = {n} => ~nodes[n].ready
    /\ Exists /\ ~claim.deleting
    /\ DeleteClaimObj
    /\ UNCHANGED <<seen, nodes, inst, cache, lc, nt, wake, nwake, clock, elapsed, env>>

(* nodeclaim.expiration, the disruption queue, or a user deletes the claim. *)
Expire ==
    /\ Exists /\ ~claim.deleting /\ env.deletes > 0
    /\ env' = [env EXCEPT !.deletes = @ - 1]
    /\ DeleteClaimObj
    /\ UNCHANGED <<seen, nodes, inst, cache, lc, nt, wake, nwake, clock, elapsed>>

SyncClaim ==
    /\ seen # claim
    /\ seen' = claim
    /\ wake' = TRUE
    /\ UNCHANGED <<claim, nodes, inst, cache, lc, nt, nwake, clock, elapsed, env>>

Restart ==
    /\ env.restarts > 0
    /\ env' = [env EXCEPT !.restarts = @ - 1, !.lost = @ \/ Unrecorded,
                          !.forgot = @ \/ \E i \in Instances : inst[i] # "none" /\ claim.pid # i]
    /\ lc' = NoLc /\ nt' = [n \in Nodes |-> NoNt] /\ cache' = None
    /\ seen' = claim /\ wake' = TRUE /\ nwake' = Nodes
    /\ UNCHANGED <<claim, nodes, inst, clock, elapsed>>

(* Time: Liveness is requeued for the moment a timeout passes. *)
Tick ==
    /\ clock < 2 /\ Exists
    /\ clock' = clock + 1 /\ wake' = TRUE
    /\ UNCHANGED <<claim, seen, nodes, inst, cache, lc, nt, nwake, elapsed, env>>

TerminationTimePasses ==
    /\ claim.ann /\ ~elapsed
    /\ elapsed' = TRUE
    /\ UNCHANGED <<claim, seen, nodes, inst, cache, lc, nt, wake, nwake, clock, env>>

-----------------------------------------------------------------------------
(* Kubelets, the scheduler, the cloud *)

SetNode(n, o) ==
    /\ nodes' = [nodes EXCEPT ![n] = o]
    /\ NodeEvent(n)
    /\ UNCHANGED <<claim, seen, inst, cache, lc, nt, clock, elapsed>>

Join(n, i) ==
    /\ nodes[n].phase = "absent" /\ inst[i] = "running" /\ n \in env.joins
    /\ SetNode(n, [NewNode EXCEPT !.phase = "exists", !.inst = i])
    /\ UNCHANGED env

KubeletReady(n) ==
    /\ nodes[n].phase = "exists" /\ ~nodes[n].ready /\ inst[nodes[n].inst] = "running"
    /\ SetNode(n, [nodes[n] EXCEPT !.ready = TRUE])
    /\ UNCHANGED env

KubeletStops(n) ==
    /\ nodes[n].phase = "exists" /\ nodes[n].ready /\ inst[nodes[n].inst] = "gone"
    /\ SetNode(n, [nodes[n] EXCEPT !.ready = FALSE])
    /\ UNCHANGED env

(* The cloud's node controller, or the owner reference of a claim that is gone. *)
DeleteNode(n) ==
    /\ nodes[n].phase = "exists" /\ ~nodes[n].deleting
    /\ \/ inst[nodes[n].inst] = "gone" /\ ~nodes[n].ready
       \/ claim.phase = "gone" /\ nodes[n].fin
    /\ SetNode(n, Deleted(nodes[n]))
    /\ UNCHANGED env

UserDeletesNode(n) ==
    /\ nodes[n].phase = "exists" /\ ~nodes[n].deleting /\ env.deletes > 0
    /\ SetNode(n, Deleted(nodes[n]))
    /\ env' = [env EXCEPT !.deletes = @ - 1]

(* A pod, with or without a volume, is bound by a scheduler that has not     *)
(* seen the taint.                                                           *)
BindPod(n) ==
    /\ nodes[n].phase = "exists" /\ nodes[n].reg /\ ~nodes[n].settled /\ ~nodes[n].pod
    /\ env.pods > 0
    /\ \E v \in BOOLEAN : SetNode(n, [nodes[n] EXCEPT !.pod = TRUE, !.vol = v])
    /\ env' = [env EXCEPT !.pods = @ - 1]

SchedulerSeesTaint(n) ==
    /\ nodes[n].phase = "exists" /\ nodes[n].taint /\ ~nodes[n].settled
    /\ SetNode(n, [nodes[n] EXCEPT !.settled = TRUE])
    /\ UNCHANGED env

PodLeaves(n) ==
    /\ nodes[n].phase = "exists" /\ nodes[n].pod /\ nodes[n].taint
    /\ SetNode(n, [nodes[n] EXCEPT !.pod = FALSE])
    /\ UNCHANGED env

VolumeDetaches(n) ==
    /\ nodes[n].phase = "exists" /\ nodes[n].vol /\ ~nodes[n].pod
    /\ SetNode(n, [nodes[n] EXCEPT !.vol = FALSE])
    /\ UNCHANGED env

InstanceGone(i) ==
    /\ inst[i] = "terminating"
    /\ inst' = [inst EXCEPT ![i] = "gone"]
    /\ UNCHANGED <<claim, seen, nodes, cache, lc, nt, wake, nwake, clock, elapsed, env>>

InstanceLost(i) ==
    /\ inst[i] = "running" /\ env.deletes > 0
    /\ inst' = [inst EXCEPT ![i] = "gone"]
    /\ env' = [env EXCEPT !.deletes = @ - 1]
    /\ UNCHANGED <<claim, seen, nodes, cache, lc, nt, wake, nwake, clock, elapsed>>

Init ==
    /\ claim = [NewClaim EXCEPT !.phase = "exists"]
    /\ seen = NewClaim
    /\ nodes = [n \in Nodes |-> NewNode]
    /\ inst = [i \in Instances |-> "none"]
    /\ cache = None
    /\ lc = NoLc /\ nt = [n \in Nodes |-> NoNt]
    /\ wake = FALSE /\ nwake = {}
    /\ clock = 0 /\ elapsed = FALSE
    /\ env \in Scenarios

LifecycleStep ==
    \/ LcRead \/ LcAddFinalizer \/ LaunchKnown \/ LaunchCached \/ \E i \in Instances : LaunchCreate(i)
    \/ SkipRegistration \/ RegisterDuplicate \/ \E n \in Nodes : RegisterNode(n) \/ InitializeNode(n)
    \/ SkipInitialization \/ Liveness \/ LcPatch \/ LcSleepEnds \/ LcNothingToPatch
    \/ FinalizeAnnotate \/ FinalizeNodes \/ FinalizeDelete \/ FinalizeStatus \/ FinalizeRemove
LifecycleFails == LaunchFails \/ LcCallFails \/ LcPatchFails \/ FinalizeDeleteFails

TerminationStep(n) == NtRead(n) \/ NtDeleteClaim(n) \/ NtCheck(n) \/ NtDrain(n) \/ NtTerminate(n)
                      \/ NtStatus(n) \/ NtRemove(n)

WorldStep(n) == KubeletStops(n) \/ DeleteNode(n) \/ SchedulerSeesTaint(n) \/ PodLeaves(n) \/ VolumeDetaches(n)
Disturbance(n) == KubeletReady(n) \/ UserDeletesNode(n) \/ BindPod(n) \/ \E i \in Instances : Join(n, i)

Next ==
    \/ LifecycleStep \/ LifecycleFails
    \/ \E n \in Nodes : TerminationStep(n) \/ NtFails(n) \/ WorldStep(n) \/ Disturbance(n)
    \/ \E i \in Instances : InstanceGone(i) \/ InstanceLost(i)
    \/ GarbageCollect \/ Expire \/ SyncClaim \/ Restart \/ Tick \/ TerminationTimePasses

Spec == Init /\ [][Next]_vars

(* Reconciles are run, the cache catches up, time passes, terminating        *)
(* instances stop, and pods and volumes leave a tainted node.                *)
Fairness ==
    /\ WF_vars(LifecycleStep)
    /\ \A n \in Nodes : WF_vars(TerminationStep(n)) /\ WF_vars(WorldStep(n))
    /\ \A i \in Instances : WF_vars(InstanceGone(i))
    /\ WF_vars(SyncClaim) /\ WF_vars(Tick) /\ WF_vars(GarbageCollect)

FairSpec == Spec /\ Fairness

-----------------------------------------------------------------------------
(* Properties *)

(* Objects, copies and counters have the shape the code gives them. *)
TypeOK ==
    /\ claim \in Claims /\ seen \in Claims
    /\ nodes \in [Nodes -> NodeObjs]
    /\ inst \in [Instances -> {"none", "running", "terminating", "gone"}]
    /\ cache \in Instances \cup {None}
    /\ lc \in LcRecs /\ nt \in [Nodes -> NtRecs]
    /\ wake \in BOOLEAN /\ nwake \subseteq Nodes /\ clock \in 0..2 /\ elapsed \in BOOLEAN
    /\ env \in Envs

(* A claim that is gone leaves no instance behind: the finalizer is removed  *)
(* only when the instance is not found (controller.go:147-148, 232-267).     *)
(* Except when the patch that records the instance failed or the process     *)
(* stopped before it: finalize then takes the claim for one that was never   *)
(* launched (controller.go:231-232).                                         *)
NoInstanceLeak ==
    claim.phase = "gone" /\ ~env.lost => \A i \in Instances : inst[i] \in {"none", "gone"}

(* The same without the exception: with the finalizer in place no resources  *)
(* leak (controller.go:147-148).                                             *)
NoInstanceLeakEver ==
    claim.phase = "gone" => \A i \in Instances : inst[i] \in {"none", "gone"}

(* A claim launches at most one instance, however stale the cache it is      *)
(* reconciled from and whichever patch fails, as long as the process does    *)
(* not stop with Launch.cache the only record of one (launch.go:63-80).      *)
OneInstance ==
    ~env.forgot => \A i, j \in Instances : inst[i] # "none" /\ inst[j] # "none" => i = j

(* A claim has one instance while it lives and none once it is gone.         *)
InstancesKept == NoInstanceLeak /\ OneInstance

(* The instance of a registered Node is terminated only once the pods have   *)
(* been drained, unless it went by itself (termination/controller.go:197,    *)
(* lifecycle/controller.go:208-230).                                         *)
DrainedBeforeTermination ==
    [][\A i \in Instances : inst[i] = "running" /\ inst'[i] = "terminating"
          => \A n \in NodesOf(i) : ~nodes[n].pod]_vars

DeletionCompletes == claim.deleting ~> (claim.phase = "gone" /\ \A n \in Nodes : ~nodes[n].fin)
RegistersOrGoes == (claim.phase = "exists") ~> (claim.reg = "True" \/ claim.phase = "gone")

(* A claim is registered within its timeouts or removed (liveness.go:64),    *)
(* and one that is deleted goes away, with its Nodes: no wait of one         *)
(* controller for the other lasts (lifecycle/controller.go:226-229,          *)
(* termination/controller.go:279-297).                                       *)
ClaimsProgress == DeletionCompletes /\ RegistersOrGoes
=============================================================================
