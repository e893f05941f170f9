------------------------------- MODULE Reboot --------------------------------
(***************************************************************************)
(* The in-place reboot of one NodeClaim: the repair method that commits    *)
(* it, the nodeclaim.reboot controller that drives it, the initialization  *)
(* step of nodeclaim.lifecycle that runs beside it, and the machine.       *)
(*                                                                         *)
(* The three controllers read the claim and the Node from the informer     *)
(* cache, which lags, and write them one API call at a time.  A patch with *)
(* an optimistic lock fails if anyone wrote the claim since the copy was   *)
(* read; a status patch without one replaces the whole list of conditions  *)
(* by the one of the copy.  A timestamp is kept as its age, up to Old.     *)
(***************************************************************************)
EXTENDS Integers, FiniteSets, TLC

CONSTANTS
    minDrainTime, issuanceTimeout, observationWindow, gracePeriod, toleration,   \* durations, in ticks
    rebootsBeforeReplacement,
    Scenarios    \* what happens outside the controllers, see Environments

Durations == {minDrainTime, issuanceTimeout, observationWindow, gracePeriod, toleration}
ASSUME RebootAssumption == Durations \subseteq Nat /\ rebootsBeforeReplacement \in Nat

(* init: the Initialized condition at the start; tgp: the drain bound of the *)
(* repair policy; pods: whether pods come and go; the number of commits,     *)
(* failed calls, restarts, Nodes that vanish and edits of the drain bound;   *)
(* late: a pod may still bind for minDrainTime after the fence is up.        *)
Environments == [init : {"True", "NotReady"}, tgp : {"none", "zero", "some"}, pods : BOOLEAN,
                 commits : Nat, errors : Nat, restarts : Nat, vanish : Nat, edits : Nat, late : BOOLEAN]

ASSUME ScenarioAssumption == Scenarios \subseteq Environments

VARIABLES
    claim,    \* the NodeClaim on the API server
    seen,     \* the NodeClaim in the informer cache
    stale,    \* holders of a copy with an older resourceVersion
    node,     \* the Node on the API server
    nseen,    \* the Node in the informer cache
    pods,     \* whether pods that a drain waits for are on the Node
    machine,  \* operations the provider accepted, whether one is still to be carried out,
              \* whether it refuses to reboot the machine
    rec,      \* the reconcile of nodeclaim.reboot
    life,     \* the reconcile of nodeclaim.lifecycle
    repair,   \* the pass of the repair method
    started,  \* Controller.issuanceStarted, process-local
    history,  \* RebootHistory, process-local
    past,     \* what happened, for the properties
    env       \* the scenario, with what is left of its bounds

vars == <<claim, seen, stale, node, nseen, pods, machine, rec, life, repair, started, history, past, env>>

None == -1
Old  == 1 + CHOOSE m \in Durations : \A d \in Durations : d <= m
Ages == 0..Old
Later(a) == IF a = None \/ a = Old THEN a ELSE a + 1

Bounds == {"none", "zero", "some", "invalid"}

(* phase: the Rebooting condition; ep and age: the request it stands for and *)
(* its transition time; pre, issued, tgp, tight: the annotations.            *)
Claims == [phase : {"none", "Requested", "Issued", "Succeeded", "Failed"}, ep : Nat, age : Ages,
           init : {"True", "NotReady", "Rebooting"}, initAge : Ages,
           pre : Nat, issued : Ages \cup {None}, tgp : Bounds,
           tight : BOOLEAN, deleting : BOOLEAN]
NoBoot == 0
NoClaim == [phase |-> "none", ep |-> 0, age |-> 0, init |-> "True", initAge |-> 0, pre |-> NoBoot,
            issued |-> None, tgp |-> "none", tight |-> FALSE, deleting |-> FALSE]
Operations == [ep : Nat, pre : Nat]
Nodes == [exists : BOOLEAN, taint : BOOLEAN, fenceAge : Ages, label : BOOLEAN, boot : Nat \ {NoBoot},
          ready : BOOLEAN]

Reconciles == [pc : {"idle", "taint", "drain", "record", "call", "issuedAt", "issued", "forget", "unlabel",
                     "lift", "clear", "terminal", "failTaint", "tighten", "delete"},
               c : Claims, n : Nodes, result : {"Succeeded", "Failed"}]

Holders == {"cache", "reboot", "repair"}
NoNode == [exists |-> FALSE, taint |-> FALSE, fenceAge |-> 0, label |-> FALSE, boot |-> 1, ready |-> FALSE]
IdleRec  == [pc |-> "idle", c |-> NoClaim, n |-> NoNode, result |-> "Succeeded"]
IdleLife == [pc |-> "idle", c |-> NoClaim]
IdlePass == [pc |-> "idle", tgp |-> "none"]

RebootInProgress(c) == c.phase \in {"Requested", "Issued"}
Operation(c) == [ep |-> c.ep, pre |-> c.pre]

-----------------------------------------------------------------------------
(* Writes of the claim.  Every other copy is stale from then on; the answer  *)
(* of a patch replaces the copy of the writer.                               *)

Copies == {"cache"} \cup {h \in {"reboot"} : rec.pc # "idle"} \cup {h \in {"repair"} : repair.pc # "idle"}
Written(by, c) == claim' = c /\ stale' = Copies \ {by}

WithConditions(c, of) ==
    [c EXCEPT !.phase = of.phase, !.ep = of.ep, !.age = of.age, !.init = of.init, !.initAge = of.initAge]

(* A read of the cache by a controller. *)
Read(by) == stale' = IF "cache" \in stale THEN stale \cup {by} ELSE stale \ {by}

DeliverClaim ==
    /\ "cache" \in stale
    /\ seen' = claim /\ stale' = stale \ {"cache"}
    /\ UNCHANGED <<claim, node, nseen, pods, machine, rec, life, repair, started, history, past, env>>

DeliverNode ==
    /\ nseen # node
    /\ nseen' = node
    /\ UNCHANGED <<pods, claim, seen, stale, node, machine, rec, life, repair, started, history, past, env>>

-----------------------------------------------------------------------------
(* nodeclaim.reboot *)

issuedAt(c) == IF c.issued # None THEN c.issued ELSE IF c.init # "True" THEN c.initAge ELSE None

pastRebootDeadline(c) ==
    IF c.phase = "Issued" THEN issuedAt(c) > observationWindow ELSE started > issuanceTimeout

(* Without a Node the issuance window is counted from the request. *)
PastDeadlineNoNode(c) ==
    \/ pastRebootDeadline(c)
    \/ (IF c.phase = "Issued" THEN issuedAt(c) ELSE started) = None /\ c.age > issuanceTimeout

Done == rec' = IdleRec
Goto(pc, c, n) == rec' = [rec EXCEPT !.pc = pc, !.c = c, !.n = n]
ensureIssuanceStarted == started' = IF started = None THEN 0 ELSE started
clearIssuanceStarted  == started' = None

(* rebootTerminationGracePeriod does not parse. *)
Invalid(c, n) == n.exists /\ ~pastRebootDeadline(c) /\ c.phase = "Requested" /\ c.tgp = "invalid"

FirstStep(c, n) ==
    CASE ~n.exists -> IF PastDeadlineNoNode(c) THEN "tighten" ELSE "idle"
      [] n.exists /\ pastRebootDeadline(c) -> "failTaint"
      [] n.exists /\ ~pastRebootDeadline(c) /\ c.phase = "Issued" -> "unlabel"
      [] OTHER -> IF Invalid(c, n) THEN "failTaint" ELSE "taint"

ReconcileReads ==
    /\ rec.pc = "idle" /\ RebootInProgress(seen) /\ ~seen.deleting
    /\ FirstStep(seen, nseen) # "idle"
    /\ rec' = [pc |-> FirstStep(seen, nseen), c |-> seen, n |-> nseen,
               result |-> IF Invalid(seen, nseen) THEN "Failed" ELSE "Succeeded"]
    /\ Read("reboot")
    /\ UNCHANGED <<claim, seen, node, nseen, pods, machine, life, repair, started, history, past, env>>

ReconcileDeleting ==
    /\ rec.pc = "idle" /\ RebootInProgress(seen) /\ seen.deleting /\ started # None
    /\ clearIssuanceStarted
    /\ UNCHANGED <<claim, seen, stale, node, nseen, pods, machine, rec, life, repair, history, past, env>>

(* A patch of the Node: not sent if the copy is as wanted already, an error  *)
(* if the Node is gone; its answer replaces the copy.  Then is the rest of   *)
(* the reconcile up to its next call.                                        *)
PatchNode(unneeded, patched, Then(_)) ==
    \/ unneeded /\ Then(rec.n) /\ UNCHANGED node
    \/ ~unneeded /\ node.exists /\ node' = patched /\ Then(patched)
    \/ ~unneeded /\ ~node.exists /\ Done /\ UNCHANGED <<node, started>>

ToProviderDrainsAgain(n) == Goto("drain", rec.c, n) /\ UNCHANGED started

ToProviderNoReseed(n) ==
    /\ IF rec.c.pre = NoBoot THEN Goto("drain", rec.c, n)
       ELSE IF n.boot # rec.c.pre THEN Goto("issuedAt", rec.c, n)
       ELSE Goto("call", rec.c, n)
    /\ UNCHANGED started

ToProvider(n) ==
    IF rec.c.pre = NoBoot THEN Goto("drain", rec.c, n) /\ UNCHANGED started
    ELSE IF n.boot # rec.c.pre THEN Goto("issuedAt", rec.c, n) /\ UNCHANGED started
    ELSE Goto("call", rec.c, n) /\ ensureIssuanceStarted

ensureRebootTaint ==
    /\ rec.pc = "taint"
    /\ PatchNode(rec.n.taint, [node EXCEPT !.taint = TRUE, !.fenceAge = 0], ToProvider)
    /\ UNCHANGED <<claim, seen, stale, nseen, pods, machine, life, repair, history, past, env>>

longer(a, b) == IF a > b THEN a ELSE b

DrainedAtFloor(c) == c.tgp = "zero" \/ c.age >= minDrainTime

(* Whether drain lets the reboot go on: pods that are left ride it once the  *)
(* bound has passed.                                                         *)
Drained(c) ==
    \/ c.tgp = "zero"
    \/ pods /\ c.tgp = "some" /\ c.age >= longer(gracePeriod, minDrainTime)
    \/ ~pods /\ c.age >= minDrainTime

drain ==
    /\ rec.pc = "drain"
    /\ IF Drained(rec.c) THEN Goto("record", rec.c, rec.n) /\ ensureIssuanceStarted
       ELSE Done /\ UNCHANGED started
    /\ UNCHANGED <<claim, seen, stale, node, nseen, pods, machine, life, repair, history, past, env>>

recordIssuingState ==
    /\ rec.pc = "record"
    /\ Written("reboot", [claim EXCEPT !.pre = rec.n.boot])
    /\ Goto("call", claim', rec.n)
    /\ past' = [past EXCEPT !.lagged = @ \/ rec.n.boot # node.boot]
    /\ UNCHANGED <<seen, node, nseen, pods, machine, life, repair, started, history, env>>

(* The provider carries out an operation once.  A transient error need not   *)
(* mean that it was not accepted; a refusal is final.                        *)
Accepted == machine' = [machine EXCEPT !.accepted = @ \cup {Operation(rec.c)},
                                       !.due = @ \/ Operation(rec.c) \notin machine.accepted]

issueReboot ==
    /\ rec.pc = "call"
    /\ past' = [past EXCEPT !.calls = @ \cup {Operation(rec.c)}]
    /\ \/ ~machine.refuses /\ Accepted /\ Goto("issuedAt", rec.c, rec.n)
       \/ ~machine.refuses /\ Accepted /\ Done
       \/ UNCHANGED machine /\ Done
       \/ /\ Operation(rec.c) \notin machine.accepted
          /\ machine' = [machine EXCEPT !.refuses = TRUE]
          /\ Goto("failTaint", rec.c, rec.n)
    /\ UNCHANGED <<claim, seen, stale, node, nseen, pods, life, repair, started, history, env>>

(* transitionToIssued: the annotation, then the conditions, then the label.  *)
RecordIssuedAt ==
    /\ rec.pc = "issuedAt"
    /\ IF rec.c.issued # None THEN Goto("issued", rec.c, rec.n) /\ UNCHANGED <<claim, stale>>
       ELSE /\ Written("reboot", [claim EXCEPT !.issued = 0])
            /\ Goto("issued", claim', rec.n)
    /\ UNCHANGED <<seen, node, nseen, pods, machine, life, repair, started, history, past, env>>

IssuedConditions(c) ==
    [c EXCEPT !.phase = "Issued", !.age = IF RebootInProgress(c) THEN @ ELSE 0,
              !.init = "Rebooting", !.initAge = IF c.init = "True" THEN 0 ELSE @]

(* Without a Rebooting condition in the copy the handler panics. *)
transitionToIssued ==
    /\ rec.pc = "issued"
    /\ IF rec.c.phase = "none" THEN Done /\ UNCHANGED <<claim, stale>>
       ELSE IF IssuedConditions(rec.c) = rec.c THEN Goto("forget", rec.c, rec.n) /\ UNCHANGED <<claim, stale>>
       ELSE /\ Written("reboot", WithConditions(claim, IssuedConditions(rec.c)))
            /\ Goto("forget", claim', rec.n)
    /\ UNCHANGED <<seen, node, nseen, pods, machine, life, repair, started, history, past, env>>

ObserveAnyBoot(n) ==
    /\ IF rec.pc = "unlabel" THEN Goto("lift", rec.c, n) ELSE Done
    /\ UNCHANGED started

ObserveKeepsFence(n) ==
    /\ IF rec.pc = "unlabel" /\ n.boot # rec.c.pre /\ n.ready THEN Goto("clear", rec.c, n) ELSE Done
    /\ UNCHANGED started

Observe(n) ==
    /\ IF rec.pc = "unlabel" /\ n.boot # rec.c.pre THEN Goto("lift", rec.c, n) ELSE Done
    /\ UNCHANGED started

removeInitializedLabel ==
    /\ rec.pc \in {"forget", "unlabel"}
    /\ PatchNode(~rec.n.label, [node EXCEPT !.label = FALSE], Observe)
    /\ UNCHANGED <<claim, seen, stale, nseen, pods, machine, life, repair, history, past, env>>

FinishIfReady(n) ==
    IF n.ready THEN Goto("clear", rec.c, n) /\ clearIssuanceStarted ELSE Done /\ UNCHANGED started

(* reconcileIssued, once the new boot is observed. *)
LiftFence ==
    /\ rec.pc = "lift"
    /\ PatchNode(~rec.n.taint, [node EXCEPT !.taint = FALSE], FinishIfReady)
    /\ UNCHANGED <<claim, seen, stale, nseen, pods, machine, life, repair, history, past, env>>

(* setTerminal: the annotations, then the condition, each under a lock. *)
ClearEpisode ==
    /\ rec.pc = "clear"
    /\ IF rec.c.pre = NoBoot /\ rec.c.issued = None 
       THEN Goto("terminal", rec.c, rec.n) /\ UNCHANGED <<claim, stale>>
       ELSE IF "reboot" \in stale THEN Done /\ UNCHANGED <<claim, stale>>
       ELSE /\ Written("reboot", [claim EXCEPT !.pre = NoBoot, !.issued = None])
            /\ Goto("terminal", claim', rec.n)
    /\ UNCHANGED <<seen, node, nseen, pods, machine, life, repair, started, history, past, env>>

setTerminal ==
    /\ rec.pc = "terminal"
    /\ IF "reboot" \in stale THEN UNCHANGED <<claim, stale>>
       ELSE Written("reboot", [claim EXCEPT !.phase = rec.result, !.age = 0])
    /\ Done
    /\ UNCHANGED <<seen, node, nseen, pods, machine, life, repair, started, history, past, env>>

(* transitionToFailed: an invalid request ends there, any other failure      *)
(* replaces the claim.                                                       *)
AfterFence(n) ==
    IF rec.result = "Failed" THEN Goto("clear", rec.c, n) /\ clearIssuanceStarted
    ELSE Goto("tighten", rec.c, n) /\ UNCHANGED started

FailureLiftsFence ==
    /\ rec.pc = "failTaint"
    /\ PatchNode(~rec.n.taint, [node EXCEPT !.taint = FALSE], AfterFence)
    /\ UNCHANGED <<claim, seen, stale, nseen, pods, machine, life, repair, history, past, env>>

TightenTermination ==
    /\ rec.pc = "tighten"
    /\ IF rec.c.tgp \in {"none", "invalid"} \/ rec.c.tight
       THEN Goto("delete", rec.c, rec.n) /\ UNCHANGED <<claim, stale>>
       ELSE IF "reboot" \in stale THEN Done /\ UNCHANGED <<claim, stale>>
       ELSE /\ Written("reboot", [claim EXCEPT !.tight = TRUE])
            /\ Goto("delete", claim', rec.n)
    /\ UNCHANGED <<seen, node, nseen, pods, machine, life, repair, started, history, past, env>>

FailureDeletes ==
    /\ rec.pc = "delete"
    /\ IF "reboot" \in stale THEN UNCHANGED <<claim, stale, started>>
       ELSE Written("reboot", [claim EXCEPT !.deleting = TRUE]) /\ clearIssuanceStarted
    /\ Done
    /\ UNCHANGED <<seen, node, nseen, pods, machine, life, repair, history, past, env>>

ReconcileFails ==
    /\ rec.pc \notin {"idle", "drain", "call"} /\ env.errors > 0
    /\ Done
    /\ env' = [env EXCEPT !.errors = @ - 1]
    /\ UNCHANGED <<claim, seen, stale, node, nseen, pods, machine, life, repair, started, history, past>>

-----------------------------------------------------------------------------
(* The repair method: a candidate whose policy asks for a reboot. *)

(* GetRepairResult: the toleration is counted from the end of the last       *)
(* reboot at the earliest.                                                   *)
Tolerated(c) == c.phase \in {"Succeeded", "Failed"} /\ c.age < toleration

RepairReads ==
    /\ repair.pc = "idle" /\ env.commits > 0
    /\ nseen.exists /\ ~Tolerated(seen) /\ history < rebootsBeforeReplacement
    /\ ~RebootInProgress(seen) /\ ~seen.deleting
    /\ repair' = [pc |-> "bound", tgp |-> seen.tgp]
    /\ Read("repair")
    /\ UNCHANGED <<claim, seen, node, nseen, pods, machine, rec, life, started, history, past, env>>

CommitDrainBound ==
    /\ repair.pc = "bound"
    /\ IF repair.tgp = env.tgp THEN repair' = [repair EXCEPT !.pc = "commit"] /\ UNCHANGED <<claim, stale>>
       ELSE IF "repair" \in stale THEN repair' = IdlePass /\ UNCHANGED <<claim, stale>>
       ELSE /\ Written("repair", [claim EXCEPT !.tgp = env.tgp])
            /\ repair' = [pc |-> "commit", tgp |-> env.tgp]
    /\ UNCHANGED <<seen, node, nseen, pods, machine, rec, life, started, history, past, env>>

(* The answer of the API may be lost: the reboot is committed, not recorded. *)
commitReboot ==
    /\ repair.pc = "commit"
    /\ repair' = IdlePass
    /\ IF "repair" \in stale THEN UNCHANGED <<claim, stale, history, past, env>>
       ELSE /\ Written("repair", [claim EXCEPT !.phase = "Requested", !.ep = past.commits + 1, !.age = 0])
            /\ \/ /\ history' = history + 1
                  /\ past' = [past EXCEPT !.commits = @ + 1, !.boot = node.boot]
                  /\ env' = [env EXCEPT !.commits = @ - 1]
               \/ /\ env.errors > 0 /\ UNCHANGED history
                  /\ past' = [past EXCEPT !.commits = @ + 1, !.boot = node.boot]
                  /\ env' = [env EXCEPT !.commits = @ - 1, !.errors = @ - 1]
    /\ UNCHANGED <<seen, node, nseen, pods, machine, rec, life, started>>

(* The reboots are used up: the command deletes the claim. *)
EscalateToReplacement ==
    /\ repair.pc = "idle" /\ nseen.exists /\ ~Tolerated(seen) /\ history >= rebootsBeforeReplacement
    /\ ~RebootInProgress(seen) /\ ~seen.deleting /\ ~claim.deleting
    /\ Written("queue", [claim EXCEPT !.deleting = TRUE])
    /\ UNCHANGED <<seen, node, nseen, pods, machine, rec, life, repair, started, history, past, env>>

-----------------------------------------------------------------------------
(* Initialization.Reconcile, and the status patch of nodeclaim.lifecycle. *)

InitializationReads ==
    /\ life.pc = "idle" /\ ~seen.deleting
    /\ seen.init # "True" /\ ~RebootInProgress(seen)
    /\ \/ /\ nseen.exists /\ nseen.ready
          /\ life' = [pc |-> IF nseen.label THEN "patch" ELSE "label",
                      c |-> [WithConditions(NoClaim, seen) EXCEPT !.init = "True", !.initAge = 0]]
       \/ /\ ~(nseen.exists /\ nseen.ready) /\ seen.init # "NotReady"
          /\ life' = [pc |-> "patch", c |-> [WithConditions(NoClaim, seen) EXCEPT !.init = "NotReady"]]
    /\ UNCHANGED <<claim, seen, stale, node, nseen, pods, machine, rec, repair, started, history, past, env>>

InitializationLabels ==
    /\ life.pc = "label"
    /\ IF node.exists THEN node' = [node EXCEPT !.label = TRUE] /\ life' = [life EXCEPT !.pc = "patch"]
       ELSE life' = IdleLife /\ UNCHANGED node
    /\ UNCHANGED <<claim, seen, stale, nseen, pods, machine, rec, repair, started, history, past, env>>

(* No lock: a reboot committed since the read is lost. *)
LifecyclePatches ==
    /\ life.pc = "patch"
    /\ Written("lifecycle", WithConditions(claim, life.c))
    /\ past' = [past EXCEPT !.lost = @ \/ RebootInProgress(claim)]
    /\ life' = IdleLife
    /\ UNCHANGED <<seen, node, nseen, pods, machine, rec, repair, started, history, env>>

-----------------------------------------------------------------------------
(* The machine, the pods, the user, the process. *)

(* A machine takes longer to restart than the caches to catch up and a       *)
(* reconcile that read them before to return.                                *)
Boot ==
    /\ machine.due /\ "cache" \notin stale /\ nseen = node /\ rec.pc = "idle"
    /\ machine' = [machine EXCEPT !.due = FALSE]
    /\ \E r \in BOOLEAN : node' = [node EXCEPT !.boot = @ + 1, !.ready = r]
    /\ UNCHANGED <<claim, seen, stale, nseen, pods, rec, life, repair, started, history, past, env>>

NodeReady ==
    /\ node.exists /\ ~node.ready
    /\ node' = [node EXCEPT !.ready = TRUE]
    /\ UNCHANGED <<claim, seen, stale, nseen, pods, machine, rec, life, repair, started, history, past, env>>

NodeVanishes ==
    /\ env.vanish > 0 /\ node.exists /\ ~node.ready /\ machine.accepted # {}
    /\ node' = [node EXCEPT !.exists = FALSE, !.taint = FALSE, !.label = FALSE] /\ pods' = FALSE
    /\ env' = [env EXCEPT !.vanish = @ - 1]
    /\ UNCHANGED <<claim, seen, stale, nseen, machine, rec, life, repair, started, history, past>>

NodeReturns ==
    /\ ~node.exists /\ ~machine.due
    /\ node' = [node EXCEPT !.exists = TRUE, !.ready = TRUE]
    /\ past' = [past EXCEPT !.rejoined = TRUE]
    /\ UNCHANGED <<claim, seen, stale, nseen, pods, machine, rec, life, repair, started, history, env>>

PodBinds ==
    /\ env.pods /\ node.exists /\ node.ready /\ ~pods
    /\ ~node.taint \/ (env.late /\ node.fenceAge < minDrainTime)
    /\ pods' = TRUE
    /\ UNCHANGED <<claim, seen, stale, node, nseen, machine, rec, life, repair, started, history, past, env>>

PodsLeave ==
    /\ pods
    /\ pods' = FALSE
    /\ UNCHANGED <<claim, seen, stale, node, nseen, machine, rec, life, repair, started, history, past, env>>

(* A user overwrites the drain bound with one that does not parse. *)
EditDrainBound ==
    /\ env.edits > 0 /\ RebootInProgress(claim)
    /\ env' = [env EXCEPT !.edits = @ - 1]
    /\ Written("user", [claim EXCEPT !.tgp = "invalid"])
    /\ UNCHANGED <<seen, node, nseen, pods, machine, rec, life, repair, started, history, past>>

Restart ==
    /\ env.restarts > 0
    /\ env' = [env EXCEPT !.restarts = @ - 1]
    /\ rec' = IdleRec /\ life' = IdleLife /\ repair' = IdlePass
    /\ started' = None /\ history' = 0
    /\ seen' = claim /\ nseen' = node /\ stale' = {}
    /\ UNCHANGED <<pods, claim, node, machine, past>>

(* Ages that no deadline reads are left at 0.  A tick is long against a     *)
(* reconcile: the controllers compare times when they start.                 *)
Aged(c) == [c EXCEPT !.age = IF RebootInProgress(c) \/ Tolerated(c) THEN Later(@) ELSE @,
                     !.initAge = IF c.init # "True" THEN Later(@) ELSE @, !.issued = Later(@)]
AgedNode(n) == [n EXCEPT !.fenceAge = IF env.late /\ n.taint THEN Later(@) ELSE @]

Tick ==
    /\ rec.pc = "idle" /\ life.pc = "idle" /\ repair.pc = "idle"
    /\ claim' = Aged(claim) /\ seen' = Aged(seen)
    /\ node' = AgedNode(node) /\ nseen' = AgedNode(nseen)
    /\ started' = Later(started)
    /\ UNCHANGED <<stale, pods, machine, rec, life, repair, history, past, env>>

-----------------------------------------------------------------------------
Init ==
    /\ env \in Scenarios
    /\ claim = [NoClaim EXCEPT !.init = env.init] /\ seen = claim /\ stale = {}
    /\ node = [exists |-> TRUE, taint |-> FALSE, fenceAge |-> 0, label |-> (env.init = "True"), boot |-> 1,
               ready |-> (env.init = "True")]
    /\ pods = env.pods
    /\ nseen = node
    /\ machine = [accepted |-> {}, due |-> FALSE, refuses |-> FALSE]
    /\ rec = IdleRec /\ life = IdleLife /\ repair = IdlePass
    /\ started = None /\ history = 0
    /\ past = [calls |-> {}, commits |-> 0, boot |-> 0, lost |-> FALSE, lagged |-> FALSE,
               rejoined |-> FALSE]

Reconcile ==
    \/ ReconcileReads \/ ReconcileDeleting
    \/ ensureRebootTaint \/ drain \/ recordIssuingState \/ issueReboot
    \/ RecordIssuedAt \/ transitionToIssued \/ removeInitializedLabel
    \/ LiftFence \/ ClearEpisode \/ setTerminal
    \/ FailureLiftsFence \/ TightenTermination \/ FailureDeletes
Repair == RepairReads \/ CommitDrainBound \/ commitReboot \/ EscalateToReplacement
Lifecycle == InitializationReads \/ InitializationLabels \/ LifecyclePatches
Environment ==
    \/ Boot \/ NodeReady \/ NodeVanishes \/ NodeReturns \/ PodBinds \/ PodsLeave
    \/ EditDrainBound \/ Restart

Next == Reconcile \/ Repair \/ Lifecycle \/ Environment \/ ReconcileFails \/ DeliverClaim \/ DeliverNode \/ Tick

Spec == Init /\ [][Next]_vars

(* The workqueues keep calling the controllers, the watches deliver, a       *)
(* repair pass that was begun goes on, time passes between reconciles.       *)
(* Nothing is asked of the machine, the pods and the start of a pass.        *)
FairSpec ==
    /\ Spec
    /\ WF_vars(Reconcile) /\ WF_vars(Lifecycle) /\ WF_vars(CommitDrainBound \/ commitReboot)
    /\ WF_vars(DeliverClaim) /\ WF_vars(DeliverNode) /\ SF_vars(Tick)

-----------------------------------------------------------------------------
(* The objects, the copies and the process-local records keep their types.   *)
TypeOK ==
    /\ claim \in Claims /\ seen \in Claims /\ stale \subseteq Holders
    /\ node \in Nodes /\ nseen \in Nodes /\ pods \in BOOLEAN
    /\ machine \in [accepted : SUBSET Operations, due : BOOLEAN, refuses : BOOLEAN]
    /\ rec \in Reconciles /\ life \in [pc : {"idle", "label", "patch"}, c : Claims]
    /\ repair \in [pc : {"idle", "bound", "commit"}, tgp : Bounds]
    /\ started \in Ages \cup {None} /\ history \in 0..rebootsBeforeReplacement
    /\ past \in [calls : SUBSET Operations, commits : Nat, boot : Nat, lost : BOOLEAN, lagged : BOOLEAN,
                 rejoined : BOOLEAN]
    /\ env \in Environments

(* The retries of one request, across restarts and stale reads, call the     *)
(* provider with one operation ID: the machine is not rebooted twice for it, *)
(* unless the status patch of nodeclaim.lifecycle erased a request, or a     *)
(* boot ID was recorded from a copy of the Node older than its last boot     *)
(* (reboot/controller.go recordIssuingState, rebootOperationID).             *)
OneOperationPerRequest == \A a, b \in past.calls : a.ep = b.ep => a = b \/ past.lost \/ past.lagged

CallsAfterDrain ==
    \A o \in past'.calls \ past.calls :
        \/ past.lost
        \/ \E q \in past.calls : q.ep = o.ep
        \/ ~pods
        \/ env.tgp = "zero"
        \/ env.tgp = "some" /\ rec.c.age >= gracePeriod

EndsAfterReboot ==
    \/ rec.pc = "lift" /\ node.taint /\ ~node'.taint
    \/ claim'.phase = "Succeeded" /\ claim.phase # "Succeeded"
    => past'.lost \/ (node.boot > past.boot /\ ~machine.due)

(* The first provider call of a request comes after its drain: no pod that   *)
(* the drain waits for is on the Node, unless the bound has passed or is 0.  *)
(* And reconcileIssued lifts the fence, and a reboot is reported as          *)
(* succeeded, only after the machine carried out the reboot it was asked     *)
(* for: no pod is bound to a Node about to go down                           *)
(* (reboot/controller.go:211-233).                                           *)
PodsSpared == [][CallsAfterDrain /\ EndsAfterReboot]_vars

(* A committed reboot ends: it succeeds, fails or the claim is deleted,      *)
(* whatever the machine does; only a drain without bound may hold it up.     *)
(* Nor does the fence outlive the reboot: removeRebootTaint is reached on    *)
(* every path, except that of a request erased by nodeclaim.lifecycle, of a  *)
(* Node that vanished and came back, and of a drain bound broken by hand.    *)
RebootEnds ==
    /\ RebootInProgress(claim) ~> (~RebootInProgress(claim) \/ claim.deleting \/ (claim.tgp = "none" /\ pods))
    /\ node.taint ~> (~node.taint \/ claim.deleting \/ past.lost \/ past.rejoined
                         \/ claim.tgp = "invalid" \/ (claim.tgp = "none" /\ pods))

(* A request ends through setTerminal only: no other write of the claim      *)
(* makes the Rebooting condition False or removes it.  Refuted: the status   *)
(* patch of nodeclaim.lifecycle does.                                        *)
RequestKept == [][RebootInProgress(claim) /\ ~RebootInProgress(claim') => rec.pc = "terminal"]_vars

(* A Node that is back from a reboot and Ready is initialized again, and the *)
(* label agrees with the condition.  Refuted: nodeclaim.lifecycle may read a *)
(* Node from before the reboot that still has the label.                     *)
Reinitialized ==
    claim.phase = "Succeeded" ~>
        ((claim.init = "True" /\ node.label) \/ ~node.ready \/ ~node.exists
            \/ RebootInProgress(claim) \/ claim.deleting)
=============================================================================
