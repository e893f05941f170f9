---------------------------- MODULE EvictionQueue ----------------------------
(***************************************************************************)
(* The drain of one Node: Terminator.Drain, called again and again by the  *)
(* node.termination and nodeclaim.reboot controllers, and the eviction     *)
(* queue it fills.  Queue items are keyed by name and UID, the workqueue   *)
(* behind the queue by name only; a reconcile reads the item under the     *)
(* lock, then calls the API, then takes the lock again to complete.        *)
(*                                                                         *)
(* A pod's answer to an eviction (its budget allows it or not) is free     *)
(* each time.  The termination time of the claim can only be tightened.    *)
(***************************************************************************)
EXTENDS Naturals, FiniteSets

CONSTANTS
    Names,       \* pod names
    Tier,        \* Names -> 0..3, the position of the pod in groupPodsByPriority
    Grace,       \* Names -> Nat \ {0}, terminationGracePeriodSeconds
    MaxTime,     \* the times are 0..MaxTime
    MaxUid,      \* the UIDs of a name are 1..MaxUid
    Scenarios    \* which termination times and drain bounds may be set, the time at which
                 \* the clock stops, how many pods are replaced, how many API calls fail

Never == 1000000       \* a nil deadline, "+infinity"

Environments == [bounds : SUBSET (0..MaxTime), time : 0..MaxTime, replacements : Nat, errors : Nat]

ASSUME EvictionAssumption ==
    /\ Tier \in [Names -> 0..3] /\ Grace \in [Names -> Nat \ {0}]
    /\ MaxTime \in 0..(Never - 1) /\ MaxUid \in Nat \ {0}
    /\ Scenarios \subseteq Environments

VARIABLES
    pods,    \* the pod of each name on the API server
    node,    \* the Node and what drains it
    items,   \* Queue.items
    wq,      \* names in the workqueue, delayed requeues included
    rec,     \* the running reconcile of each name
    now,
    env      \* the scenario, with what is left of its bounds

vars == <<pods, node, items, wq, rec, now, env>>

Uids  == 1..MaxUid
Times == 0..MaxTime
Deadlines == Times \cup {Never}

PodObjs == [uid : Uids, phase : {"running", "terminating", "terminal", "gone"}, dts : Nat,
            here : BOOLEAN, dnd : BOOLEAN]
Items == [in : BOOLEAN, deadline : Deadlines, timeout : BOOLEAN]
NoItem == [in |-> FALSE, deadline |-> Never, timeout |-> FALSE]
NewItem(d, t) == [in |-> TRUE, deadline |-> d, timeout |-> t]
Recs == [pc : {"idle", "evict", "delete", "complete"}, uid : Uids, deadline : Deadlines]
NoRec == [pc |-> "idle", uid |-> 1, deadline |-> Never]

(* exists: the Node; deleting: node.termination drains it until term;        *)
(* reboot: nodeclaim.reboot drains it until rebootBy.                        *)
Nodes == [exists : BOOLEAN, deleting : BOOLEAN, term : Deadlines, reboot : BOOLEAN, rebootBy : Deadlines]

Daemon(n) == Tier[n] \in {1, 3}
IsTerminating(p) == p.phase = "terminating"
IsActive(p) == p.phase = "running"
IsDoNotDisruptActive(p) == p.dnd       \* until the annotation goes or its duration has passed
IsStuckTerminating(p) == IsTerminating(p) /\ now > p.dts + 1
IsWaitingEviction(p) == p.here /\ p.phase \in {"running", "terminating"} /\ ~IsStuckTerminating(p)

(* The pod's grace period would extend past deadline d. *)
needsDeleteByDeadline(n, p, d) ==
    /\ d # Never
    /\ IF IsTerminating(p) THEN p.dts > d ELSE now + Grace[n] > d

-----------------------------------------------------------------------------
(* Queue.add *)

earlier(a, b) == IF a < b THEN a ELSE b

KeepFirst(old, new) == IF ~old.in THEN new ELSE old

merge(old, new) ==
    CASE ~old.in                     -> new
      [] old.in /\ old.timeout # new.timeout -> IF new.timeout THEN old ELSE new
      [] OTHER                       -> [new EXCEPT !.deadline = earlier(old.deadline, new.deadline)]

(* Adds the current pods of the names in D with item d and of those in G     *)
(* with item g; only a pod that was not enqueued is signalled.               *)
Add(D, d, G, g) ==
    LET it(n) == items[n][pods[n].uid]
        item(n) == IF n \in D THEN merge(it(n), d) ELSE merge(it(n), g)
    IN  /\ items' = [n \in Names |-> IF n \in D \cup G
                                     THEN [items[n] EXCEPT ![pods[n].uid] = item(n)] ELSE items[n]]
        /\ wq' = wq \cup {n \in D \cup G : ~it(n).in}

-----------------------------------------------------------------------------
(* Terminator.Drain *)

AllTiers(P) == P

(* The first tier of groupPodsByPriority that has a pod. *)
FirstTier(P) == {n \in P : \A m \in P : Tier[n] <= Tier[m]}

Drain(deadline, leaveResidualPods, skipDaemonSets) ==
    LET waiting  == {n \in Names : IsWaitingEviction(pods[n]) /\ (skipDaemonSets => ~Daemon(n))}
        eligible == {n \in waiting : ~leaveResidualPods /\ needsDeleteByDeadline(n, pods[n], deadline)}
        graceful == waiting \ eligible
        timeout  == leaveResidualPods /\ deadline # Never
    IN  /\ Add(eligible, NewItem(deadline, FALSE), FirstTier(graceful), NewItem(deadline, timeout))
        /\ UNCHANGED <<pods, node, rec, now, env>>

TerminationDrain == node.exists /\ node.deleting /\ Drain(node.term, FALSE, FALSE)

(* The reboot controller leaves a deleting claim to termination. *)
RebootDrain == node.exists /\ node.reboot /\ ~node.deleting /\ Drain(node.rebootBy, TRUE, TRUE)

-----------------------------------------------------------------------------
(* Queue.Reconcile *)

Done(n) == rec' = [rec EXCEPT ![n] = NoRec]
Goto(n, pc) == rec' = [rec EXCEPT ![n].pc = pc]

(* A pod that is not found never reaches the reconciler. *)
QueueRead(n) ==
    LET p == pods[n]
        i == items[n][p.uid]
        Start(pc) == /\ rec' = [rec EXCEPT ![n] = [pc |-> pc, uid |-> p.uid, deadline |-> i.deadline]]
                     /\ wq' = wq \ {n}
    IN  /\ n \in wq /\ rec[n].pc = "idle"
        /\ CASE p.phase = "gone" \/ ~i.in -> wq' = wq \ {n} /\ UNCHANGED rec
             [] p.phase # "gone" /\ i.in /\ i.timeout /\ now > i.deadline -> Start("complete")
             [] p.phase # "gone" /\ i.in /\ ~i.timeout /\ needsDeleteByDeadline(n, p, i.deadline) -> Start("delete")
             [] OTHER -> \/ ~IsActive(p) /\ Start("complete")
                         \/ IsActive(p) /\ IsDoNotDisruptActive(p) /\ UNCHANGED <<rec, wq>>
                         \/ IsActive(p) /\ ~IsDoNotDisruptActive(p) /\ Start("evict")
        /\ UNCHANGED <<pods, node, items, now, env>>

(* The pod read by the reconcile is still the pod of its name. *)
Same(n) == pods[n].phase # "gone" /\ pods[n].uid = rec[n].uid

(* A graceful deletion that is already under way is left as it is. *)
Evict(n) ==
    /\ rec[n].pc = "evict"
    /\ \/ /\ Same(n)
          /\ pods' = IF IsActive(pods[n])
                     THEN [pods EXCEPT ![n].phase = "terminating", ![n].dts = now + Grace[n]] ELSE pods
          /\ Goto(n, "complete") /\ UNCHANGED wq
       \/ ~Same(n) /\ Goto(n, "complete") /\ UNCHANGED <<pods, wq>>
    /\ UNCHANGED <<node, items, now, env>>

BlockedIsDropped(n) ==
    /\ rec[n].pc = "evict" /\ Same(n) /\ IsActive(pods[n])
    /\ Done(n)
    /\ UNCHANGED <<pods, node, items, wq, now, env>>

(* 429: a budget blocks the eviction. *)
EvictBlocked(n) ==
    /\ rec[n].pc = "evict" /\ Same(n) /\ IsActive(pods[n])
    /\ Done(n)
    /\ wq' = IF pods[n].here /\ ~node.exists THEN wq ELSE wq \cup {n}
    /\ UNCHANGED <<pods, node, items, now, env>>

NoMinimum(n) == rec[n].deadline

(* The grace period of the delete, clamped to the deadline and to one second. *)
DeletedBy(n) == IF rec[n].deadline > now + 1 THEN rec[n].deadline ELSE now + 1

deleteByDeadline(n) ==
    /\ rec[n].pc = "delete"
    /\ \/ /\ Same(n)
          /\ pods' = IF IsTerminating(pods[n]) /\ pods[n].dts <= DeletedBy(n) THEN pods
                     ELSE IF pods[n].phase = "terminal" THEN [pods EXCEPT ![n].phase = "gone"]
                     ELSE [pods EXCEPT ![n].phase = "terminating", ![n].dts = DeletedBy(n)]
          /\ Goto(n, "complete") /\ UNCHANGED wq
       \/ pods[n].phase = "gone" /\ Goto(n, "complete") /\ UNCHANGED <<pods, wq>>
       \/ pods[n].phase # "gone" /\ ~Same(n) /\ Done(n) /\ wq' = wq \cup {n} /\ UNCHANGED pods
    /\ UNCHANGED <<node, items, now, env>>

QueueFails(n) ==
    /\ rec[n].pc \in {"evict", "delete"} /\ env.errors > 0
    /\ env' = [env EXCEPT !.errors = @ - 1]
    /\ Done(n) /\ wq' = wq \cup {n}
    /\ UNCHANGED <<pods, node, items, now>>

complete(n) ==
    /\ rec[n].pc = "complete"
    /\ items' = [items EXCEPT ![n][rec[n].uid] = NoItem]
    /\ Done(n)
    /\ UNCHANGED <<pods, node, wq, now, env>>

-----------------------------------------------------------------------------
(* The claim and the reboot, as far as the drain sees them *)

DeleteNode ==
    /\ node.exists /\ ~node.deleting
    /\ node' = [node EXCEPT !.deleting = TRUE]
    /\ UNCHANGED <<pods, items, wq, rec, now, env>>

(* finalize sets the annotation, TightenTerminationTimestampAnnotation only  *)
(* replaces it by an earlier time.                                           *)
TightenTerminationTime(d) ==
    /\ node.exists /\ d < node.term
    /\ node' = [node EXCEPT !.term = d]
    /\ UNCHANGED <<pods, items, wq, rec, now, env>>

StartReboot(d) ==
    /\ node.exists /\ ~node.reboot /\ ~node.deleting
    /\ node' = [node EXCEPT !.reboot = TRUE, !.rebootBy = d]
    /\ UNCHANGED <<pods, items, wq, rec, now, env>>

RemoveNode ==
    /\ node.exists /\ node.deleting
    /\ \A n \in Names : ~IsWaitingEviction(pods[n])
    /\ node' = [node EXCEPT !.exists = FALSE]
    /\ UNCHANGED <<pods, items, wq, rec, now, env>>

(* Kubelets and workload controllers *)

SetPod(n, p) == pods' = [pods EXCEPT ![n] = p] /\ UNCHANGED <<node, items, wq, rec, now, env>>

PodExits(n) == /\ pods[n].phase \in {"terminating", "terminal"}
               /\ SetPod(n, [pods[n] EXCEPT !.phase = "gone"])
PodFinishes(n) == pods[n].phase = "running" /\ SetPod(n, [pods[n] EXCEPT !.phase = "terminal"])
ClearDoNotDisrupt(n) == pods[n].dnd /\ SetPod(n, [pods[n] EXCEPT !.dnd = FALSE])

(* A pod of the same name is created, on another Node or on this one by a    *)
(* scheduler that has not seen the taint.                                    *)
PodReplaced(n) ==
    /\ pods[n].phase = "gone" /\ pods[n].uid < MaxUid /\ env.replacements > 0
    /\ \E h \in {b \in BOOLEAN : b => node.exists} :
          pods' = [pods EXCEPT ![n] = [uid |-> pods[n].uid + 1, phase |-> "running", dts |-> 0,
                                       here |-> h, dnd |-> FALSE]]
    /\ env' = [env EXCEPT !.replacements = @ - 1]
    /\ UNCHANGED <<node, items, wq, rec, now>>

Tick == now < env.time /\ now' = now + 1 /\ UNCHANGED <<pods, node, items, wq, rec, env>>

Init ==
    /\ pods \in [Names -> {[uid |-> 1, phase |-> "running", dts |-> 0, here |-> TRUE, dnd |-> d] : d \in BOOLEAN}]
    /\ node = [exists |-> TRUE, deleting |-> FALSE, term |-> Never, reboot |-> FALSE, rebootBy |-> Never]
    /\ items = [n \in Names |-> [u \in Uids |-> NoItem]]
    /\ wq = {} /\ rec = [n \in Names |-> NoRec]
    /\ now = 0 /\ env \in Scenarios

QueueStep(n) == QueueRead(n) \/ Evict(n) \/ EvictBlocked(n) \/ deleteByDeadline(n) \/ complete(n)
PodStep(n) == PodExits(n) \/ PodFinishes(n) \/ ClearDoNotDisrupt(n) \/ PodReplaced(n)

Next ==
    \/ TerminationDrain \/ RebootDrain \/ DeleteNode \/ RemoveNode \/ Tick
    \/ \E d \in env.bounds : TightenTerminationTime(d)
    \/ \E d \in env.bounds \cup {Never} : StartReboot(d)
    \/ \E n \in Names : QueueStep(n) \/ QueueFails(n) \/ PodStep(n)

Spec == Init /\ [][Next]_vars

(* node.termination requeues every second, the workqueue is served, time     *)
(* passes, and kubelets end terminating pods (one they do not end is stuck   *)
(* after a minute and not waited for).  Nothing is asked of budgets and      *)
(* annotations.                                                              *)
Fairness ==
    /\ WF_vars(TerminationDrain) /\ WF_vars(Tick)
    /\ \A n \in Names : WF_vars(QueueStep(n)) /\ WF_vars(IsTerminating(pods[n]) /\ PodExits(n))

FairSpec == Spec /\ Fairness

-----------------------------------------------------------------------------
(* Properties *)

(* Pods, items, reconciles and the Node have the shape the code gives them. *)
TypeOK ==
    /\ pods \in [Names -> PodObjs] /\ node \in Nodes
    /\ items \in [Names -> [Uids -> Items]]
    /\ wq \subseteq Names /\ now \in Times
    /\ rec \in [Names -> Recs] /\ env \in Environments

(* The pod of n cannot run for its grace period until the termination time. *)
TooLate(n) == node.term # Never /\ now + Grace[n] > node.term

KeepsGrace ==
    \A n \in Names :
        LET p == pods[n]
            full == IF IsTerminating(p) THEN p.dts ELSE now + Grace[n]
        IN  pods'[n].uid = p.uid /\ pods'[n].phase = "terminating" /\ pods'[n].dts < full
              => node.term # Never /\ full > node.term /\ pods'[n].dts > now

FollowsTiers ==
    \A n, m \in Names :
        /\ node.deleting /\ ~node.reboot /\ Tier[m] < Tier[n] /\ pods[m].uid = 1
        /\ IsActive(pods[n]) /\ pods'[n].phase = "terminating" /\ ~TooLate(n)
        => ~IsActive(pods[m]) \/ TooLate(m)

(* A pod gets less than its own grace period only when that would outlive    *)
(* the termination time of the claim, and it is never removed without grace  *)
(* (eviction.go:251-269, 331-337): a reboot shortens nothing.  And a tier    *)
(* starts to be evicted gracefully only when the pods of earlier tiers that  *)
(* were there from the start are no longer active, or are to be deleted for  *)
(* the termination time: Drain adds those and one graceful tier at a time    *)
(* (terminator.go:143-157).                                                  *)
EvictedInTurn == [][KeepsGrace /\ FollowsTiers]_vars

(* With a termination time the drain ends, whatever budgets and         *)
(* annotations say (termination/controller.go:194-196).                          *)
DrainCompletes ==
    (node.deleting /\ node.term # Never) ~> (\A n \in Names : ~IsWaitingEviction(pods[n]))
=============================================================================
