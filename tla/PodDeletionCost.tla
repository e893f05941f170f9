--------------------------- MODULE PodDeletionCost ---------------------------
(***************************************************************************)
(* pkg/controllers/pod/deletioncost: the controller ranks the nodes in the *)
(* order Karpenter would disrupt them and asks, through a queue, for the   *)
(* pod-deletion-cost annotation that makes ReplicaSets scale down the same *)
(* way; the queue's workers write it.                                      *)
(***************************************************************************)
EXTENDS Integers, FiniteSets, FiniteSetsExt, Functions, Sequences, SequencesExt, TLC

CONSTANTS
    Fleets,             \* [nodes : name -> Node, pools : name -> Pool, pods : name -> Pod,
                        \* changes: bound on disturbances]
    Name,               \* the place of a node's name in the alphabet
    maxNodesPerCycle,
    MinInt32,           \* the rank of a node that goes away
    Unset               \* no annotation; as a desired value: remove it

(* Node: [pool, price, managed, going, blocked, pinned, priced, drifted]   *)
(* Pool: [static, consolidates, drift, underutilized], the last two the    *)
(* disruptions its budgets allow.  Pod: [node, replica, cost, value].      *)
VARIABLES
    nodes, nodePools,
    pods,           \* existing pod -> Pod
    changed,        \* ConsolidationState differs from lastConsolidationState
    pass,           \* the Reconcile under way
    items,          \* Queue.items: pod -> desired value
    due,            \* pods in the workqueue
    workers,        \* pod -> what the worker on it has read
    changes         \* disturbances left

vars == <<nodes, nodePools, pods, changed, pass, items, due, workers, changes>>

Idle == [phase |-> "idle", plan |-> <<>>, written |-> 0, again |-> FALSE]
Without(f, x) == Restrict(f, DOMAIN f \ {x})

(***************************************************************************)
(* RankNodes                                                               *)
(***************************************************************************)
On(n) == {p \in DOMAIN pods : pods[p].node = n}
RescheduleDisruptionCost(n) == 1 + MapThenSumSet(LAMBDA p : Max({0, pods[p].cost}), On(n))

MoreSavings(a, b) ==
    LET ra == nodes[a].price * RescheduleDisruptionCost(b)
        rb == nodes[b].price * RescheduleDisruptionCost(a)
    IN  ra > rb \/ (ra = rb /\ Name[a] < Name[b])

sortBySavingsRatio(S) == SetToSortSeq(S, MoreSavings)

PoolOf(n) == nodePools[nodes[n].pool]

classifyNode(n) ==
    CASE nodes[n].going -> "disrupted"
      [] nodes[n].blocked \/ nodes[n].pinned \/ ~nodes[n].priced -> "cleanup"
      [] nodes[n].drifted /\ ~PoolOf(n).static -> "drifted"
      [] ~PoolOf(n).consolidates -> "cleanup"
      [] OTHER -> "normal"

Class(s, c) == SelectSeq(s, LAMBDA n : classifyNode(n) = c)

NodePoolBudgetMap(s, allowed) ==
    [p \in DOMAIN nodePools |-> Max({0, allowed[p] - Cardinality({n \in ToSet(s) : nodes[n].pool = p /\ nodes[n].going})})]

IgnoresBudget(s, budget) == [bounded |-> s, overflow |-> <<>>]

\* The first of each NodePool, as many as its budget allows, in the order given.
applyPerNodePoolBudget(s, budget) ==
    LET within == {i \in DOMAIN s : Cardinality({j \in 1..(i - 1) : nodes[s[j]].pool = nodes[s[i]].pool})
                                    < budget[nodes[s[i]].pool]}
        at(I) == [k \in 1..Cardinality(I) |-> s[SetToSortSeq(I, <)[k]]]
    IN  [bounded |-> at(within), overflow |-> at(DOMAIN s \ within)]

RankForBC(i, n) == i - n

\* What is asked of each node, in the order it is asked.
RankNodes ==
    LET all == sortBySavingsRatio({n \in DOMAIN nodes : nodes[n].managed})
        drifted == applyPerNodePoolBudget(Class(all, "drifted"),
                        NodePoolBudgetMap(all, [p \in DOMAIN nodePools |-> nodePools[p].drift]))
        normal == applyPerNodePoolBudget(Class(all, "normal"),
                        NodePoolBudgetMap(all, [p \in DOMAIN nodePools |-> nodePools[p].underutilized]))
        groupA == Class(all, "disrupted")
        groupBC == drifted.bounded \o normal.bounded
        groupD == Class(all, "cleanup") \o drifted.overflow \o normal.overflow
    IN  [i \in DOMAIN groupA |-> [node |-> groupA[i], want |-> MinInt32, capped |-> FALSE]]
        \o [i \in DOMAIN groupBC |-> [node |-> groupBC[i], want |-> RankForBC(i - 1, Len(groupBC)), capped |-> TRUE]]
        \o [i \in DOMAIN groupD |-> [node |-> groupD[i], want |-> Unset, capped |-> TRUE]]

(***************************************************************************)
(* The controller.  It reads the state of the cluster first and remembers  *)
(* it only when everything is queued.                                      *)
(***************************************************************************)
Ranks ==
    /\ pass.phase = "idle" /\ changed /\ DOMAIN nodes # {}
    /\ pass' = [Idle EXCEPT !.phase = "enqueueing", !.plan = RankNodes]
    /\ UNCHANGED <<nodes, nodePools, pods, changed, items, due, workers, changes>>

\* Listing NodePools, instance types or disruption budgets fails.
RankingFails ==
    /\ pass.phase = "idle" /\ changed /\ changes > 0
    /\ changes' = changes - 1
    /\ UNCHANGED <<nodes, nodePools, pods, changed, pass, items, due, workers>>

Add(S, want) ==
    /\ items' = [p \in S |-> want] @@ items
    /\ due' = due \cup (S \ DOMAIN items)

CountsEveryNode(n, want) == \E p \in On(n) : pods[p].replica
nodeMutatesAnyPod(n, want) == \E p \in On(n) : pods[p].replica /\ pods[p].value # want

tryEnqueueNode ==
    /\ pass.phase = "enqueueing" /\ pass.plan # <<>>
    /\ LET h == Head(pass.plan)
           room == ~h.capped \/ pass.written < maxNodesPerCycle
           enqueued == room /\ nodeMutatesAnyPod(h.node, h.want)
       IN  /\ IF enqueued THEN Add({p \in On(h.node) : pods[p].replica}, h.want) ELSE UNCHANGED <<items, due>>
           /\ pass' = [pass EXCEPT !.plan = Tail(@), !.written = IF enqueued /\ h.capped THEN @ + 1 ELSE @]
    /\ UNCHANGED <<nodes, nodePools, pods, changed, workers, changes>>

Recorded ==
    /\ pass.phase = "enqueueing" /\ pass.plan = <<>>
    /\ changed' = pass.again
    /\ pass' = Idle
    /\ UNCHANGED <<nodes, nodePools, pods, items, due, workers, changes>>

(***************************************************************************)
(* The queue: a worker reads the pod, then its item, and writes under the  *)
(* optimistic lock.  Only a failed call is tried again; a lost race, as a  *)
(* newer item that came meanwhile, waits for the next ranking.             *)
(***************************************************************************)
Works(p) ==
    /\ p \in due /\ p \notin DOMAIN workers
    /\ due' = due \ {p}
    /\ workers' = IF p \in DOMAIN pods /\ p \in DOMAIN items
                  THEN (p :> [want |-> items[p], value |-> pods[p].value, moved |-> FALSE]) @@ workers
                  ELSE workers
    /\ UNCHANGED <<nodes, nodePools, pods, changed, pass, items, changes>>

Lingers(p) == items' = items
complete(p) == items' = Without(items, p)

Writes(p) ==
    /\ p \in DOMAIN workers
    /\ workers' = Without(workers, p)
    /\ LET w == workers[p]
       IN  \/ /\ w.value = w.want \/ w.moved
              /\ complete(p) /\ UNCHANGED <<pods, due, changes>>
           \/ /\ w.value # w.want /\ ~w.moved
              /\ pods' = [pods EXCEPT ![p].value = w.want]
              /\ complete(p) /\ UNCHANGED <<due, changes>>
           \/ /\ w.value # w.want /\ changes > 0
              /\ due' = due \cup {p} /\ changes' = changes - 1
              /\ UNCHANGED <<pods, items>>
    /\ UNCHANGED <<nodes, nodePools, changed, pass>>

(***************************************************************************)
(* The cluster.  ConsolidationState moves when a change is noticed, and by *)
(* itself every five minutes.                                              *)
(***************************************************************************)
Moved(p) == workers' = IF p \in DOMAIN workers THEN [workers EXCEPT ![p].moved = TRUE] ELSE workers
MarkUnconsolidated == changed' = TRUE /\ pass' = [pass EXCEPT !.again = pass.phase # "idle"]

StateExpires ==
    /\ ~changed \/ (pass.phase # "idle" /\ ~pass.again)
    /\ MarkUnconsolidated
    /\ UNCHANGED <<nodes, nodePools, pods, items, due, workers, changes>>

Disturb == changes > 0 /\ changes' = changes - 1

NodeChanges(n) ==
    /\ Disturb
    /\ \/ ~nodes[n].going /\ nodes' = [nodes EXCEPT ![n].going = TRUE]
       \/ nodes' = [nodes EXCEPT ![n].blocked = ~@]
       \/ nodes' = [nodes EXCEPT ![n].drifted = ~@]
    /\ UNCHANGED <<nodePools, pods, changed, pass, items, due, workers>>

PodChanges(p) ==
    /\ Disturb /\ Moved(p)
    /\ \/ pods' = Without(pods, p)
       \/ \E v \in {Unset, 7} \ {pods[p].value} : pods' = [pods EXCEPT ![p].value = v]
    /\ UNCHANGED <<nodes, nodePools, changed, pass, items, due>>

InitFrom(F) == \E f \in F :
    /\ nodes = f.nodes /\ nodePools = f.pools /\ pods = f.pods
    /\ changed = TRUE /\ pass = Idle /\ items = <<>> /\ due = {} /\ workers = <<>> /\ changes = f.changes

Init == InitFrom(Fleets)
Reconcile == Ranks \/ tryEnqueueNode \/ Recorded

Next ==
    \/ Reconcile \/ RankingFails \/ StateExpires
    \/ \E p \in DOMAIN pods \cup DOMAIN items : Works(p) \/ Writes(p)
    \/ \E n \in DOMAIN nodes : NodeChanges(n)
    \/ \E p \in DOMAIN pods : PodChanges(p)

PlanMoves == pass'.plan # pass.plan

\* The singleton comes back every minute, workers run, and five minutes pass.
Fairness ==
    /\ []<><<PlanMoves>>_vars
    /\ \A p \in UNION {DOMAIN f.pods : f \in Fleets} : WF_vars(Works(p)) /\ WF_vars(Writes(p))

Spec == Init /\ [][Next]_vars /\ Fairness

--------------------------------------------------------------------------------
Ahead(a, b) ==
    LET of(n) == IF classifyNode(n) = "drifted" THEN 0 ELSE 1
    IN  of(a) < of(b) \/ (of(a) = of(b) /\ MoreSavings(a, b))

Ranked(n, c, budget(_)) ==
    LET same == {m \in DOMAIN nodes : nodes[m].managed /\ classifyNode(m) = c /\ nodes[m].pool = nodes[n].pool}
        away == {m \in DOMAIN nodes : nodes[m].managed /\ nodes[m].going /\ nodes[m].pool = nodes[n].pool}
    IN  n \in same /\ Cardinality({m \in same : MoreSavings(m, n)}) + Cardinality(away) < budget(nodePools[nodes[n].pool])

Chosen == {n \in DOMAIN nodes : Ranked(n, "drifted", LAMBDA p : p.drift) \/ Ranked(n, "normal", LAMBDA p : p.underutilized)}

Annotated ==
    \A p \in DOMAIN pods :
        LET n == pods[p].node
        IN  pods[p].replica /\ nodes[n].managed =>
                pods[p].value = IF nodes[n].going THEN MinInt32
                                ELSE IF n \in Chosen THEN -Cardinality({m \in Chosen : m = n \/ Ahead(n, m)})
                                ELSE Unset

(* Once the cluster is quiet, every ReplicaSet pod on a managed node carries *)
(* the annotation of its node: the lowest value on a node that goes away,    *)
(* values rising in the order of disruption on the nodes the budgets allow,  *)
(* none on the others - whatever writes raced, items were overtaken in the   *)
(* queue or nodes were left out of a capped pass before                      *)
(* (deletioncost/controller.go:81-134, queue.go:96-171).                     *)
AnnotationsSettle == <>[]Annotated
==============================================================================
