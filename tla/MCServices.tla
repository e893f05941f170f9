------------------------------- MODULE MCServices -------------------------------
(***************************************************************************)
(* Controllers and computations that run by themselves between two changes *)
(* of the cluster, on small instances: the registration health of a        *)
(* NodePool, one Solve of the scheduler, the consolidation loop, the       *)
(* device allocation of a Solve, the index of the devices in use, the cost *)
(* of a NodePool, the node overlays, the pod deletion costs, the           *)
(* conditions of NodeClaims and node repair.  A behaviour is one of the    *)
(* component in focus.  NodePoolHealth has its variables; those of the     *)
(* others share the u's, in the order in which their modules declare them. *)
(***************************************************************************)
EXTENDS NodePoolHealth, Requirements

CONSTANTS w1, w2, c1, c2, Unallocated, Deleted

VARIABLES focus, u1, u2, u3, u4, u5, u6, u7, u8, u9, u10, u11, u12, u13, u14, u15

repairing == <<u1, u2, u3, u4>>
ranking == <<u1, u2, u3, u4, u5, u6, u7, u8, u9>>
costs == <<u1, u2, u3, u4, u5, u6, u7, u8, u9, u10>>
conditions == <<u1, u2, u3, u4, u5, u6, u7, u8, u9, u10, u11>>
loop == <<u1, u2, u3, u4, u5, u6, u7, u8, u9, u10, u11, u12>>
u == <<u1, u2, u3, u4, u5, u6, u7, u8, u9, u10, u11, u12, u13, u14, u15>>

MCValues == {"z1", "z2", "h1", "h2", "h3", "h4", "n1", "n2", "on-demand", "spot", "reserved", "r1", "r2", "t1", "t2",
             "t3", "t9", "z3", "small", "medium", "large"}
MCAtoi == [v \in MCValues |-> None]
MCWellKnown == {"zone", "ct", "rid", "it"}
Classes == [ct \in {"reserved", "spot", "on-demand"} |-> ct]

S == INSTANCE MCScheduler WITH
        env <- u1, world <- u2, queue <- u3, lastLen <- u4, cur <- u5, forms <- u6, errors <- u7, topo <- u8,
        existing <- u9, claims <- u10, remaining <- u11, manager <- u12, minRelaxed <- u13, phase <- u14, timedOut <- u15,
        Scenarios <- {}, Zone <- "zone", CapacityType <- "ct", ReservationID <- "rid", Class <- Classes,
        Hostname <- "host", InstanceType <- "it", PreferNoSchedule <- {"soft"}, MaxInstanceTypes <- 2,
        NewHosts <- <<"h1", "h2", "h3", "h4">>

C == INSTANCE MCConsolidation WITH
        setup <- u1, types <- u2, nodes <- u3, pending <- u4, consolidated <- u5, unseen <- u6, job <- u7, running <- u8,
        last <- u9, missed <- u10, changes <- u11, timeouts <- u12,
        Setups <- {}, Zone <- "zone", CapacityType <- "ct", ReservationID <- "rid", Class <- Classes,
        MinInstanceTypesForSpotToSpotConsolidation <- 2, BalancedK <- 2, MaxChanges <- 1, MaxTimeouts <- 2, MaxNodes <- 6

A == INSTANCE MCDynamicResources WITH
        setup <- u1, tracker <- u2, poolCache <- u3, metadata <- u4, planned <- u5, queue <- u6, panicked <- u7,
        Setups <- {}, Hostnames <- <<"h1", "h2">>, AllocationResultsMaxSize <- 3

HeldFor(results, uids) ==
    [results |-> results, selector |-> <<>>, reserved |-> [i \in DOMAIN uids |-> [pod |-> TRUE, uid |-> uids[i]]]]
Card == [id |-> "card", consumed |-> <<>>]
Bandwidth(n) == [id |-> "link", consumed |-> [bw |-> n]]
ClaimStatuses ==
    {HeldFor(<<Card>>, <<"p1">>), HeldFor(<<Card, Bandwidth(1)>>, <<"p1", "p2">>), HeldFor(<<Bandwidth(2)>>, <<"p2">>),
     HeldFor(<<Bandwidth(1)>>, <<"p1">>), HeldFor(<<Card>>, <<>>), HeldFor(<<>>, <<"p1">>)}

T == INSTANCE DeviceAllocation WITH
        status <- u1, dirty <- u2, read <- u3, listed <- u4, hydration <- u5, claimMetadata <- u6, claimsPerDevice <- u7,
        allocatedDevices <- u8, events <- u9,
        Claims <- {c1, c2}, Statuses <- ClaimStatuses, MaxEvents <- 3

Tracked == {"c1", "c2"}
K == INSTANCE MCClusterCost WITH
        fleet <- u1, api <- u2, pools <- u3, price <- u4, npCostMap <- u5, nodeClaimMap <- u6, reads <- u7, missing <- u8,
        pricing <- u9, changes <- u10,
        NodeClaims <- Tracked, Pools <- {"p1", "p2"}, Keys <- {"k1"}, Fleets <- {}, Prices <- {1, 2},
        Unpriced <- None

O == INSTANCE MCNodeOverlays WITH
        catalog <- u1, overlays <- u2, pools <- u3, broken <- u4, store <- u5, pass <- u6, changes <- u7,
        Pools <- {"p1", "p2"}, Types <- {"t1", "t2"}, Price <- [t1 |-> [spot |-> 200, od |-> 400], t2 |-> [od |-> 600]],
        Capacity <- [t1 |-> [cpu |-> 4], t2 |-> [cpu |-> 8]],
        Rank <- [x |-> 1, y |-> 2, z |-> 3], Catalogs <- {}, MaxChanges <- 2, Unset <- None

P == INSTANCE MCPodDeletionCost WITH
        nodes <- u1, nodePools <- u2, pods <- u3, changed <- u4, pass <- u5, items <- u6, due <- u7, workers <- u8,
        changes <- u9,
        Fleets <- {}, Name <- [n1 |-> 1, n2 |-> 2, n3 |-> 3], maxNodesPerCycle <- 1,
        MinInt32 <- -1000, Unset <- None

Judged == {"x", "y"}
J == INSTANCE MCClaimConditions WITH
        nodePool <- u1, claims <- u2, found <- u3, old <- u4, withdrawn <- u5, replaced <- u6, decided <- u7, hashing <- u8,
        handled <- u9, since <- u10, changes <- u11,
        Claims <- Judged, Starts <- {}, Current <- "v3", Dedupe <- 1, Forever <- 3, Unset <- None

ASSUME ConditionsAssumption == J!WellFormed(J!MCStarts)

R == INSTANCE NodeRepair WITH
        setup <- u1, nodes <- u2, seen <- u3, changes <- u4,
        agingConstant <- 2, rebootHistoryWindow <- 4, rebootsBeforeReplacement <- 2, Oldest <- 5, Unset <- None

Policy(type, reasons, toleration, tgp, priority, action) ==
    [type |-> type, status |-> "False", reasons |-> reasons, toleration |-> toleration, tgp |-> tgp,
     priority |-> priority, action |-> action]
RepairPolicies ==
    <<Policy(1, {"net"}, 1, None, 50, "RebootNode"), Policy(2, {"disk", "io"}, 0, 3, 10, "RebootNode"),
      Policy(2, {"disk"}, 2, 1, 20, "ReplaceNode"), Policy(1, {}, 2, None, 10, "ReplaceNode")>>
Broken(type, reason, age) == [type |-> type, status |-> "False", reason |-> reason, age |-> age]
Sound == [pool |-> "a", conds |-> <<>>, created |-> 5, init |-> TRUE, state |-> "up", ended |-> None, reboots |-> <<>>,
          veto |-> FALSE, blocked |-> FALSE, tgp |-> None, bound |-> None, room |-> "fits", holdsOffered |-> FALSE, cost |-> 1]
Sick(conds) == [Sound EXCEPT !.conds = conds]
Repaired == [static |-> FALSE, budget |-> 1, surplus |-> FALSE, atLimit |-> FALSE, full |-> FALSE, refillable |-> TRUE]
Repairs(sick, sound, of, terminateFirst, changes) ==
    [policies |-> RepairPolicies, pools |-> [a |-> of], terminateFirst |-> terminateFirst, changes |-> changes,
     nodes |-> [n \in 1..(Len(sick) + sound) |-> IF n <= Len(sick) THEN sick[n] ELSE Sound],
     conditions |-> {<<>>, <<Broken(2, "disk", 0), Broken(1, "net", 0)>>, <<Broken(1, "io", 5)>>}]

\* Two of six Nodes; pods that block eviction; a veto, and a reservation to give back
\* first; a static NodePool at its limit.
RepairSetups ==
    {Repairs(<<Sick(<<Broken(1, "net", 0)>>), Sick(<<Broken(2, "io", 0), Broken(1, "other", 0)>>)>>, 4, Repaired, FALSE, 0),
     Repairs(<<[Sick(<<Broken(1, "net", 0)>>) EXCEPT !.blocked = TRUE, !.tgp = 2]>>, 0, Repaired, FALSE, 2),
     Repairs(<<[Sick(<<Broken(2, "io", 0)>>) EXCEPT !.veto = TRUE, !.blocked = TRUE, !.room = "credit"]>>, 1, Repaired, TRUE, 1),
     Repairs(<<[Sick(<<Broken(1, "kubelet", 0)>>) EXCEPT !.holdsOffered = TRUE]>>, 0,
             [Repaired EXCEPT !.static = TRUE, !.full = TRUE, !.atLimit = TRUE], TRUE, 1)}

--------------------------------------------------------------------------------
Unused13 == u13 = None /\ u14 = None /\ u15 = None
Unused12 == u12 = None /\ Unused13
Unused11 == u11 = None /\ Unused12
Unused10 == u10 = None /\ Unused11
Unused8 == u8 = None /\ u9 = None /\ Unused10
Unused5 == u5 = None /\ u6 = None /\ u7 = None /\ Unused8
Unused == u1 = None /\ u2 = None /\ u3 = None /\ u4 = None /\ Unused5

ServicesInit ==
    \/ focus = "health" /\ Init /\ Unused
    \/ /\ Init /\ env.failures = MaxFailures /\ env.edits = MaxEdits
       /\ \/ focus = "scheduler" /\ S!InitFrom(S!AllScenarios)
          \/ focus = "consolidation" /\ C!InitFrom(C!AllSetups) /\ Unused13
          \/ focus = "allocator" /\ A!InitFrom(A!MCSetups) /\ Unused8
          \/ focus = "tracker" /\ T!Init /\ Unused10
          \/ focus = "cost" /\ K!InitFrom(K!MCFleets) /\ Unused11
          \/ focus = "overlays" /\ O!InitFrom(O!MCCatalogs) /\ Unused8
          \/ focus = "deletioncost" /\ P!InitFrom(P!MCFleets) /\ Unused10
          \/ focus = "conditions" /\ J!InitFrom(J!MCStarts) /\ Unused12
          \/ focus = "repair" /\ R!InitFrom(RepairSetups) /\ Unused5

ServicesNext ==
    /\ UNCHANGED focus
    /\ \/ focus = "health" /\ Next /\ UNCHANGED u
       \/ /\ UNCHANGED vars
          /\ \/ focus = "scheduler" /\ S!Next
             \/ focus = "consolidation" /\ C!Next /\ UNCHANGED <<u13, u14, u15>>
             \/ focus = "allocator" /\ A!Next /\ UNCHANGED <<u8, u9, u10, u11, u12, u13, u14, u15>>
             \/ focus = "tracker" /\ T!Next /\ UNCHANGED <<u10, u11, u12, u13, u14, u15>>
             \/ focus = "cost" /\ K!Next /\ UNCHANGED <<u11, u12, u13, u14, u15>>
             \/ focus = "overlays" /\ O!Next /\ UNCHANGED <<u8, u9, u10, u11, u12, u13, u14, u15>>
             \/ focus = "deletioncost" /\ P!Next /\ UNCHANGED <<u10, u11, u12, u13, u14, u15>>
             \/ focus = "conditions" /\ J!ConditionsNext /\ UNCHANGED <<u12, u13, u14, u15>>
             \/ focus = "repair" /\ R!Next /\ UNCHANGED <<u5, u6, u7, u8, u9, u10, u11, u12, u13, u14, u15>>

\* Each component is as fair as its module says: the actions of Fairness there, when
\* it is in focus.
ServicesFairness ==
    \/ []<>(focus = "health") /\ Fairness
    \/ []<>(focus = "scheduler") /\ ([]<>(focus = "scheduler" /\ S!Done) \/ []<><<TRUE>>_u)
    \/ /\ []<>(focus = "consolidation")
       /\ []<><<TRUE>>_u7
       /\ []<>(focus = "consolidation" /\ C!NothingRuns) \/ []<><<TRUE>>_u8
       /\ WF_loop(focus = "consolidation" /\ C!Expire)
    \/ /\ []<>(focus = "cost")
       /\ \A c \in Tracked : WF_costs(focus = "cost" /\ K!ReconcileClaim(c))
       /\ \A p \in {"p1", "p2"} : WF_costs(focus = "cost" /\ K!DeleteNodePool(p))
       /\ WF_costs(focus = "cost" /\ K!Pricing)
    \/ []<>(focus = "overlays") /\ []<><<TRUE>>_u6
    \/ /\ []<>(focus = "deletioncost")
       /\ []<><<focus = "deletioncost" /\ P!PlanMoves>>_u
       /\ \A p \in {"x", "y", "z"} :
            WF_ranking(focus = "deletioncost" /\ P!Works(p)) /\ WF_ranking(focus = "deletioncost" /\ P!Writes(p))
    \/ /\ []<>(focus = "conditions")
       /\ \A c \in Judged : WF_conditions(focus = "conditions" /\ J!Decides(c)) /\ WF_conditions(focus = "conditions" /\ J!Patches(c))
       /\ WF_conditions(focus = "conditions" /\ J!HashReconcile)
       /\ WF_conditions(focus = "conditions" /\ J!Tick)
       /\ WF_conditions(focus = "conditions" /\ J!CacheExpires)
    \/ /\ []<>(focus = "repair")
       /\ WF_repairing(focus = "repair" /\ R!computeCommands)
       /\ WF_repairing(focus = "repair" /\ R!Tick)
       /\ WF_repairing(focus = "repair" /\ R!CommandsEnd)
       /\ WF_repairing(focus = "repair" /\ R!NodesReport)
    \/ []<>(focus \in {"allocator", "tracker"})

ServicesSpec == ServicesInit /\ [][ServicesNext]_<<focus, vars, u>> /\ ServicesFairness

--------------------------------------------------------------------------------
(***************************************************************************)
(* Properties: those of the components, for the behaviours they are in     *)
(* focus in.                                                               *)
(***************************************************************************)
\* The NodePool's condition becomes and stays True once NodeClaims only succeed.
HealthRecovers == <>[](focus = "health" => pool.cond = "True")

\* A NodeClaim Solve creates can be launched, whichever instance type is taken, and
\* reservations are never overcommitted and never leak.
LaunchPossible == focus = "scheduler" => S!LaunchPossible /\ S!ReservationsKept

\* Anti-affinity and spread hold wherever the planned NodeClaims end up.
TopologyKept == focus = "scheduler" => S!TopologyKept

\* Solve ends, as pods that fail are tried again only while others are placed, and
\* leaves every pod of the batch in exactly one place.
EveryPodAnswered == <>(focus = "scheduler" => S!Done /\ S!NoPodLost)

\* A replacement costs less than what it replaces, whatever is launched.
CheaperLaunch == focus = "consolidation" => C!CheaperLaunch

\* Passes cut short by the timeout leave no pool out twice in a row.
PoolsTakeTurns == focus = "consolidation" => C!PoolsTakeTurns

\* When a command starts, the pods of its candidates have room elsewhere.
RoomKept == [][focus = "consolidation" => C!StartedWithRoom]_u

\* A cluster left alone is not consolidated for ever, and no node that could be
\* consolidated is forgotten for good.
ConsolidationSettles ==
    <>[](focus = "consolidation" => C!NoMoveLeft) /\ <>[][focus = "consolidation" => UNCHANGED u3]_u

\* No device is given out twice, whatever instance types are launched, the budgets are
\* what the recorded claims leave, a claim has the devices it asks for, and the index of
\* devices in use that a Solve starts from is what the claims in the API hold.
DevicesKept ==
    /\ focus = "allocator" => A!EveryCollapseFits /\ A!BudgetsMatchClaims /\ A!ClaimsSatisfied
    /\ focus = "tracker" => T!SeedExact

\* The running cost of a NodePool has no remainder.
CostExact == focus = "cost" => K!CostExact

\* The cost of a NodePool becomes what its claims cost.
CostSettles == <>[](focus = "cost" => K!AllPriced) => <>[](focus = "cost" => K!CostCurrent)

\* Prices and capacities become those of the heaviest overlays without conflict.
OverlaysSettle == <>[](focus = "overlays" => O!InEffect)

\* Pods come to carry the deletion cost of their node.
AnnotationsSettle == <>[](focus = "deletioncost" => P!Annotated)

\* No claim becomes Consolidatable on a decision that a pod event has overtaken.
ConsolidatableIsIdle == [][focus = "conditions" => J!IdleLongEnough]_u

\* The repair decision for a Node is what its conditions ask for, in whatever order they
\* are listed, and a drain that repair forces is bounded.
RepairDecided == focus = "repair" => R!RepairDecided

\* Nodes that stay unhealthy are repaired, not rebooted for ever.
RepairsSettle == <>[](focus = "repair" => R!AllRepaired)

\* Drifted and Consolidatable become what they should be.
ConditionsSettle == <>[](focus = "conditions" => J!ConditionsRight)
================================================================================
