----------------------------- MODULE ClusterCost -----------------------------
(***************************************************************************)
(* pkg/state/cost: the running cost of every NodePool, and who feeds it:   *)
(* the informers of NodeClaims and NodePools and the pricing controller.   *)
(* Each method holds one lock; what a caller passes in was read before.    *)
(***************************************************************************)
EXTENDS Integers, FiniteSets, FiniteSetsExt, Functions, TLC

CONSTANTS
    NodeClaims, Pools, Keys,    \* names of claims and NodePools, offering keys
    Fleets,                     \* [claims : functions to Attributes, changes : bound on disturbances]
    Prices,                     \* what an offering may cost
    Unpriced                    \* no price: a claim that carries none, an offering not offered

Attributes == [pool : Pools, key : Keys, fixed : Prices \cup {Unpriced}]

VARIABLES
    fleet,          \* claim -> its Attributes
    api,            \* of a claim: "none", "unlabelled", "live", "gone"
    pools,          \* the NodePools that exist
    price,          \* what the cloud asks for a key
    npCostMap,      \* NodePool -> [cost, offeringCounts, fixedPrices]
    nodeClaimMap,   \* tracked claim -> [pool, key]
    reads,          \* what the reconcile of a claim has read of it, or "idle"
    missing,        \* NodePools whose reconcile has read that they do not exist
    pricing,        \* the pricing controller's pass
    changes         \* disturbances left

vars == <<fleet, api, pools, price, npCostMap, nodeClaimMap, reads, missing, pricing, changes>>

NewNodePoolCost == [cost |-> 0, offeringCounts |-> <<>>, fixedPrices |-> <<>>]
NodePoolCost(p) == IF p \in DOMAIN npCostMap THEN npCostMap[p] ELSE NewNodePoolCost

Without(f, x) == Restrict(f, DOMAIN f \ {x})

findOfferingPrice(k) == IF price[k] = Unpriced THEN 0 ELSE price[k]

(***************************************************************************)
(* The running total: every addition and removal of a claim changes it by  *)
(* the price of one, a change of prices computes it anew.                  *)
(***************************************************************************)
internalAddOffering(p, k) ==
    LET npc == NodePoolCost(p)
        oc == IF k \in DOMAIN npc.offeringCounts THEN npc.offeringCounts[k]
              ELSE [count |-> 0, price |-> findOfferingPrice(k)]
    IN  (p :> [npc EXCEPT !.offeringCounts = (k :> [oc EXCEPT !.count = @ + 1]) @@ @, !.cost = @ + oc.price])
        @@ npCostMap

internalAddFixedPrice(p, c, v) ==
    LET npc == NodePoolCost(p)
    IN  (p :> [npc EXCEPT !.fixedPrices = (c :> v) @@ @, !.cost = @ + v]) @@ npCostMap

\* A NodePool none of whose claims is tracked any more is forgotten.
Kept(p, npc) ==
    IF npc.offeringCounts = <<>> /\ npc.fixedPrices = <<>> THEN Without(npCostMap, p)
    ELSE (p :> npc) @@ npCostMap

RemoveWithoutPrice(p, k) ==
    LET npc == npCostMap[p]
        oc == npc.offeringCounts[k]
    IN  Kept(p, [npc EXCEPT !.offeringCounts = IF oc.count = 1 THEN Without(@, k)
                                               ELSE (k :> [oc EXCEPT !.count = @ - 1]) @@ @,
                            !.cost = @ - findOfferingPrice(k)])

internalRemoveOffering(p, k) ==
    LET npc == npCostMap[p]
        oc == npc.offeringCounts[k]
    IN  Kept(p, [npc EXCEPT !.offeringCounts = IF oc.count = 1 THEN Without(@, k)
                                               ELSE (k :> [oc EXCEPT !.count = @ - 1]) @@ @,
                            !.cost = @ - oc.price])

internalRemoveFixedPrice(p, c) ==
    LET npc == npCostMap[p]
    IN  Kept(p, [npc EXCEPT !.fixedPrices = Without(@, c), !.cost = @ - npc.fixedPrices[c]])

SumFixed(npc) == MapThenSumSet(LAMBDA c : npc.fixedPrices[c], DOMAIN npc.fixedPrices)
SumOfferings(npc) ==
    MapThenSumSet(LAMBDA k : npc.offeringCounts[k].count * npc.offeringCounts[k].price, DOMAIN npc.offeringCounts)

UpdateWithoutFixed(p, prices) ==
    IF p \notin DOMAIN npCostMap THEN (p :> NewNodePoolCost) @@ npCostMap
    ELSE LET npc == npCostMap[p]
             new == [npc EXCEPT !.offeringCounts =
                        [k \in DOMAIN @ |-> IF prices[k] = Unpriced THEN @[k] ELSE [@[k] EXCEPT !.price = prices[k]]]]
         IN  (p :> [new EXCEPT !.cost = SumOfferings(new)]) @@ npCostMap

internalUpdateOfferings(p, prices) ==
    IF p \notin DOMAIN npCostMap THEN (p :> NewNodePoolCost) @@ npCostMap
    ELSE LET npc == npCostMap[p]
             new == [npc EXCEPT !.offeringCounts =
                        [k \in DOMAIN @ |-> IF prices[k] = Unpriced THEN @[k] ELSE [@[k] EXCEPT !.price = prices[k]]]]
         IN  (p :> [new EXCEPT !.cost = SumFixed(new) + SumOfferings(new)]) @@ npCostMap

(***************************************************************************)
(* The reconcile of a NodeClaim: it reads the claim and applies what it    *)
(* read.  It comes back every minute.                                      *)
(***************************************************************************)
ReadClaim(c) ==
    /\ reads[c] = "idle" /\ api[c] # "none"
    /\ reads' = [reads EXCEPT ![c] = api[c]]
    /\ UNCHANGED <<fleet, api, pools, price, npCostMap, nodeClaimMap, missing, pricing, changes>>

Track(c) == nodeClaimMap' = (c :> [pool |-> fleet[c].pool, key |-> fleet[c].key]) @@ nodeClaimMap

\* The NodePool is not found, or GetInstanceTypes fails for a key not seen before;
\* by then the NodePool has its (empty) entry.
AddFails(a) ==
    /\ nodeClaimMap' = nodeClaimMap
    /\ \/ a.pool \notin pools /\ UNCHANGED <<npCostMap, changes>>
       \/ /\ a.pool \in pools /\ a.key \notin DOMAIN NodePoolCost(a.pool).offeringCounts
          /\ changes > 0 /\ changes' = changes - 1
          /\ npCostMap' = (a.pool :> NodePoolCost(a.pool)) @@ npCostMap

\* What the NodeClaim alone is worth, if its price provider knows.
PriceNodeClaim(c) == fleet[c].fixed

UpdateNodeClaim(c) ==
    LET a == fleet[c]
        v == PriceNodeClaim(c)
    IN  /\ reads[c] \in {"unlabelled", "live"}
        /\ reads' = [reads EXCEPT ![c] = "idle"]
        /\ \/ /\ c \in DOMAIN nodeClaimMap \/ reads[c] = "unlabelled"
              /\ UNCHANGED <<npCostMap, nodeClaimMap, changes>>
           \/ /\ c \notin DOMAIN nodeClaimMap /\ reads[c] = "live"
              /\ \/ v # Unpriced /\ Track(c) /\ changes' = changes
                    /\ npCostMap' = internalAddFixedPrice(a.pool, c, v)
                 \/ v = Unpriced /\ a.pool \in pools /\ Track(c) /\ changes' = changes
                    /\ npCostMap' = internalAddOffering(a.pool, a.key)
                 \/ v = Unpriced /\ AddFails(a)
        /\ UNCHANGED <<fleet, api, pools, price, missing, pricing>>

\* A removal that finds nothing to remove returns an error and is tried again.
Removable(m) ==
    m.pool \in DOMAIN npCostMap /\ m.key \in DOMAIN npCostMap[m.pool].offeringCounts

DeleteNodeClaim(c) ==
    /\ reads[c] = "gone"
    /\ reads' = [reads EXCEPT ![c] = "idle"]
    /\ IF c \notin DOMAIN nodeClaimMap THEN UNCHANGED <<npCostMap, nodeClaimMap>>
       ELSE LET m == nodeClaimMap[c]
            IN  IF c \in DOMAIN NodePoolCost(m.pool).fixedPrices
                THEN npCostMap' = internalRemoveFixedPrice(m.pool, c) /\ nodeClaimMap' = Without(nodeClaimMap, c)
                ELSE IF Removable(m)
                THEN npCostMap' = internalRemoveOffering(m.pool, m.key) /\ nodeClaimMap' = Without(nodeClaimMap, c)
                ELSE UNCHANGED <<npCostMap, nodeClaimMap>>
    /\ UNCHANGED <<fleet, api, pools, price, missing, pricing, changes>>

(***************************************************************************)
(* The reconcile of a NodePool forgets one that it does not find.          *)
(***************************************************************************)
ReadPool(p) ==
    /\ p \notin pools /\ p \notin missing
    /\ p \in DOMAIN npCostMap \/ \E c \in DOMAIN nodeClaimMap : nodeClaimMap[c].pool = p
    /\ missing' = missing \cup {p}
    /\ UNCHANGED <<fleet, api, pools, price, npCostMap, nodeClaimMap, reads, pricing, changes>>

ForgetsOnlyCost(p) ==
    /\ p \in missing
    /\ missing' = missing \ {p}
    /\ npCostMap' = Without(npCostMap, p)
    /\ UNCHANGED <<fleet, api, pools, price, nodeClaimMap, reads, pricing, changes>>

DeleteNodePool(p) ==
    /\ p \in missing
    /\ missing' = missing \ {p}
    /\ nodeClaimMap' = Restrict(nodeClaimMap, {c \in DOMAIN nodeClaimMap : nodeClaimMap[c].pool # p})
    /\ npCostMap' = Without(npCostMap, p)
    /\ UNCHANGED <<fleet, api, pools, price, reads, pricing, changes>>

(***************************************************************************)
(* The pricing controller's pass over the NodePools it listed.             *)
(***************************************************************************)
NoPass == [todo |-> {}, at |-> Unpriced, prices |-> <<>>]

PricingLists ==
    /\ pricing = NoPass /\ pools # {}
    /\ pricing' = [pricing EXCEPT !.todo = pools]
    /\ UNCHANGED <<fleet, api, pools, price, npCostMap, nodeClaimMap, reads, missing, changes>>

GetInstanceTypes(p) ==
    /\ pricing.at = Unpriced /\ p \in pricing.todo
    /\ \/ pricing' = [todo |-> pricing.todo \ {p}, at |-> p, prices |-> price] /\ changes' = changes
       \/ pricing' = [pricing EXCEPT !.todo = @ \ {p}] /\ changes > 0 /\ changes' = changes - 1
    /\ UNCHANGED <<fleet, api, pools, price, npCostMap, nodeClaimMap, reads, missing>>

UpdateOfferings ==
    /\ pricing.at # Unpriced
    /\ npCostMap' = internalUpdateOfferings(pricing.at, pricing.prices)
    /\ pricing' = [pricing EXCEPT !.at = Unpriced, !.prices = <<>>]
    /\ UNCHANGED <<fleet, api, pools, price, nodeClaimMap, reads, missing, changes>>

(***************************************************************************)
(* The cluster and the cloud.                                              *)
(***************************************************************************)
Change == changes > 0 /\ changes' = changes - 1

ClaimCreated(c) ==
    /\ api[c] = "none" /\ fleet[c].pool \in pools
    /\ api' = [api EXCEPT ![c] = "unlabelled"]
    /\ UNCHANGED <<fleet, pools, price, npCostMap, nodeClaimMap, reads, missing, pricing, changes>>

ClaimLaunched(c) ==
    /\ api[c] = "unlabelled"
    /\ api' = [api EXCEPT ![c] = "live"]
    /\ UNCHANGED <<fleet, pools, price, npCostMap, nodeClaimMap, reads, missing, pricing, changes>>

ClaimRemoved(c) ==
    /\ api[c] \in {"unlabelled", "live"} /\ Change
    /\ api' = [api EXCEPT ![c] = "gone"]
    /\ UNCHANGED <<fleet, pools, price, npCostMap, nodeClaimMap, reads, missing, pricing>>

PriceChanges(k) ==
    /\ Change
    /\ price' \in {[price EXCEPT ![k] = v] : v \in (Prices \cup {Unpriced}) \ {price[k]}}
    /\ UNCHANGED <<fleet, api, pools, npCostMap, nodeClaimMap, reads, missing, pricing>>

PoolChanges(p) ==
    /\ Change
    /\ pools' = IF p \in pools THEN pools \ {p} ELSE pools \cup {p}
    /\ UNCHANGED <<fleet, api, price, npCostMap, nodeClaimMap, reads, missing, pricing>>

InitFrom(F) == \E f \in F :
    /\ fleet = f.claims /\ changes = f.changes
    /\ api = [c \in NodeClaims |-> "none"] /\ pools = {fleet[c].pool : c \in NodeClaims}
    /\ price = [k \in Keys |-> Min(Prices)]
    /\ npCostMap = <<>> /\ nodeClaimMap = <<>>
    /\ reads = [c \in NodeClaims |-> "idle"] /\ missing = {} /\ pricing = NoPass

Init == InitFrom(Fleets)

ReconcileClaim(c) == ReadClaim(c) \/ UpdateNodeClaim(c) \/ DeleteNodeClaim(c)
Pricing == PricingLists \/ (\E p \in pricing.todo : GetInstanceTypes(p)) \/ UpdateOfferings

Next ==
    \/ \E c \in NodeClaims : ReconcileClaim(c) \/ ClaimCreated(c) \/ ClaimLaunched(c) \/ ClaimRemoved(c)
    \/ \E p \in Pools : ReadPool(p) \/ DeleteNodePool(p) \/ PoolChanges(p)
    \/ Pricing
    \/ \E k \in Keys : PriceChanges(k)

\* A reconcile goes on and a claim is looked at again (RequeueAfter); the pricing
\* controller comes back every hour.
Fairness ==
    /\ \A c \in NodeClaims : WF_vars(ReconcileClaim(c))
    /\ \A p \in Pools : WF_vars(DeleteNodePool(p))
    /\ WF_vars(Pricing)

Spec == Init /\ [][Next]_vars /\ Fairness

--------------------------------------------------------------------------------
Counted(p, k) == {c \in DOMAIN nodeClaimMap : nodeClaimMap[c] = [pool |-> p, key |-> k]
                                              /\ c \notin DOMAIN NodePoolCost(p).fixedPrices}

(* The cost of a NodePool is the sum of what its tracked claims cost, an     *)
(* offering is counted once for each of them, and a tracked claim can always *)
(* be taken off again: additions, removals, changes of price and deletions   *)
(* of NodePools leave no remainder (cost.go:150-167, 263-343).               *)
CostExact ==
    /\ \A p \in DOMAIN npCostMap :
        LET npc == npCostMap[p]
        IN  /\ npc.cost = SumFixed(npc) + SumOfferings(npc)
            /\ \A k \in DOMAIN npc.offeringCounts : npc.offeringCounts[k].count = Cardinality(Counted(p, k))
    /\ \A c \in DOMAIN nodeClaimMap :
        \/ c \in DOMAIN NodePoolCost(nodeClaimMap[c].pool).fixedPrices
        \/ Removable(nodeClaimMap[c])

Worth(c) == IF fleet[c].fixed = Unpriced THEN findOfferingPrice(fleet[c].key) ELSE fleet[c].fixed
LiveIn(p) == {c \in NodeClaims : api[c] = "live" /\ fleet[c].pool = p}
AllPriced == \A k \in Keys : price[k] # Unpriced
CostCurrent == \A p \in pools : NodePoolCost(p).cost = MapThenSumSet(Worth, LiveIn(p))

(* Once claims, NodePools and prices stop changing, the cost of a NodePool   *)
(* becomes what its claims cost at the prices of the day, also after a pass  *)
(* that applied old prices, a NodePool deleted and created again under its   *)
(* claims, and calls that failed (cost.go:128-135, informer/pricing.go:53).  *)
CostSettles == <>[]AllPriced => <>[]CostCurrent
==============================================================================
