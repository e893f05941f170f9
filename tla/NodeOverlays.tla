---------------------------- MODULE NodeOverlays ----------------------------
(***************************************************************************)
(* pkg/controllers/nodeoverlay: one pass computes, from all NodeOverlays   *)
(* and all NodePools, which prices and capacities are overridden, writes   *)
(* the verdict on each overlay and then swaps the store that decorates     *)
(* GetInstanceTypes for every other controller.                            *)
(***************************************************************************)
EXTENDS Integers, FiniteSets, Functions, Sequences, SequencesExt, TLC

CONSTANTS
    Pools, Types,       \* names
    Price,              \* what each offering of an instance type costs
    Capacity,           \* what an instance type has of each resource
    Rank,               \* the place of an overlay's name in the alphabet
    Catalogs,           \* what the overlays of an instance say: name -> Spec
    MaxChanges,         \* bound on disturbances
    Unset               \* an overlay says nothing of the price

(* An overlay: the NodePools, types and offerings its requirements admit,  *)
(* its weight, capacity and price, which is absolute or an adjustment by   *)
(* an amount or a percentage, and whether RuntimeValidate accepts it.      *)
VARIABLES
    catalog,        \* the member of Catalogs
    overlays,       \* existing overlay -> its ValidationSucceeded condition
    pools,          \* the NodePools that exist
    broken,         \* NodePools whose GetInstanceTypes fails
    store,          \* the published store: [updates, evaluated]
    pass,           \* the reconcile under way
    changes         \* disturbances left

vars == <<catalog, overlays, pools, broken, store, pass, changes>>

newInternalInstanceTypeStore == [updates |-> <<>>, evaluated |-> {}]
Idle == [phase |-> "idle", todo |-> <<>>, seen |-> <<>>, verdict |-> <<>>,
         temp |-> newInternalInstanceTypeStore, moved |-> {}, errs |-> FALSE]

(***************************************************************************)
(* The internal store: for an instance type of a NodePool, the price each  *)
(* offering gets, the quantity each resource gets, and the weight (and     *)
(* resources) of the overlay applied last.  Unset weights count as 0.      *)
(***************************************************************************)
NoUpdate == [price |-> <<>>, capacity |-> <<>>, lowestResources |-> {}, lowestWeight |-> 0]
UpdateOf(s, x) == IF x \in DOMAIN s THEN s[x] ELSE NoUpdate

getOverlaidOfferings(p, it, o) ==
    IF p \in o.pools /\ it \in o.types THEN DOMAIN Price[it] \cap o.offerings ELSE {}

isOfferingUpdateConflicting(s, x, of, o) ==
    /\ of \in DOMAIN UpdateOf(s, x).price
    /\ UpdateOf(s, x).price[of].lowestWeight = o.weight

isPriceUpdatesConflicting(s, x, offerings, o) ==
    o.price # Unset /\ \E of \in offerings : isOfferingUpdateConflicting(s, x, of, o)

isCapacityUpdatesConflicting(s, x, o) ==
    /\ x \in DOMAIN s
    /\ UpdateOf(s, x).lowestWeight = o.weight
    /\ DOMAIN o.capacity \cap UpdateOf(s, x).lowestResources # {}

validateInstanceTypesOverride(s, p, o) ==
    \A it \in Types : LET offerings == getOverlaidOfferings(p, it, o)
                      IN  offerings # {} => /\ ~isPriceUpdatesConflicting(s, <<p, it>>, offerings, o)
                                            /\ ~isCapacityUpdatesConflicting(s, <<p, it>>, o)

LastWins(u, o, offerings) ==
    IF o.price = Unset THEN u
    ELSE [u EXCEPT !.price = [of \in offerings |-> [value |-> o.price, lowestWeight |-> o.weight]] @@ @]

\* The heavier overlay came first and keeps its price.
updateInstanceTypeOffering(u, o, offerings) ==
    IF o.price = Unset THEN u
    ELSE [u EXCEPT !.price = [of \in offerings |->
            [value |-> IF of \in DOMAIN u.price THEN u.price[of].value ELSE o.price, lowestWeight |-> o.weight]] @@ @]

updateInstanceTypeCapacity(u, o) ==
    IF o.capacity = <<>> THEN u
    ELSE [u EXCEPT !.capacity = @ @@ o.capacity, !.lowestResources = DOMAIN o.capacity, !.lowestWeight = o.weight]

storeUpdatesForInstanceTypeOverride(s, ps, o) ==
    LET hit == {x \in ps \X Types : getOverlaidOfferings(x[1], x[2], o) # {}}
        entry(x) == updateInstanceTypeCapacity(
                        updateInstanceTypeOffering(UpdateOf(s, x), o, getOverlaidOfferings(x[1], x[2], o)), o)
    IN  IF o.price = Unset /\ o.capacity = <<>> THEN s ELSE [x \in hit |-> entry(x)] @@ s

StoresAsItValidates(s, ps, o) ==
    LET fine == {p \in ps : validateInstanceTypesOverride(s, p, o)}
    IN  [updates |-> storeUpdatesForInstanceTypeOverride(s, fine, o), ok |-> fine = ps]

validateAndUpdateInstanceTypeOverrides(s, ps, o) ==
    IF \A p \in ps : validateInstanceTypesOverride(s, p, o)
    THEN [updates |-> storeUpdatesForInstanceTypeOverride(s, ps, o), ok |-> TRUE]
    ELSE [updates |-> s, ok |-> FALSE]

(***************************************************************************)
(* What the store makes of an instance type for a NodePool.                *)
(***************************************************************************)
AdjustedPrice(price, change) ==
    LET adjusted == IF change.percent THEN price + (price * change.by) \div 100 ELSE price + change.by
    IN  IF change.absolute THEN change.by ELSE IF adjusted >= 0 THEN adjusted ELSE 0

applyPriceOverlays(prices, updates) ==
    [of \in DOMAIN prices |-> IF of \in DOMAIN updates THEN AdjustedPrice(prices[of], updates[of].value) ELSE prices[of]]

ApplyCapacityOverlay(capacity, updated) == updated @@ capacity

apply(s, p, it) ==
    LET u == UpdateOf(s, <<p, it>>)
    IN  [price |-> applyPriceOverlays(Price[it], u.price), capacity |-> ApplyCapacityOverlay(Capacity[it], u.capacity)]

\* A NodePool that the last pass did not evaluate gets an error and no types.
ApplyAll(p) == IF p \in store.evaluated THEN [it \in Types |-> apply(store.updates, p, it)] ELSE <<>>

(***************************************************************************)
(* The pass: heavier overlays first, of equal weights the later name.      *)
(***************************************************************************)
Before(a, b) ==
    \/ catalog[a].weight > catalog[b].weight
    \/ catalog[a].weight = catalog[b].weight /\ Rank[a] > Rank[b]

OrderByWeight(names) == SetToSortSeq(names, Before)

Evaluate(names, ps) ==
    FoldLeft(LAMBDA acc, n :
                LET r == validateAndUpdateInstanceTypeOverrides(acc.updates, ps, catalog[n])
                IN  IF ~catalog[n].valid
                    THEN [acc EXCEPT !.verdict = (n :> "RuntimeValidation") @@ @]
                    ELSE [updates |-> r.updates,
                          verdict |-> (n :> IF r.ok THEN "True" ELSE "Conflict") @@ acc.verdict],
            [updates |-> <<>>, verdict |-> <<>>], OrderByWeight(names))

\* The pass lists overlays and NodePools and resolves the types of each NodePool.
Lists ==
    LET evaluated == pools \ broken
        r == Evaluate(DOMAIN overlays, evaluated)
    IN  /\ pass.phase = "idle"
        /\ pass' = [phase |-> "patching", todo |-> OrderByWeight(DOMAIN overlays), seen |-> overlays,
                    verdict |-> r.verdict, moved |-> {}, errs |-> FALSE,
                    temp |-> [updates |-> r.updates, evaluated |-> evaluated]]
        /\ UNCHANGED <<catalog, overlays, pools, broken, store, changes>>

\* One status patch under the optimistic lock; a lost race starts the pass over.
updateOverlayStatuses ==
    /\ pass.phase = "patching" /\ pass.todo # <<>>
    /\ LET n == Head(pass.todo)
           rest == [pass EXCEPT !.todo = Tail(@)]
       IN  \/ /\ pass.seen[n] = pass.verdict[n]
              /\ pass' = rest /\ UNCHANGED <<overlays, changes>>
           \/ /\ pass.seen[n] # pass.verdict[n]
              /\ IF n \in pass.moved THEN pass' = Idle /\ overlays' = overlays
                 ELSE pass' = rest /\ overlays' = [overlays EXCEPT ![n] = pass.verdict[n]]
              /\ changes' = changes
           \/ /\ pass.seen[n] # pass.verdict[n] /\ changes > 0
              /\ pass' = [rest EXCEPT !.errs = TRUE] /\ changes' = changes - 1
              /\ overlays' = overlays
    /\ UNCHANGED <<catalog, pools, broken, store>>

UpdateStore ==
    /\ pass.phase = "patching" /\ pass.todo = <<>>
    /\ store' = IF pass.errs THEN store ELSE pass.temp
    /\ pass' = Idle
    /\ UNCHANGED <<catalog, overlays, pools, broken, changes>>

(***************************************************************************)
(* Users and the cloud.                                                    *)
(***************************************************************************)
Disturb == changes > 0 /\ changes' = changes - 1
Moved(n) == pass' = IF pass.phase = "idle" THEN pass ELSE [pass EXCEPT !.moved = @ \cup {n}]

OverlayCreated(n) ==
    /\ Disturb /\ n \notin DOMAIN overlays
    /\ overlays' = (n :> "Unknown") @@ overlays /\ Moved(n)
    /\ UNCHANGED <<catalog, pools, broken, store>>

OverlayDeleted(n) ==
    /\ Disturb /\ n \in DOMAIN overlays
    /\ overlays' = Restrict(overlays, DOMAIN overlays \ {n}) /\ Moved(n)
    /\ UNCHANGED <<catalog, pools, broken, store>>

PoolChanges(p) ==
    /\ Disturb
    /\ \/ pools' = (pools \ {p}) \cup ({p} \ pools) /\ broken' = broken
       \/ broken' = (broken \ {p}) \cup ({p} \ broken) /\ pools' = pools
    /\ UNCHANGED <<catalog, overlays, store, pass>>

InitFrom(C) ==
    /\ catalog \in C
    /\ overlays = [n \in DOMAIN catalog |-> "Unknown"] /\ pools = Pools /\ broken = {}
    /\ store = newInternalInstanceTypeStore /\ pass = Idle /\ changes = MaxChanges

Init == InitFrom(Catalogs)
Reconcile == Lists \/ updateOverlayStatuses \/ UpdateStore

Next ==
    \/ Reconcile
    \/ \E n \in DOMAIN catalog : OverlayCreated(n) \/ OverlayDeleted(n)
    \/ \E p \in Pools : PoolChanges(p)

\* An event, an error or the poll of every six hours starts the next pass: some step
\* of Reconcile can always be taken, and users move overlays under it only finitely often.
Fairness == []<><<TRUE>>_pass
Spec == Init /\ [][Next]_vars /\ Fairness

--------------------------------------------------------------------------------
Selects(o, p, it, of) == of \in getOverlaidOfferings(p, it, catalog[o])
Touches(o, p, it) == getOverlaidOfferings(p, it, catalog[o]) # {}

Clash(a, b, p, it) ==
    /\ catalog[a].weight = catalog[b].weight
    /\ \/ /\ catalog[a].price # Unset /\ catalog[b].price # Unset
          /\ \E of \in DOMAIN Price[it] : Selects(a, p, it, of) /\ Selects(b, p, it, of)
       \/ /\ Touches(a, p, it) /\ Touches(b, p, it)
          /\ DOMAIN catalog[a].capacity \cap DOMAIN catalog[b].capacity # {}

\* The sets of overlays in force: the valid ones without those that clash with an earlier one in force.
InForce(S) ==
    /\ S \subseteq {o \in DOMAIN overlays : catalog[o].valid}
    /\ \A o \in DOMAIN overlays : catalog[o].valid =>
        (o \notin S <=> \E a \in S, p \in pools \ broken, it \in Types : Before(a, o) /\ Clash(a, o, p, it))

Foremost(S, o) == o \in S /\ \A a \in S : a = o \/ Before(o, a)

\* A type as NodePool p is given it carries what the foremost overlay of S with something to say of it says.
Carries(S, p, it) ==
    LET given == ApplyAll(p)[it]
        priced(of) == {o \in S : catalog[o].price # Unset /\ Selects(o, p, it, of)}
        sized(r) == {o \in S : Touches(o, p, it) /\ r \in DOMAIN catalog[o].capacity}
    IN  /\ \A of \in DOMAIN Price[it] :
            \/ priced(of) = {} /\ given.price[of] = Price[it][of]
            \/ \E o \in priced(of) : /\ Foremost(priced(of), o)
                                     /\ given.price[of] = AdjustedPrice(Price[it][of], catalog[o].price)
        /\ \A r \in DOMAIN given.capacity \cup UNION {DOMAIN catalog[o].capacity : o \in S} :
            \/ sized(r) = {} /\ (r \in DOMAIN given.capacity => r \in DOMAIN Capacity[it] /\ given.capacity[r] = Capacity[it][r])
            \/ \E o \in sized(r) : /\ Foremost(sized(r), o)
                                  /\ r \in DOMAIN given.capacity /\ given.capacity[r] = catalog[o].capacity[r]

InPower == {o \in DOMAIN overlays : overlays[o] = "True"}

InEffect ==
    /\ InForce(InPower)
    /\ \A o \in DOMAIN overlays \ InPower :
        overlays[o] = IF catalog[o].valid THEN "Conflict" ELSE "RuntimeValidation"
    /\ \A p \in pools : IF p \in broken THEN ApplyAll(p) = <<>>
                        ELSE DOMAIN ApplyAll(p) = Types /\ \A it \in Types : Carries(InPower, p, it)

(* Once overlays and NodePools stop changing, the types every NodePool is    *)
(* given carry what the heaviest overlay in force says, an overlay that      *)
(* clashes with one of its weight contributes nothing anywhere, each         *)
(* overlay's condition says which it is, and a NodePool that could not be    *)
(* resolved is refused: whatever races, failed patches and deleted overlays  *)
(* came before (nodeoverlay/controller.go:73-135, store.go:61-79, 186-286).  *)
OverlaysSettle == <>[]InEffect
==============================================================================
