---------------------------- MODULE DynamicResources ----------------------------
(***************************************************************************)
(* Dynamic resource allocation in one scheduling loop: the Allocator of    *)
(* pkg/scheduling/dynamicresources and the NodeClaims and nodes of the     *)
(* scheduler that call it.                                                 *)
(*                                                                         *)
(* A NodeClaim that is not launched yet is several instance types at once. *)
(* A claim's devices are chosen for each of them, published devices before *)
(* the instance type's own template devices, and the tracker keeps every   *)
(* choice until the instance type is released, so that whichever type is   *)
(* launched finds its devices free.                                        *)
(*                                                                         *)
(* A device is [name, attrs, multi, cap, counters]: attrs from attributes  *)
(* to values, cap from capacity dimensions to [value, policy], counters    *)
(* from counter sets to the amount drawn.  A counter set stands for the    *)
(* counters it holds.                                                      *)
(***************************************************************************)
EXTENDS Requirements, DeviceClaims

CONSTANTS
    Setups,                     \* what a scheduling loop can start from
    AllocationResultsMaxSize,   \* most devices of one claim
    Hostnames                   \* the NodeClaims one loop may create

VARIABLES
    setup,      \* slices, nodes, instance types, claims and pods; never changes
    tracker,    \* AllocationTracker
    poolCache,  \* NodeClaim -> pools left for it
    metadata,   \* claimAllocationMetadata
    planned,    \* NodeClaim or node -> [reqs, its, pods]
    queue,      \* pods to place
    panicked    \* a Commit found what it must not find

vars == <<setup, tracker, poolCache, metadata, planned, queue, panicked>>

(***************************************************************************)
(* Requirements.                                                           *)
(***************************************************************************)
Joined(rs) == FoldSeq(LAMBDA r, acc : Add(acc, r), NoRequirements, rs)

compatibilityOptions(superposed) == IF superposed THEN WellKnownLabels ELSE {}
IsCompatible(reqs, qs, superposed) == Compatible(reqs, qs, compatibilityOptions(superposed))

\* The slices whose node is known and initialized, and those of no node.
gatherResourceSlices ==
    SelectSeq(setup.slices, LAMBDA s : s.owner = None \/ s.owner \in {n \in DOMAIN setup.nodes : setup.nodes[n].initialized})

(***************************************************************************)
(* Pools: the published slices of one driver and pool name.  A slice is    *)
(* [key, owner, gen, count, all, node, terms, counters, devices]; counters *)
(* is None unless the slice declares the pool's budgets.  key is the       *)
(* driver's pool and 0, or the index of a template's set.                  *)
(***************************************************************************)
nodeSelectorsMatch(terms, nc) == \E t \in Range(terms) : IsCompatible(nc.reqs, t, nc.superposed)

sliceMatchesRequirements(s, nc) ==
    \/ s.all
    \/ s.counters # None
    \/ IF s.node # None THEN s.node = nc.node
       ELSE s.terms # None /\ nodeSelectorsMatch(s.terms, nc)

sliceTopologyRequirements(s) == IF s.all \/ s.terms = None THEN None ELSE Joined(s.terms)

newDeviceWithID(key, d, reqs) ==
    [dev |-> d, id |-> [key |-> key, name |-> d.name, template |-> FALSE], reqs |-> reqs]

DevicesOf(slices) ==
    FlattenSeq([i \in DOMAIN slices |->
        [j \in DOMAIN slices[i].devices |->
            newDeviceWithID(slices[i].key, slices[i].devices[j], sliceTopologyRequirements(slices[i]))]])

DrawsCounters(dw) == dw.dev.counters # <<>>

\* addSlice: the newest generation replaces what was seen before it, an older
\* one is dropped.  The first slice of a generation says how many there are.
addSlice(entries, s) ==
    IF entries = <<>> \/ s.gen > Head(entries).gen THEN <<s>>
    ELSE IF s.gen < Head(entries).gen THEN entries ELSE Append(entries, s)

\* Every budget is declared once and every device draws on declared ones.
validateCounters(declaring, others) ==
    /\ \A i, j \in DOMAIN declaring : i # j => DOMAIN declaring[i].counters \cap DOMAIN declaring[j].counters = {}
    /\ \A s \in Range(others) : \A d \in Range(s.devices) :
           DOMAIN d.counters \subseteq UNION {DOMAIN c.counters : c \in Range(declaring)}

duplicated(devices) == \E i, j \in DOMAIN devices : i # j /\ devices[i].id = devices[j].id

\* Only the slices that match give devices.  What the others' devices draw is
\* remembered, and of an invalid pool nothing else is.
PoolOf(key, incomplete, declaring, matched, unmatched) ==
    LET p == [key |-> key, slices |-> matched, devices |-> DevicesOf(matched),
              nonTargeting |-> SelectSeq(DevicesOf(unmatched), DrawsCounters),
              counters |-> FoldSeq(LAMBDA s, acc : s.counters @@ acc, <<>>, declaring),
              incomplete |-> incomplete, invalid |-> FALSE]
    IN  IF duplicated(DevicesOf(matched)) \/ ~validateCounters(declaring, matched \o unmatched)
        THEN [p EXCEPT !.slices = <<>>, !.devices = <<>>, !.invalid = TRUE,
                       !.nonTargeting = @ \o SelectSeq(DevicesOf(matched), DrawsCounters)]
        ELSE p

build(key, entries, nc) ==
    PoolOf(key, Len(entries) # Head(entries).count,
           SelectSeq(entries, LAMBDA s : s.counters # None),
           SelectSeq(entries, LAMBDA s : s.counters = None /\ sliceMatchesRequirements(s, nc)),
           SelectSeq(entries, LAMBDA s : s.counters = None /\ ~sliceMatchesRequirements(s, nc)))

Empty(p) == ~p.invalid /\ p.slices = <<>> /\ p.devices = <<>> /\ p.nonTargeting = <<>>

\* The pools in every order the map of builders can be read in.
GatherPools(slices, nc) ==
    LET keys == {s.key : s \in Range(slices)}
        Entries(k) == FoldLeft(addSlice, <<>>, SelectSeq(slices, LAMBDA s : s.key = k))
        pools == {p \in {build(k, Entries(k), nc) : k \in keys} : ~Empty(p)}
    IN  SetToSeqs(pools)

filterPool(p, nc) ==
    LET kept == SelectSeq(p.slices, LAMBDA s : sliceMatchesRequirements(s, nc))
        gone == SelectSeq(p.slices, LAMBDA s : ~sliceMatchesRequirements(s, nc))
    IN  [p EXCEPT !.slices = kept, !.devices = DevicesOf(kept),
                  !.nonTargeting = @ \o SelectSeq(DevicesOf(gone), DrawsCounters)]

FilterPools(pools, nc) ==
    SelectSeq([i \in DOMAIN pools |-> filterPool(pools[i], nc)], LAMBDA p : ~Empty(p))

(***************************************************************************)
(* Consumable capacity: what a request draws from a device that several    *)
(* claims may share.  A policy is [default, range, values], a range        *)
(* [min, max, step], each None when unset; values ascend.                  *)
(***************************************************************************)
roundUpRange(v, r) ==
    IF v < r.min THEN r.min
    ELSE IF r.step = None THEN v
    ELSE r.min + r.step * ((v - r.min + r.step - 1) \div r.step)

roundUpValidValues(v, values) ==
    LET above == {x \in Range(values) : x >= v}
    IN  IF above = {} THEN v ELSE Min(above)

fillEmptyRequest(c) == IF c.policy # None /\ c.policy.default # None THEN c.policy.default ELSE c.value

calculateConsumedCapacity(requests, dim, c) ==
    IF dim \notin DOMAIN requests THEN fillEmptyRequest(c)
    ELSE IF c.policy = None THEN requests[dim]
    ELSE IF c.policy.range # None THEN roundUpRange(requests[dim], c.policy.range)
    ELSE IF c.policy.values # None THEN roundUpValidValues(requests[dim], c.policy.values)
    ELSE requests[dim]

violatesPolicy(v, p) ==
    /\ p # None
    /\ v # p.default
    /\ \/ /\ p.range # None
          /\ \/ p.range.max # None /\ v > p.range.max
             \/ p.range.step # None /\ (v - p.range.min) % p.range.step # 0
       \/ /\ p.range = None /\ p.values # None
          /\ v \notin Range(p.values)

computeConsumedCapacity(requests, d) ==
    [dim \in DOMAIN d.cap |-> calculateConsumedCapacity(requests, dim, d.cap[dim])]

\* The request names only dimensions of the device, and none breaks a policy.
CapacityUnderstood(requests, d) ==
    /\ DOMAIN requests \subseteq DOMAIN d.cap
    /\ \A dim \in DOMAIN d.cap : ~violatesPolicy(computeConsumedCapacity(requests, d)[dim], d.cap[dim].policy)

\* What the device's draw is filed under.
CapacityOf(id, consumed) == [x \in {<<id, dim>> : dim \in DOMAIN consumed} |-> consumed[x[2]]]
CountersOf(dw) == [x \in {<<dw.id.key, c>> : c \in DOMAIN dw.dev.counters} |-> dw.dev.counters[x[2]]]

(***************************************************************************)
(* MatchAttribute constraints: [requests, attr] of a claim, with what the  *)
(* devices chosen so far have pinned.  A device without the attribute may  *)
(* still match if the instance type binds it to the others.                *)
(***************************************************************************)
\* The copies of a provider's device, one for each set that contains it.
Namespaced(it, d) ==
    {[key |-> <<d.key, i>>, name |-> d.name, template |-> TRUE] :
        i \in {j \in DOMAIN setup.its[it].sets :
                  \E s \in Range(setup.its[it].sets[j].slices) : s.key = d.key /\ d.name \in {x.name : x \in Range(s.devices)}}}

\* The groups of an instance type's devices that will share the attribute,
\* merged wherever two of them have a device in common.
BuildAttributeBindings(it, attr) ==
    LET declared == {b \in setup.its[it].bindings : b.attr = attr /\ Cardinality(b.devices) > 1}
        groups == {UNION {Namespaced(it, d) : d \in b.devices} : b \in declared}
        Grow(S) == S \cup UNION {g \in groups : g \cap S # {}}
    IN  {FoldLeft(LAMBDA S, i : Grow(S), g, [i \in 1..Cardinality(groups) |-> i]) : g \in groups}

HasBindings(it, attr, id) == \E g \in BuildAttributeBindings(it, attr) : id \in g
Bound(it, attr, a, b) == \E g \in BuildAttributeBindings(it, attr) : a \in g /\ b \in g

appliesTo(con, name) == con.requests = {} \/ name[1] \in con.requests \/ name \in con.requests

\* The state a constraint is in: the value pinned (None for a binding) and the
\* devices added.
Unpinned == [value |-> None, ids |-> <<>>]

\* What Add makes of the constraint, in a set that is empty when it refuses.
AddToConstraint(con, c, name, dw, it) ==
    IF ~appliesTo(con, name) THEN {c}
    ELSE IF con.attr \in DOMAIN dw.dev.attrs
    THEN IF c.ids = <<>> \/ c.value = dw.dev.attrs[con.attr]
         THEN {[value |-> dw.dev.attrs[con.attr], ids |-> Append(c.ids, dw.id)]} ELSE {}
    ELSE IF /\ c.value = None
            /\ HasBindings(it, con.attr, dw.id)
            /\ c.ids # <<>> => Bound(it, con.attr, c.ids[1], dw.id)
         THEN {[c EXCEPT !.ids = Append(@, dw.id)]} ELSE {}

(***************************************************************************)
(* Requests.  A claim is [requests, constraints, status]; a request is     *)
(* [name, first, asks], first for FirstAvailable; an ask is [name, class,  *)
(* sels, mode, count, cap]; a selector [attr, values] holds of a device    *)
(* with such an attribute and is an error on one without it.               *)
(***************************************************************************)
Selectors(ask) == setup.classes[ask.class] \o ask.sels

DeviceMatchesSelectors(d, sels) ==
    LET Holds(i) == sels[i].attr \in DOMAIN d.attrs /\ d.attrs[sels[i].attr] \in sels[i].values
        failing == {i \in DOMAIN sels : ~Holds(i)}
    IN  IF failing = {} THEN "yes"
        ELSE IF sels[Min(failing)].attr \in DOMAIN d.attrs THEN "no" ELSE "error"

Matching(devices, sels) == SelectSeq(devices, LAMBDA dw : DeviceMatchesSelectors(dw.dev, sels) = "yes")

\* An All request is refused outright when a device cannot be judged or a pool
\* is not known in full.
AllModeKnown(ask, pools, templates) ==
    /\ \A p \in Range(pools) : ~p.invalid /\ ~p.incomplete
    /\ \A ds \in {p.devices : p \in Range(pools)} \cup Range(templates) :
           \A dw \in Range(ds) : DeviceMatchesSelectors(dw.dev, Selectors(ask)) # "error"

buildRequestData(parent, ask, first, pools, templates) ==
    LET all == ask.mode = "All"
        published == FlattenSeq([i \in DOMAIN pools |-> Matching(pools[i].devices, Selectors(ask))])
    IN  [name  |-> IF first THEN <<parent, ask.name>> ELSE <<parent>>,
         sels  |-> Selectors(ask), mode |-> ask.mode, cap |-> ask.cap,
         count |-> IF all THEN 0 ELSE ask.count,
         all   |-> IF all THEN published ELSE <<>>,
         allOf |-> IF ~all THEN <<>>
                   ELSE [it \in {i \in DOMAIN templates : published # <<>> \/ Matching(templates[i], Selectors(ask)) # <<>>} |->
                            Matching(templates[it], Selectors(ask))]]

AllOf(rd, it) == IF it \in DOMAIN rd.allOf THEN rd.allOf[it] ELSE <<>>

\* The fewest devices a request can need, over its alternatives.
Fewest(req, Need(_)) == Min({Need(rd) : rd \in Range(req.asks)})
baseTotalDevices(reqs) == FoldSeq(LAMBDA req, n : n + Fewest(req, LAMBDA rd : rd.count + Len(rd.all)), 0, reqs)
TemplateCount(reqs, it) == FoldSeq(LAMBDA req, n : n + Fewest(req, LAMBDA rd : Len(AllOf(rd, it))), 0, reqs)

TotalDevices(reqs, it) == baseTotalDevices(reqs) + TemplateCount(reqs, it)

\* The instance types an All request has devices of.
AllModeTypes(reqs) == UNION {UNION {DOMAIN rd.allOf : rd \in Range(req.asks)} : req \in Range(reqs)}

\* An instance type whose template devices do not fit under the limit loses
\* them; the claim is refused when it is too large for all of them.
WithinLimit(cd, its) ==
    LET pruned == {it \in its : TotalDevices(cd.requests, it) > AllocationResultsMaxSize}
        Pruned(rd) == [rd EXCEPT !.allOf = Drop(@, pruned)]
    IN  IF baseTotalDevices(cd.requests) > AllocationResultsMaxSize \/ (its # {} /\ pruned = its) THEN {}
        ELSE {[cd EXCEPT !.requests = [i \in DOMAIN @ |->
                  [cd.requests[i] EXCEPT !.asks = [j \in DOMAIN @ |-> Pruned(@[j])]]]]}

validateRequest(req, pools, templates) ==
    [first |-> req.first,
     asks  |-> [j \in DOMAIN req.asks |-> buildRequestData(req.name, req.asks[j], req.first, pools, templates)]]

Refused(claim, pools, templates) ==
    \E req \in Range(claim.requests) : \E ask \in Range(req.asks) :
        \/ ask.class \notin DOMAIN setup.classes
        \/ ask.mode = "All" /\ ~AllModeKnown(ask, pools, templates)

\* The claim's requests, or the empty set if it is refused.
ValidateClaimRequest(name, claim, pools, templates) ==
    IF Refused(claim, pools, templates) THEN {}
    ELSE UNION {WithinLimit(cd, AllModeTypes(cd.requests)) :
            cd \in {[claim |-> name, constraints |-> claim.constraints,
                     requests |-> [i \in DOMAIN claim.requests |-> validateRequest(claim.requests[i], pools, templates)]]}}

(***************************************************************************)
(* AllocationTracker.  What is tentative is kept by NodeClaim and instance *)
(* type; remaining and inUse are the budgets every NodeClaim sees, with    *)
(* the most any of another NodeClaim's instance types may draw taken off.  *)
(***************************************************************************)
Of(nc, its) == {<<nc, it>> : it \in its}

InitRemainingCounters(pools, allocated) ==
    LET Drawn(p) == FoldSeq(LAMBDA dw, acc : Plus(acc, CountersOf(dw)), <<>>,
                        SelectSeq(p.devices \o p.nonTargeting, LAMBDA dw : dw.id \in allocated))
        Budget(p) == [x \in {<<p.key, c>> : c \in DOMAIN p.counters} |-> p.counters[x[2]]]
    IN  FoldSeq(LAMBDA p, acc : Minus(Budget(p), Drawn(p)) @@ acc, <<>>, pools)

NewAllocationTracker(exclusive, consumed, pools) ==
    [exclusive |-> exclusive,       \* PreallocatedDevices
     consumed  |-> consumed,        \* PreallocatedConsumedCapacity, by <<device, dimension>>
     inflight  |-> <<>>,            \* device -> [nc, its]
     devices   |-> <<>>,            \* <<nc, it>> -> published devices
     template  |-> <<>>,            \* <<nc, it>> -> template devices
     drawn     |-> <<>>,            \* <<nc, it>> -> counters drawn
     remaining |-> InitRemainingCounters(pools, exclusive \cup {x[1] : x \in DOMAIN consumed}),
     left      |-> <<>>,            \* <<nc, it>> -> template counters left
     used      |-> <<>>,            \* <<nc, it>> -> capacity drawn
     inUse     |-> <<>>,            \* InflightConsumedCapacity
     usedHere  |-> <<>>]            \* <<nc, it>> -> template capacity drawn

IsAllocatedHere(id, nc, it) ==
    IF id.template
    THEN <<nc, it>> \in DOMAIN tracker.template /\ id \in tracker.template[<<nc, it>>]
    ELSE \/ id \in tracker.exclusive
         \/ id \in DOMAIN tracker.inflight /\ tracker.inflight[id].nc = nc /\ it \in tracker.inflight[id].its

IsAllocated(id, nc, it) ==
    IF id.template
    THEN <<nc, it>> \in DOMAIN tracker.template /\ id \in tracker.template[<<nc, it>>]
    ELSE \/ id \in tracker.exclusive
         \/ id \in DOMAIN tracker.inflight /\ (tracker.inflight[id].nc # nc \/ it \in tracker.inflight[id].its)

Kept(f, k) == IF k \in DOMAIN f THEN f[k] ELSE <<>>

\* The most any instance type of the NodeClaim draws, name by name.
PessimisticMax(f, nc) ==
    LET mine == {f[k] : k \in {x \in DOMAIN f : x[1] = nc}}
    IN  [x \in UNION {DOMAIN g : g \in mine} |-> Max({g[x] : g \in {h \in mine : x \in DOMAIN h}})]

\* stored with what each instance type of the NodeClaim draws anew.
Merged(stored, nc, byIT) ==
    [k \in Of(nc, DOMAIN byIT) |-> Plus(Kept(stored, k), byIT[k[2]])] @@ stored

\* Budgets follow the change of the maximum, never the draw itself.
subtractDeltaFromRemaining(remaining, old, new) ==
    [x \in DOMAIN remaining |-> remaining[x] - (IF x \in DOMAIN new /\ new[x] > At(old, x) THEN new[x] - At(old, x) ELSE 0)]
addDeltaToRemaining(remaining, old, new) ==
    [x \in DOMAIN remaining |-> remaining[x] + (IF x \in DOMAIN old /\ old[x] > At(new, x) THEN old[x] - At(new, x) ELSE 0)]

commitCounters(t, nc, byIT) ==
    LET drawn == Merged(t.drawn, nc, byIT)
    IN  [t EXCEPT !.drawn = drawn,
                  !.remaining = subtractDeltaFromRemaining(@, PessimisticMax(t.drawn, nc), PessimisticMax(drawn, nc))]

commitCapacity(t, nc, byIT) ==
    LET used == Merged(t.used, nc, byIT)
    IN  [t EXCEPT !.used = used,
                  !.inUse = Plus(@, Minus(PessimisticMax(used, nc), PessimisticMax(t.used, nc)))]

\* The template budgets of each instance type are its own: drawn on directly.
commitTemplateCounters(t, nc, totals, byIT) ==
    LET init == [k \in Of(nc, DOMAIN totals) \ DOMAIN t.left |-> totals[k[2]]] @@ t.left
    IN  [t EXCEPT !.left = [k \in Of(nc, DOMAIN byIT) \cap DOMAIN init |-> Minus(init[k], byIT[k[2]])] @@ init]

commitTemplateCapacity(t, nc, byIT) == [t EXCEPT !.usedHere = Merged(@, nc, byIT)]

\* devices: instance type -> the exclusive devices it was given.
commitDevices(t, nc, devices) ==
    LET Published(it) == {id \in devices[it] : ~id.template}
        Insert(f, new) == [k \in Of(nc, DOMAIN new) |-> (IF k \in DOMAIN f THEN f[k] ELSE {}) \cup new[k[2]]] @@ f
        all == UNION {Published(it) : it \in DOMAIN devices}
        Takers(id) == {it \in DOMAIN devices : id \in devices[it]}
    IN  [t EXCEPT
          !.template = Insert(@, [it \in DOMAIN devices |-> devices[it] \ Published(it)]),
          !.devices  = Insert(@, [it \in DOMAIN devices |-> Published(it)]),
          !.inflight = [id \in all |-> [nc |-> nc, its |-> Takers(id) \cup (IF id \in DOMAIN @ THEN @[id].its ELSE {})]] @@ @]

releaseAllOfIt(t, nc, its) ==
    LET drawn == Drop(t.drawn, Of(nc, its))
    IN  [t EXCEPT !.drawn = drawn, !.remaining = addDeltaToRemaining(@, PessimisticMax(t.drawn, nc), <<>>)]

releaseCounters(t, nc, its) ==
    LET drawn == Drop(t.drawn, Of(nc, its))
    IN  [t EXCEPT !.drawn = drawn,
                  !.remaining = addDeltaToRemaining(@, PessimisticMax(t.drawn, nc), PessimisticMax(drawn, nc))]

releaseCapacity(t, nc, its) ==
    LET used == Drop(t.used, Of(nc, its))
        freed == Minus(PessimisticMax(t.used, nc), PessimisticMax(used, nc))
        now == Minus(t.inUse, freed)
    IN  [t EXCEPT !.used = used, !.inUse = Drop(now, {x \in DOMAIN freed : x \in DOMAIN now /\ freed[x] > 0 /\ now[x] <= 0})]

ReleaseInstanceTypes(t, nc, its) ==
    LET mine == UNION {t.devices[k] : k \in Of(nc, its) \cap DOMAIN t.devices}
        Left(id) == t.inflight[id].its \ {it \in its : <<nc, it>> \in DOMAIN t.devices /\ id \in t.devices[<<nc, it>>]}
        cleared == [t EXCEPT
            !.devices  = Drop(@, Of(nc, its)),
            !.template = Drop(@, Of(nc, its)),
            !.left     = Drop(@, Of(nc, its)),
            !.usedHere = Drop(@, Of(nc, its)),
            !.inflight = [id \in {d \in mine : Left(d) # {}} |-> [nc |-> nc, its |-> Left(id)]] @@ Drop(@, mine)]
    IN  releaseCapacity(releaseCounters(cleared, nc, its), nc, its)

(***************************************************************************)
(* Template devices: what an instance type will publish once launched, one *)
(* set [reqs, slices] for each way it can be launched.  Pools are told     *)
(* apart by the index of their set.                                        *)
(***************************************************************************)
AvailableDynamicResources(it) ==
    {i \in DOMAIN setup.its[it].sets :
        LET reqs == setup.its[it].sets[i].reqs
        IN  reqs = NoRequirements \/ \E o \in setup.its[it].offerings : Compatible(reqs, o, WellKnownLabels)}

\* The sets that can be a source of devices: all of a node's that is yet to
\* publish its own, the available and compatible ones of a planned NodeClaim.
SetsOf(nc, it) ==
    IF nc.superposed
    THEN {i \in AvailableDynamicResources(it) : Compatible(nc.reqs, setup.its[it].sets[i].reqs, WellKnownLabels)}
    ELSE IF nc.published THEN {} ELSE DOMAIN setup.its[it].sets

ResourceSlices(nc, it) ==
    FlattenSeq([i \in DOMAIN setup.its[it].sets |->
        IF i \notin SetsOf(nc, it) THEN <<>>
        ELSE [j \in DOMAIN setup.its[it].sets[i].slices |->
                [setup.its[it].sets[i].slices[j] EXCEPT !.key = <<@, i>>] @@ [reqs |-> setup.its[it].sets[i].reqs]]])

templateDevicesByInstanceType(nc) ==
    LET Devices(s) == [j \in DOMAIN s.devices |->
                        [dev  |-> s.devices[j],
                         id   |-> [key |-> s.key, name |-> s.devices[j].name, template |-> TRUE],
                         reqs |-> IF s.reqs = NoRequirements THEN None ELSE s.reqs]]
    IN  [it \in Range(nc.its) |->
            FlattenSeq([i \in DOMAIN ResourceSlices(nc, it) |-> Devices(ResourceSlices(nc, it)[i])])]

computeTemplateTotals(slices) ==
    FoldLeft(LAMBDA acc, s : IF s.counters = None THEN acc
                             ELSE [x \in {<<s.key, c>> : c \in DOMAIN s.counters} |-> s.counters[x[2]]] @@ acc,
             <<>>, slices)

buildTemplateCounters(nc, it) ==
    IF <<nc.id, it>> \in DOMAIN tracker.left THEN tracker.left[<<nc.id, it>>]
    ELSE computeTemplateTotals(ResourceSlices(nc, it))

(***************************************************************************)
(* The claims of a pod: those that must be allocated, and the NodeClaim's  *)
(* requirements narrowed by the topology of the others.  The empty set     *)
(* when one of the others is out of the NodeClaim's reach.                 *)
(***************************************************************************)
Narrow(acc, reqs, nc) ==
    IF IsCompatible(acc.reqs, reqs, nc.superposed) THEN {[acc EXCEPT !.reqs = Add(@, reqs)]} ELSE {}

ClassifyAsSatisfied(acc, c, nc) ==
    LET status == setup.claims[c].status
    IN  IF status # None /\ claimReservedEntirelyByDeletingPods(status, setup.deleting)
        THEN {[acc EXCEPT !.unallocated = Append(@, c)]}
        ELSE IF status # None
        THEN IF status.selector = None THEN {acc} ELSE Narrow(acc, Joined(status.selector), nc)
        ELSE IF c \in DOMAIN metadata
        THEN IF metadata[c].usedTemplate THEN {acc : x \in {metadata[c].nc} \cap {nc.id}} ELSE {acc}
        ELSE {[acc EXCEPT !.unallocated = Append(@, c)]}

Classify(acc, c, nc) ==
    LET status == setup.claims[c].status
    IN  IF status # None /\ claimReservedEntirelyByDeletingPods(status, setup.deleting)
        THEN {[acc EXCEPT !.unallocated = Append(@, c)]}
        ELSE IF status # None
        THEN IF status.selector = None THEN {acc} ELSE Narrow(acc, Joined(status.selector), nc)
        ELSE IF c \in DOMAIN metadata
        THEN IF metadata[c].usedTemplate THEN {acc : x \in {metadata[c].nc} \cap {nc.id}}
             ELSE Narrow(acc, metadata[c].total, nc)
        ELSE {[acc EXCEPT !.unallocated = Append(@, c)]}

ClassifyClaims(nc, claims) ==
    FoldLeft(LAMBDA accs, c : UNION {Classify(acc, c, nc) : acc \in accs},
             {[unallocated |-> <<>>, reqs |-> nc.reqs]}, claims)

(***************************************************************************)
(* The search for one instance type.  e is what it is about: [nc, it,      *)
(* claims, templates, left]; st what it has chosen: devices, counters and  *)
(* capacity drawn, the state of the constraints, and the requirements and  *)
(* pools narrowed so far.                                                  *)
(***************************************************************************)
restoreState(e, pools, reqs) ==
    [chosen |-> <<>>, counters |-> <<>>, capacity |-> <<>>, pools |-> pools, reqs |-> reqs,
     cons |-> [c \in DOMAIN e.claims |-> [j \in DOMAIN e.claims[c].constraints |-> Unpinned]]]

RemainingFor(e, dw) == IF dw.id.template THEN e.left ELSE tracker.remaining

checkCounters(e, st, dw) ==
    \A x \in DOMAIN CountersOf(dw) :
        /\ x \in DOMAIN RemainingFor(e, dw)
        /\ RemainingFor(e, dw)[x] - At(st.counters, <<dw.id.template, x>>) >= CountersOf(dw)[x]

\* Some counter of the pool this search has drawn on is used up.
poolCountersExhausted(st, p) ==
    \E x \in DOMAIN tracker.remaining :
        /\ x[1] = p.key
        /\ <<FALSE, x>> \in DOMAIN st.counters
        /\ tracker.remaining[x] - st.counters[<<FALSE, x>>] <= 0

checkCapacity(e, st, dw, consumed) ==
    \A x \in DOMAIN CapacityOf(dw.id, consumed) :
        LET before == IF dw.id.template THEN At(Kept(tracker.usedHere, <<e.nc.id, e.it>>), x)
                      ELSE At(tracker.consumed, x) + At(tracker.inUse, x)
        IN  before + At(st.capacity, x) + consumed[x[2]] <= dw.dev.cap[x[2]].value

Obtainable(e, st, rd, dw) ==
    /\ IF dw.dev.multi
       THEN /\ CapacityUnderstood(rd.cap, dw.dev)
            /\ checkCapacity(e, st, dw, computeConsumedCapacity(rd.cap, dw.dev))
       ELSE /\ ~IsAllocated(dw.id, e.nc.id, e.it)
            /\ \A x \in Range(st.chosen) : x.dw.id # dw.id
    /\ DrawsCounters(dw) =>
          /\ ~dw.id.template => \E p \in Range(st.pools) : p.key = dw.id.key
          /\ checkCounters(e, st, dw)

ConstraintsWith(e, st, c, rd, dw) ==
    [j \in DOMAIN st.cons[c] |-> AddToConstraint(e.claims[c].constraints[j], st.cons[c][j], rd.name, dw, e.it)]

Choose(e, st, c, rd, dw) ==
    LET consumed == IF dw.dev.multi THEN computeConsumedCapacity(rd.cap, dw.dev) ELSE <<>>
        drawn == CountersOf(dw)
        reqs == IF dw.reqs = None THEN st.reqs ELSE Add(st.reqs, dw.reqs)
        added == ConstraintsWith(e, st, c, rd, dw)
    IN  [st EXCEPT !.chosen   = Append(@, [claim |-> c, dw |-> dw, consumed |-> consumed, name |-> rd.name]),
                   !.counters = Plus(@, [x \in {<<dw.id.template, y>> : y \in DOMAIN drawn} |-> drawn[x[2]]]),
                   !.capacity = Plus(@, CapacityOf(dw.id, consumed)),
                   !.cons[c]  = [j \in DOMAIN @ |-> CHOOSE x \in added[j] : TRUE],
                   !.reqs     = reqs,
                   !.pools    = IF dw.reqs = None THEN @ ELSE FilterPools(@, [e.nc EXCEPT !.reqs = reqs])]

numSlots(rd, it) == IF rd.mode = "All" THEN Len(rd.all) + Len(AllOf(rd, it)) ELSE rd.count
claimDeviceCount(st, c) == Len(SelectSeq(st.chosen, LAMBDA x : x.claim = c))

\* Published devices first, then the instance type's own.
ExactCountCandidates(e, st) ==
    FlattenSeq([i \in DOMAIN st.pools |->
        IF st.pools[i].incomplete THEN <<>>
        ELSE SelectSeq(st.pools[i].devices, LAMBDA dw : DrawsCounters(dw) => ~poolCountersExhausted(st, st.pools[i]))])
    \o e.templates[e.it]

\* The calls of dfs and tryDevice that are open, innermost first, each with the
\* alternatives it has yet to try: a device for the slot, or a way on without
\* one.  c is the claim, r its request, s the alternative of the request (0
\* before one is taken), k the devices it has.
Move(c, r, s, k) == [c |-> c, r |-> r, s |-> s, k |-> k, dw |-> None]
Take(at, dw) == [at EXCEPT !.k = @ + 1, !.dw = dw]

dfsSlot(e, st, at, rd, n) ==
    IF \/ rd.mode = "All" /\ n = 0
       \/ at.k = 0 /\ claimDeviceCount(st, at.c) + n > AllocationResultsMaxSize
    THEN <<>>
    ELSE IF at.k >= n THEN <<Move(at.c, at.r + 1, 0, 0)>>
    ELSE IF rd.mode = "All" THEN <<Take(at, (rd.all \o AllOf(rd, e.it))[at.k + 1])>>
    ELSE LET candidates == ExactCountCandidates(e, st) IN [i \in DOMAIN candidates |-> Take(at, candidates[i])]

Request(e, at) == e.claims[at.c].requests[at.r]
Complete(e, at) == at.c > Len(e.claims)

dfs(e, st, at) ==
    IF Complete(e, at) THEN <<>>
    ELSE IF at.r > Len(e.claims[at.c].requests) THEN <<Move(at.c + 1, 1, 0, 0)>>
    ELSE IF at.s = 0 THEN [s \in DOMAIN Request(e, at).asks |-> Move(at.c, at.r, s, 0)]
    ELSE dfsSlot(e, st, at, Request(e, at).asks[at.s], numSlots(Request(e, at).asks[at.s], e.it))

Enter(e, st, at, stack) == <<[st |-> st, at |-> at, options |-> dfs(e, st, at)]>> \o stack

\* m is [stack, seen]: seen are the selector verdicts, which outlive a choice
\* that is taken back.  A device that cannot be judged is not remembered.
tryDevice(e, m, st, at, rd, key) ==
    IF ~Obtainable(e, st, rd, at.dw) THEN m
    ELSE LET seen == IF key \in DOMAIN m.seen \/ DeviceMatchesSelectors(at.dw.dev, rd.sels) = "error" THEN m.seen
                     ELSE (key :> DeviceMatchesSelectors(at.dw.dev, rd.sels)) @@ m.seen
         IN  IF /\ key \in DOMAIN seen /\ seen[key] = "yes"
                /\ \A j \in DOMAIN st.cons[at.c] : ConstraintsWith(e, st, at.c, rd, at.dw)[j] # {}
                /\ at.dw.reqs # None => IsCompatible(st.reqs, at.dw.reqs, e.nc.superposed)
             THEN [stack |-> Enter(e, Choose(e, st, at.c, rd, at.dw), [at EXCEPT !.dw = None], m.stack), seen |-> seen]
             ELSE [m EXCEPT !.seen = seen]

\* One step of the search: back out of a call with nothing left to try, or try
\* the next alternative.
SearchStep(e, m, top, rest) ==
    IF top.options = <<>> THEN [m EXCEPT !.stack = rest]
    ELSE LET at == Head(top.options)
             m1 == [m EXCEPT !.stack = <<[top EXCEPT !.options = Tail(@)]>> \o rest]
         IN  IF at.dw = None THEN [m1 EXCEPT !.stack = Enter(e, top.st, at, @)]
             ELSE tryDevice(e, m1, top.st, at, Request(e, at).asks[at.s], <<at.dw.id, at.c, at.r, at.s>>)

RECURSIVE Search(_, _)
Search(e, m) ==
    IF m.stack = <<>> \/ Complete(e, Head(m.stack).at) THEN m
    ELSE Search(e, SearchStep(e, m, Head(m.stack), Tail(m.stack)))

\* The devices an All request must have leave no counter overdrawn; a device
\* of a pool with no budgets ends the examination.
allModeCountersFeasible(e, rd) ==
    LET devices == SelectSeq(rd.all \o AllOf(rd, e.it), DrawsCounters)
        Budgets(dw) == {x[1] : x \in DOMAIN RemainingFor(e, dw)}
        unknown == {i \in DOMAIN devices : devices[i].id.key \notin Budgets(devices[i])}
        known == IF unknown = {} THEN devices ELSE SubSeq(devices, 1, Min(unknown) - 1)
        Demand(template) == FoldSeq(LAMBDA dw, acc : Plus(acc, CountersOf(dw)), <<>>,
                                    SelectSeq(known, LAMBDA dw : dw.id.template = template))
        Fits(demand, budget) == \A x \in DOMAIN demand : x \in DOMAIN budget /\ demand[x] <= budget[x]
    IN  Fits(Demand(FALSE), tracker.remaining) /\ Fits(Demand(TRUE), e.left)

countersFeasible(e) ==
    \A req \in UNION {Range(cd.requests) : cd \in Range(e.claims)} :
        \E rd \in Range(req.asks) : rd.mode = "All" => allModeCountersFeasible(e, rd)

(***************************************************************************)
(* Allocate: every instance type in turn, each under the requirements the  *)
(* ones before it contributed.  late is the deadline passing while the     *)
(* last one is searched.                                                   *)
(***************************************************************************)
Env(nc, claims, templates, it) ==
    [nc |-> nc, it |-> it, claims |-> claims, templates |-> templates, left |-> buildTemplateCounters(nc, it)]

Concluded(acc, e, m) ==
    IF m.stack = <<>> THEN [acc EXCEPT !.seen = m.seen]
    ELSE LET st == Head(m.stack).st
         IN  [reqs |-> st.reqs, seen |-> m.seen, found |-> (e.it :> st) @@ acc.found]

SearchFor(acc, e, pools) ==
    IF ~countersFeasible(e) THEN acc
    ELSE Concluded(acc, e, Search(e, [stack |-> Enter(e, restoreState(e, pools, acc.reqs), Move(1, 1, 0, 0), <<>>),
                                      seen  |-> acc.seen]))

\* What the chosen devices of one claim ask of the NodeClaim.
Contributed(chosen, c) ==
    FoldLeft(LAMBDA acc, x : IF x.claim # c \/ x.dw.reqs = None THEN acc ELSE Add(acc, x.dw.reqs), NoRequirements, chosen)

ClaimMetadata(nc, found, c) ==
    LET of == [it \in DOMAIN found |-> SelectSeq(found[it].chosen, LAMBDA x : x.claim = c)]
        contributed == [it \in DOMAIN found |-> Contributed(found[it].chosen, c)]
    IN  [nc |-> nc.id, contributed |-> contributed, devices |-> of,
         total |-> FoldSet(LAMBDA it, acc : Add(acc, contributed[it]), NoRequirements, DOMAIN found),
         usedTemplate |-> \E it \in DOMAIN found : \E x \in Range(of[it]) : x.dw.id.template]

allocate(nc, reqs, pools, claims, templates, late) ==
    LET its == IF late THEN Front(nc.its) ELSE nc.its
        end == FoldLeft(LAMBDA acc, it : SearchFor(acc, Env(nc, claims, templates, it), pools),
                        [reqs |-> reqs, seen |-> <<>>, found |-> <<>>], its)
        meta == [c \in {cd.claim : cd \in Range(claims)} |->
                    ClaimMetadata(nc, end.found, CHOOSE i \in DOMAIN claims : claims[i].claim = c)]
    IN  IF end.found = <<>> THEN {}
        ELSE {[its   |-> DOMAIN end.found,
               reqs  |-> FoldSet(LAMBDA c, acc : Add(acc, meta[c].total), NoRequirements, DOMAIN meta),
               found |-> end.found, meta |-> meta,
               pools |-> FilterPools(pools, [nc EXCEPT !.reqs = end.reqs])]}

NothingToAllocate(nc, reqs) == [its |-> Range(nc.its), reqs |-> reqs, found |-> <<>>, meta |-> <<>>, pools |-> <<>>]

\* The claims' requests, or the empty set if one is refused.
Validated(unallocated, pools, templates) ==
    FoldLeft(LAMBDA accs, c : {Append(acc, cd) : acc \in accs, cd \in ValidateClaimRequest(c, setup.claims[c], pools, templates)},
             {<<>>}, unallocated)

PoolsFor(nc) == IF nc.id \in DOMAIN poolCache THEN {FilterPools(poolCache[nc.id], nc)} ELSE GatherPools(gatherResourceSlices, nc)

AllocateUnallocated(nc, cl, late) ==
    UNION {allocate(nc, cl.reqs, x.pools, claims, x.templates, late) :
              <<x, claims>> \in UNION {{<<y, cds>> : cds \in Validated(cl.unallocated, y.pools, y.templates)} :
                  y \in [pools : PoolsFor([nc EXCEPT !.reqs = cl.reqs]), templates : {templateDevicesByInstanceType(nc)}]}}

\* The results Allocate may return, none if it fails.
Allocate(nc, claims) ==
    IF claims = <<>> THEN {NothingToAllocate(nc, NoRequirements)}
    ELSE UNION {IF cl.unallocated = <<>> THEN {NothingToAllocate(nc, cl.reqs)}
                ELSE UNION {AllocateUnallocated(nc, cl, late) : late \in {FALSE} \cup {setup.slow}} :
                   cl \in ClassifyClaims(nc, claims)}

(***************************************************************************)
(* Commit and release.                                                     *)
(***************************************************************************)
Exclusive(st) == {x.dw.id : x \in {y \in Range(st.chosen) : ~y.dw.dev.multi}}
CountersDrawn(st, template) ==
    [y \in {x[2] : x \in {z \in DOMAIN st.counters : z[1] = template}} |-> st.counters[<<template, y>>]]
CapacityDrawn(st, template) == Drop(st.capacity, {x \in DOMAIN st.capacity : x[1].template # template})

CommitTracker(t, nc, found) ==
    LET exclusive == [it \in DOMAIN found |-> Exclusive(found[it])]
        counters(template) == [it \in DOMAIN found |-> CountersDrawn(found[it], template)]
        capacity(template) == [it \in DOMAIN found |-> CapacityDrawn(found[it], template)]
        totals == [it \in {i \in DOMAIN found : buildTemplateCounters(nc, i) # <<>>} |-> buildTemplateCounters(nc, it)]
        t1 == commitTemplateCounters(commitCounters(commitDevices(t, nc.id, exclusive), nc.id, counters(FALSE)),
                                     nc.id, totals, counters(TRUE))
    IN  commitTemplateCapacity(commitCapacity(t1, nc.id, capacity(FALSE)), nc.id, capacity(TRUE))

\* What Commit refuses to overwrite: it panics.
AlreadyCommitted(nc, result) ==
    \/ DOMAIN result.meta \cap DOMAIN metadata # {}
    \/ \E it \in DOMAIN result.found : \E id \in Exclusive(result.found[it]) : IsAllocated(id, nc.id, it)

releaseMetadata(meta, nc, its) ==
    LET Released(m) ==
            IF m.nc # nc \/ its = {} THEN m
            ELSE LET left == Drop(m.contributed, its)
                     stale == \E it \in its \cap DOMAIN m.contributed : m.contributed[it] # NoRequirements
                 IN  [m EXCEPT !.contributed = left, !.devices = Drop(@, its),
                               !.total = IF stale THEN FoldSet(LAMBDA it, acc : Add(acc, left[it]), NoRequirements, DOMAIN left)
                                         ELSE @]
    IN  [c \in DOMAIN meta |-> Released(meta[c])]

\* Commit, then the release of the instance types that other checks pruned.
CommitAndRelease(nc, result, pruned) ==
    IF result.found = <<>> THEN UNCHANGED <<tracker, poolCache, metadata, panicked>>
    ELSE /\ panicked' = AlreadyCommitted(nc, result)
         /\ tracker' = LET t == CommitTracker(tracker, nc, result.found)
                       IN  IF pruned = {} THEN t ELSE ReleaseInstanceTypes(t, nc.id, pruned)
         /\ poolCache' = (nc.id :> result.pools) @@ poolCache
         /\ metadata' = releaseMetadata(result.meta @@ metadata, nc.id, pruned)

(***************************************************************************)
(* The scheduler.  A pod is tried on any node or NodeClaim: the order it   *)
(* tries them in, and its other checks, are Scheduler's; here they are     *)
(* the choice of the target and of the instance types that pass.           *)
(***************************************************************************)
NodeClaims == {x \in DOMAIN planned : planned[x].superposed}
Adapter(id, target, reqs) ==
    [id |-> id, node |-> target.node, reqs |-> reqs, superposed |-> target.superposed,
     published |-> target.published, its |-> target.its]

\* addToNewNodeClaim: a NodeClaim from a NodePool's template.
NewNodeClaim(np) ==
    [node |-> None, reqs |-> setup.nodePools[np].reqs, its |-> setup.nodePools[np].its,
     superposed |-> TRUE, published |-> FALSE, pods |-> {}]

\* Add of a NodeClaim being planned, once its other checks left final.
AddToNodeClaim(p, nc, target, result, reqs, final) ==
    /\ planned' = (nc.id :> [target EXCEPT !.pods = @ \cup {p}, !.reqs = reqs,
                                           !.its = SelectSeq(@, LAMBDA it : it \in final)]) @@ planned
    /\ CommitAndRelease(nc, result, result.its \ final)

\* Add of a node: its labels are what they are.
AddToExistingNode(p, nc, result) ==
    /\ planned' = [planned EXCEPT ![nc.id].pods = @ \cup {p}, ![nc.id].reqs = Add(@, setup.pods[p].reqs)]
    /\ CommitAndRelease(nc, result, {})

\* CanAdd of either, then Add.
TryTarget(p, id, target) ==
    \E merged \in {Add(target.reqs, setup.pods[p].reqs)} :
    \E nc \in {Adapter(id, target, IF target.superposed THEN merged ELSE target.reqs)} :
        /\ IsCompatible(target.reqs, setup.pods[p].reqs, target.superposed)
        /\ \E result \in Allocate(nc, setup.pods[p].claims) :
              \/ /\ target.superposed
                 /\ Compatible(merged, result.reqs, WellKnownLabels)
                 /\ \E final \in SUBSET result.its \ {{}} :
                       AddToNodeClaim(p, nc, target, result, Add(merged, result.reqs), final)
              \/ ~target.superposed /\ AddToExistingNode(p, nc, result)

\* The nodes, the NodeClaims in flight, and a new one from each NodePool.
Targets ==
    {[id |-> n, target |-> planned[n]] : n \in DOMAIN planned}
    \cup {[id |-> Hostnames[1 + Cardinality(NodeClaims)], target |-> NewNodeClaim(np)] :
             np \in {x \in DOMAIN setup.nodePools : Cardinality(NodeClaims) < Len(Hostnames)}}

Unplaced == UNCHANGED <<tracker, poolCache, metadata, planned, panicked>>

Place ==
    /\ queue # <<>> /\ ~panicked
    /\ \/ \E t \in Targets : TryTarget(Head(queue), t.id, t.target)
       \/ Unplaced
    /\ queue' = Tail(queue)
    /\ UNCHANGED setup

(***************************************************************************)
(* The loop starts with the nodes it knows, and with the devices that the  *)
(* claims of the cluster hold but for the pods that are leaving.           *)
(***************************************************************************)
Allocated == {c \in DOMAIN setup.claims : setup.claims[c].status # None}
AllocatedDevices ==
    LET meta == [c \in Allocated |-> claimMetadataOf(setup.claims[c].status)]
        Claims(d) == {c \in Allocated : d \in DOMAIN meta[c].contributions}
    IN  [d \in UNION {DOMAIN meta[c].contributions : c \in Allocated} |-> computeDeviceMetadata(d, Claims(d), meta)]

Anywhere == [id |-> None, node |-> None, reqs |-> NoRequirements, superposed |-> TRUE, published |-> FALSE, its |-> <<>>]
AllPools == CHOOSE pools \in GatherPools(gatherResourceSlices, Anywhere) : TRUE

NewAllocator ==
    LET seed == gatherAllocatedDevices(AllocatedDevices, setup.deleting)
        consumed == FoldSet(LAMBDA d, acc : CapacityOf(d, seed.consumed[d]) @@ acc, <<>>, DOMAIN seed.consumed)
    IN  NewAllocationTracker(seed.exclusive, consumed, AllPools)

NewExistingNode(n) ==
    [node |-> n, reqs |-> setup.nodes[n].reqs, its |-> <<setup.nodes[n].it>>, superposed |-> FALSE,
     published |-> setup.nodes[n].initialized, pods |-> {}]

InitFrom(S) ==
    /\ setup \in S
    /\ tracker = NewAllocator
    /\ poolCache = <<>>
    /\ metadata = <<>>
    /\ planned = [n \in DOMAIN setup.nodes |-> NewExistingNode(n)]
    /\ queue = setup.batch
    /\ panicked = FALSE

Init == InitFrom(Setups)

Next == Place

Spec == Init /\ [][Next]_vars

(***************************************************************************)
(* Properties.                                                             *)
(***************************************************************************)
\* The claims that keep their devices whatever this loop decides.
Live == {c \in Allocated : ~claimReservedEntirelyByDeletingPods(setup.claims[c].status, setup.deleting)}
LiveHeld ==
    UNION {LET results == setup.claims[c].status.results
           IN  {[claim |-> c, i |-> i, r |-> results[i]] : i \in DOMAIN results} : c \in Live}

\* What instance types the planned NodeClaims may turn out to be.
Collapses ==
    {f \in [DOMAIN planned -> UNION {Range(planned[n].its) : n \in DOMAIN planned}] :
        \A n \in DOMAIN planned : f[n] \in Range(planned[n].its)}

\* The devices the claims of this loop then hold.
Held(f) ==
    UNION {LET m == metadata[c] IN {[claim |-> c, nc |-> m.nc, i |-> i, x |-> m.devices[f[m.nc]][i]] :
                                        i \in DOMAIN m.devices[f[m.nc]]} : c \in DOMAIN metadata}

SumOver(S, Amounts(_)) == FoldSet(LAMBDA h, acc : Plus(acc, Amounts(h)), <<>>, S)

PublishedDevices == UNION {Range(p.devices \o p.nonTargeting) : p \in Range(AllPools)}

\* Whichever of its instance types each NodeClaim is launched as, no exclusive
\* device is held twice, by claims placed in this loop or by claims that stay
\* where they are, no counter is overdrawn and no device gives more capacity
\* than it has: the tracker's pessimistic bookkeeping is enough.
EveryCollapseFits ==
    \A f \in Collapses :
        LET held == Held(f)
            published == {h \in held : ~h.x.dw.id.template}
            liveDevices == {dw \in PublishedDevices : \E l \in LiveHeld : l.r.id = dw.id}
            counters == SumOver({h.x.dw : h \in published} \cup liveDevices, CountersOf)
            capacity == Plus(SumOver(published, LAMBDA h : CapacityOf(h.x.dw.id, h.x.consumed)),
                             SumOver(LiveHeld, LAMBDA l : CapacityOf(l.r.id, l.r.consumed)))
            budget == InitRemainingCounters(AllPools, {})
        IN  /\ \A g, h \in held : g # h /\ g.x.dw.id = h.x.dw.id /\ ~g.x.dw.dev.multi => g.x.dw.id.template /\ g.nc # h.nc
            /\ \A h \in published : h.x.dw.dev.multi \/ \A l \in LiveHeld : l.r.id # h.x.dw.id
            /\ \A y \in DOMAIN counters : counters[y] <= At(budget, y)
            /\ \A h \in published : \A d \in DOMAIN h.x.consumed : capacity[<<h.x.dw.id, d>>] <= h.x.dw.dev.cap[d].value
            /\ \A n \in DOMAIN planned :
                  LET here == {h \in held : h.nc = n /\ h.x.dw.id.template}
                      drawn == SumOver({h.x.dw : h \in here}, CountersOf)
                      used == SumOver(here, LAMBDA h : CapacityOf(h.x.dw.id, h.x.consumed))
                      total == computeTemplateTotals(ResourceSlices(Adapter(n, planned[n], planned[n].reqs), f[n]))
                  IN  /\ \A y \in DOMAIN drawn : drawn[y] <= At(total, y)
                      /\ \A h \in here : \A d \in DOMAIN h.x.consumed : used[<<h.x.dw.id, d>>] <= h.x.dw.dev.cap[d].value

Within(reqs, wanted) == \A k \in DOMAIN wanted : \A v \in Values : Has(Get(reqs, k), v) => Has(wanted[k], v)

MeetsRequest(req, chosen) ==
    \E ask \in Range(req.asks) :
        LET name == IF req.first THEN <<req.name, ask.name>> ELSE <<req.name>>
            mine == SelectSeq(chosen, LAMBDA x : x.name = name)
        IN  /\ IF ask.mode = "All" THEN mine # <<>> ELSE Len(mine) = ask.count
            /\ \A x \in Range(mine) : DeviceMatchesSelectors(x.dw.dev, Selectors(ask)) = "yes"

MeetsConstraint(con, chosen, it) ==
    LET mine == {x \in Range(chosen) : appliesTo(con, x.name)}
    IN  \/ \A x, y \in mine : con.attr \in DOMAIN x.dw.dev.attrs \cap DOMAIN y.dw.dev.attrs
                              /\ x.dw.dev.attrs[con.attr] = y.dw.dev.attrs[con.attr]
        \/ \E g \in BuildAttributeBindings(it, con.attr) : \A x \in mine : x.dw.id \in g

\* A claim placed in this loop has, for every instance type its NodeClaim may
\* still be launched as, devices that answer each request with the number and
\* kind asked for, that agree on the attributes its constraints name, and that
\* every node the NodeClaim's requirements allow can reach.  A pod that shares
\* the claim is where those devices can be reached.
ClaimsSatisfied ==
    /\ \A c \in DOMAIN metadata : \A it \in Range(planned[metadata[c].nc].its) :
          /\ it \in DOMAIN metadata[c].devices
          /\ \A req \in Range(setup.claims[c].requests) : MeetsRequest(req, metadata[c].devices[it])
          /\ \A con \in Range(setup.claims[c].constraints) : MeetsConstraint(con, metadata[c].devices[it], it)
    /\ \A n \in DOMAIN planned : \A p \in planned[n].pods : \A c \in Range(setup.pods[p].claims) \cap DOMAIN metadata :
          \A it \in Range(planned[metadata[c].nc].its) : \A x \in Range(metadata[c].devices[it]) :
              /\ x.dw.id.template => n = metadata[c].nc
              /\ x.dw.reqs # None => Within(planned[n].reqs, x.dw.reqs)

\* The budgets every search starts from are exactly what the claims recorded
\* so far leave: the total, less what the claims that stay hold, less the most
\* each NodeClaim may draw.  Neither a commit nor a release loses any of it.
BudgetsMatchClaims ==
    LET Drawn(n, it, Amounts(_)) ==
            SumOver(UNION {LET xs == metadata[c].devices[it]
                           IN  {[c |-> c, i |-> i, x |-> xs[i]] : i \in {j \in DOMAIN xs : ~xs[j].dw.id.template}} :
                              c \in {d \in DOMAIN metadata : metadata[d].nc = n /\ it \in DOMAIN metadata[d].devices}}, Amounts)
        ITs(n) == UNION {DOMAIN metadata[c].devices : c \in {d \in DOMAIN metadata : metadata[d].nc = n}}
        Most(n, y, Amounts(_)) == Max({0} \cup {At(Drawn(n, it, Amounts), y) : it \in ITs(n)})
        Counters(y) == SumOver(DOMAIN planned, LAMBDA n : ("all" :> Most(n, y, LAMBDA h : CountersOf(h.x.dw))))
        Capacity(y) == SumOver(DOMAIN planned, LAMBDA n : ("all" :> Most(n, y, LAMBDA h : CapacityOf(h.x.dw.id, h.x.consumed))))
        seed == NewAllocator
    IN  /\ \A y \in DOMAIN tracker.remaining : tracker.remaining[y] = seed.remaining[y] - At(Counters(y), "all")
        /\ \A y \in DOMAIN tracker.inUse : tracker.inUse[y] = At(Capacity(y), "all")
        /\ \A id \in DOMAIN tracker.inflight : \A it \in tracker.inflight[id].its :
              \E c \in DOMAIN metadata : /\ metadata[c].nc = tracker.inflight[id].nc
                                         /\ it \in DOMAIN metadata[c].devices
                                         /\ \E x \in Range(metadata[c].devices[it]) : x.dw.id = id

\* A claim is committed once: the loop never reaches the panic of Commit.
CommittedOnce == ~panicked
=================================================================================
