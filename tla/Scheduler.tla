------------------------------- MODULE Scheduler -------------------------------
(***************************************************************************)
(* provisioning/scheduling's Solve: the simulation that decides, for one   *)
(* batch of pods, which go to nodes that exist, which NodeClaims to create *)
(* for the others and which cannot be scheduled.  Pods are tried in turn;  *)
(* one that fits nowhere has its preferences relaxed, and goes back to the *)
(* queue when there is nothing left to relax.                              *)
(*                                                                         *)
(* env is what one Solve is given: the batch, the NodePools by weight, the *)
(* instance types, the nodes and the pods bound to them, the DaemonSets    *)
(* and the policies.  It never changes.  Its nodes are in the order        *)
(* sortExistingNodes leaves them in.  Every amount of resources is one     *)
(* number.                                                                 *)
(***************************************************************************)
EXTENDS Topology, InstanceTypes

CONSTANTS
    Scenarios,           \* the inputs of Solve the model starts from
    PreferNoSchedule,    \* the taints with that effect
    InstanceType,        \* the label node.kubernetes.io/instance-type
    NewHosts,            \* the placeholder host names of new NodeClaims, in order
    MaxInstanceTypes     \* instance types a NodeClaim lists at most

VARIABLES
    env,
    world,               \* what NewTopology and NewScheduler derive from env
    queue, lastLen,      \* Queue: the pods left, the length each was last pushed at
    cur,                 \* the pod trySchedule works on, None between two
    forms,               \* each pod as last relaxed (the DeepCopy trySchedule owns)
    errors,              \* podErrors
    topo,                \* Topology
    existing, claims,    \* existingNodes, newNodeClaims
    remaining,           \* remainingResources of each NodePool
    manager,             \* ReservationManager
    minRelaxed,          \* the minValues annotation, a map all claims of a pool share
    phase, timedOut      \* "solve", "solved" or "created"; Solve hit its deadline

vars == <<env, world, queue, lastLen, cur, forms, errors, topo, existing, claims, remaining, manager,
          minRelaxed, phase, timedOut>>

Pods == DOMAIN env.batch
Types == env.types
Template(c) == world.templates[c.pool]

(***************************************************************************)
(* PodData: what a pod requires, with the heaviest preferred node affinity *)
(* term unless preferences are ignored, and without it (the domains of a   *)
(* spread are never narrowed by a preference).                             *)
(***************************************************************************)
StrictRequirements(p) == Add(p.selector, IF p.terms = <<>> THEN NoRequirements ELSE Head(p.terms))
PodRequirements(p) ==
    Add(StrictRequirements(p), IF env.policy = "Ignore" \/ p.prefs = <<>> THEN NoRequirements ELSE Head(p.prefs))

UpdateTopology(t, id, p) ==
    Update(t, world.domains, Range(env.nodes), env.bound, env.policy, id, p)

(***************************************************************************)
(* Host ports: [ip, port], ip "any" for an unspecified address.            *)
(***************************************************************************)
PortMatches(a, b) == a.port = b.port /\ (a.ip = b.ip \/ "any" \in {a.ip, b.ip})
Conflicts(used, ports) == \E a \in used, b \in ports : PortMatches(a, b)

(***************************************************************************)
(* ReservationManager: how many slots each reservation has left, and which *)
(* reservations each host holds.                                           *)
(***************************************************************************)
ReservedOfferings(types) == {o \in UNION {it.offerings : it \in Range(types)} : IsReserved(o)}
ReservationOf(o) == Only(o, ReservationID)

NewReservationManager(types, credit) ==
    LET ofs == ReservedOfferings(types)
        ids == {ReservationOf(o) : o \in ofs}
    IN  [capacity |-> [r \in ids |-> Min({o.left : o \in {x \in ofs : ReservationOf(x) = r}})
                                     + IF r \in DOMAIN credit THEN credit[r] ELSE 0],
         held     |-> <<>>]

Held(m, host) == IF host \in DOMAIN m.held THEN m.held[host] ELSE {}
CanReserve(m, host, r) == r \in Held(m, host) \/ m.capacity[r] > 0

RereserveWithoutRelease(m, host, ids) ==
    [capacity |-> [r \in DOMAIN m.capacity |-> m.capacity[r] - (IF r \in ids \ Held(m, host) THEN 1 ELSE 0)],
     held     |-> (host :> ids) @@ m.held]

\* Add's calls of Reserve and releaseReservedOfferings: the host now holds ids.
Rereserve(m, host, ids) ==
    [capacity |-> [r \in DOMAIN m.capacity |->
                      m.capacity[r] - (IF r \in ids \ Held(m, host) THEN 1 ELSE 0)
                                    + (IF r \in Held(m, host) \ ids THEN 1 ELSE 0)],
     held     |-> (host :> ids) @@ m.held]

(***************************************************************************)
(* Daemons.  isDaemonPodCompatible drops the required affinity terms it    *)
(* finds incompatible from the pod itself, and the pod is shared: later    *)
(* instance types, pools and nodes see only the terms that are left.       *)
(***************************************************************************)
daemonTry(np, it, d) ==
    LET ok(r) == Compatible(np.reqs, r, WellKnownLabels) /\ Intersects(it.reqs, r)
        hits == {i \in DOMAIN d.terms : ok(Add(d.selector, d.terms[i]))}
        drop(n) == [d EXCEPT !.terms = SubSeq(@, n, Len(@)), !.tol = @ \cup PreferNoSchedule]
    IN  IF ~Tolerates(d.tol \cup PreferNoSchedule, np.taints)
            THEN [ok |-> FALSE, daemon |-> drop(1)]
        ELSE IF d.terms = <<>> THEN [ok |-> ok(d.selector), daemon |-> drop(1)]
        ELSE IF hits = {} THEN [ok |-> FALSE, daemon |-> drop(Len(d.terms))]
        ELSE [ok |-> TRUE, daemon |-> drop(Min(hits))]

\* The compatible daemons of every instance type of every pool, in the order
\* they are asked for, and the daemons as that leaves them.
daemonWalk(pools, types, daemons) ==
    LET steps == FlattenSeq([i \in DOMAIN pools |->
                     [j \in 1..Cardinality(pools[i].its) |-> <<i, SetToSortSeq(pools[i].its, <)[j]>>]])
        Step(x, acc) ==
            LET tries == [k \in DOMAIN acc.daemons |->
                             daemonTry(pools[x[1]], types[x[2]], acc.daemons[k])]
            IN  [compatible |-> [y \in DOMAIN acc.compatible \cup {x} |->
                                   IF y = x THEN {k \in DOMAIN tries : tries[k].ok} ELSE acc.compatible[y]],
                 daemons    |-> [k \in DOMAIN tries |-> tries[k].daemon]]
    IN  FoldLeft(LAMBDA acc, x : Step(x, acc), [compatible |-> <<>>, daemons |-> daemons], steps)

\* The requests and host ports of a group of daemons.
Overhead(ks) == FoldSet(LAMBDA k, sum : sum + world.daemons[k].cpu, 0, ks)
DaemonPorts(ks) == UNION {world.daemons[k].ports : k \in ks}
DaemonsOn(i, it) == world.compatible[<<i, it>>]

(***************************************************************************)
(* CanAdd.  Each attempt yields the SET of results the map orders allow:   *)
(* err is "" when the pod can be added, "reserved" for a                   *)
(* ReservedOfferingError and "other" for any other error.                  *)
(***************************************************************************)
Fail(kind) == [err |-> kind, reqs |-> NoRequirements, its |-> {}, ids |-> {}]

\* Attempts made in order, as a set of [at, res]: whether the i-th is reached, and
\* how they can end.
Reached(tries, i) == \A j \in 1..(i - 1) : \E t \in tries : t.at = j /\ t.res.err # ""
FirstThatWorks(tries, n) ==
    {t.res : t \in {t \in tries : Reached(tries, t.at) /\ (t.res.err = "" \/ t.at = n)}}

(***************************************************************************)
(* Volume topology: each term of a volume is an alternative, and those of  *)
(* several volumes are combined, leaving out what cannot hold together     *)
(* unless nothing would be left.  A local volume does not pin the hostname.*)
(***************************************************************************)
getRequirements(v) ==
    LET terms == SelectSeq(v.terms, LAMBDA t : t # NoRequirements)
    IN  IF v.local THEN [i \in DOMAIN terms |-> Restrict(terms[i], DOMAIN terms[i] \ {Hostname})] ELSE terms

mergeVolumeRequirementAlternatives(alts, volAlts) ==
    LET pairs == [i \in 1..(Len(alts) * Len(volAlts)) |->
                     <<alts[((i - 1) \div Len(volAlts)) + 1], volAlts[((i - 1) % Len(volAlts)) + 1]>>]
        agree == SelectSeq(pairs, LAMBDA x : Intersects(x[1], x[2]))
        kept == IF agree = <<>> THEN pairs ELSE agree
    IN  [i \in DOMAIN kept |-> Add(kept[i][1], kept[i][2])]

VolumeAlternatives(p) ==
    FoldLeft(LAMBDA alts, v : IF getRequirements(v) = <<>> THEN alts
                              ELSE mergeVolumeRequirementAlternatives(alts, getRequirements(v)),
             <<NoRequirements>>, p.volumes)

\* rs narrowed by what the topology answered, where the two agree.
Narrowed(rs, tight, undefined) ==
    LET good == {t \in tight : Compatible(rs, t, undefined)}
    IN  {[Fail("") EXCEPT !.reqs = Add(rs, t)] : t \in good}
        \cup IF tight = {} \/ tight # good THEN {Fail("other")} ELSE {}

\* Narrow the node by the volume alternative v and by the topology.
tryVolumeAlternative(id, p, taints, base, v, undefined) ==
    LET Tighten(rs) == Narrowed(rs, AddRequirements(topo, id, p, taints, StrictRequirements(p), rs), undefined)
    IN  IF Compatible(base, v, undefined) THEN Tighten(Add(base, v)) ELSE {Fail("other")}

TryAll(alts, Try(_)) == UNION {{[at |-> i, res |-> r] : r \in Try(i)} : i \in alts}

ExceedsLimits(n, vols) == n.limit # None /\ Cardinality(n.vols \cup vols) > n.limit

ExistingCanAdd(n, id, p) ==
    LET alts == VolumeAlternatives(p)
        Try(i) == tryVolumeAlternative(id, p, n.taints, Add(n.reqs, PodRequirements(p)), alts[i], {})
    IN  IF /\ Tolerates(p.tol, n.taints)
           /\ ~ExceedsLimits(n, p.vols)
           /\ ~Conflicts(n.ports, p.ports)
           /\ p.cpu <= n.left
           /\ Compatible(n.reqs, PodRequirements(p), {})
        THEN FirstThatWorks(TryAll(DOMAIN alts, Try), Len(alts))
        ELSE {Fail("other")}

FilterWithoutDaemons(i, its, reqs, used, ports, total) ==
    {it \in its : ~Conflicts(used, ports) /\ compatible(Types[it], reqs) /\ fits(Types[it], total, reqs)}

\* filterInstanceTypesByRequirements, for each group of instance types with the
\* same daemons.
Filter(i, its, reqs, used, ports, total) ==
    {it \in its :
        /\ ~Conflicts(used \cup DaemonPorts(DaemonsOn(i, it)), ports)
        /\ compatible(Types[it], reqs)
        /\ fits(Types[it], total + Overhead(DaemonsOn(i, it)), reqs)}

\* offeringsToReserve: which reservations the claim would hold.
offeringsToReserve(c, its, reqs) ==
    LET ofs == UNION {CompatibleOfferings(Available(Types[it].offerings), reqs) : it \in its}
        Credited(o) == ReservationOf(o) \in DOMAIN env.credit /\ env.credit[ReservationOf(o)] > 0
        withCapacity == {o \in ofs : IsReserved(o) /\ (o.left > 0 \/ Credited(o))}
        fallback == {o \in ofs : ~IsReserved(o)}
        ids == {r \in {ReservationOf(o) : o \in withCapacity} : CanReserve(manager, c.host, r)}
        strict == env.mode = "Strict"
    IN  IF strict /\ withCapacity # {} /\ ids = {} THEN Fail("reserved")
        ELSE IF withCapacity = {} /\ fallback = {} /\ ofs # {} THEN Fail("other")
        ELSE IF strict /\ c.ids # {} /\ ids = {} THEN Fail("reserved")
        ELSE [err |-> "", reqs |-> reqs, its |-> its, ids |-> ids]

\* The minValues the instance types left do not reach, lowered if that is allowed.
MinValuesMet(c, left, unmet, rs, relax) ==
    LET lowered == [k \in unmet |-> WithMinValues(rs[k], Cardinality(Offered(Types, left, rs, k)))] @@ rs
    IN  IF left = {} \/ (unmet # {} /\ ~relax) THEN Fail("other") ELSE offeringsToReserve(c, left, lowered)

filterInstanceTypesByVolumeAttachmentLimits(its, vols) ==
    {it \in its : Types[it].vols # None => Cardinality(vols) <= Types[it].vols}

CanAdd(c, id, p, relaxMinValues) ==
    LET its == IF p.vols = {} THEN c.its ELSE filterInstanceTypesByVolumeAttachmentLimits(c.its, c.vols \cup p.vols)
        ports == UNION {forms[q].ports : q \in c.pods}
        Met(rs, left) == MinValuesMet(c, left, UnsatisfiedMinValues(Types, left, rs), rs, relaxMinValues)
        Then(rs) == Met(rs, Filter(c.pool, its, rs, ports, p.ports, c.requests + p.cpu))
        alts == VolumeAlternatives(p)
        Try(i) == {IF r.err = "" THEN Then(r.reqs) ELSE r :
                      r \in tryVolumeAlternative(id, p, Template(c).taints, Add(c.reqs, PodRequirements(p)), alts[i],
                                                 WellKnownLabels)}
    IN  IF /\ Tolerates(p.tol, Template(c).taints)
           /\ its # {}
           /\ Compatible(c.reqs, PodRequirements(p), WellKnownLabels)
        THEN FirstThatWorks(TryAll(DOMAIN alts, Try), Len(alts))
        ELSE {Fail("other")}

(***************************************************************************)
(* The NodeClaim a NodePool would add, within what its limits leave.       *)
(***************************************************************************)
filterByRemainingResources(its, limit) ==
    {it \in its : /\ limit.cpu # None => Types[it].cap <= limit.cpu
                 /\ limit.nodes # None => limit.nodes >= 0}

NewNodeClaim(i) ==
    LET host == NewHosts[Len(claims) + 1]
        np == world.templates[i]
    IN  [pool |-> i, host |-> host, pods |-> {}, its |-> filterByRemainingResources(np.its, remaining[i]),
         reqs |-> Add(np.reqs, [k \in {Hostname} |-> In({host})]),
         requests |-> 0, vols |-> {}, ids |-> {}, state |-> "open"]

NewCanAdd(i, id, p) ==
    IF remaining[i].nodes = 0 THEN {Fail("other")}
    ELSE CanAdd(NewNodeClaim(i), id, p, env.minPolicy = "BestEffort")

\* Only the resources an instance type's capacity names shrink: "nodes" is none.
subtractMax(limit, its) ==
    [limit EXCEPT !.cpu = IF @ = None THEN None ELSE @ - Max({Types[it].cap : it \in its})]

MinValuesRelaxed(c, rs) ==
    \E k \in DOMAIN c.reqs : c.reqs[k].min # None /\ rs[k].min # None /\ rs[k].min < c.reqs[k].min

(***************************************************************************)
(* Preferences.Relax: give up one soft constraint, in this order.          *)
(***************************************************************************)
AnywaySpreads(p) == {i \in DOMAIN p.spread : p.spread[i].anyway}

\* The removed constraint's place is taken by the last one.
removeTopologySpreadScheduleAnyway(p) ==
    LET n == Len(p.spread)
        i == Min(AnywaySpreads(p))
    IN  [p EXCEPT !.spread = SubSeq([p.spread EXCEPT ![i] = p.spread[n]], 1, n - 1)]

toleratePreferNoSchedule == \E i \in DOMAIN env.pools : env.pools[i].taints \cap PreferNoSchedule # {}

CanRelax(p) ==
    \/ Len(p.terms) > 1 \/ p.prefAff # <<>> \/ p.prefAnti # <<>> \/ p.prefs # <<>>
    \/ AnywaySpreads(p) # {}
    \/ toleratePreferNoSchedule /\ ~(PreferNoSchedule \subseteq p.tol)

Relax(p) ==
    IF Len(p.terms) > 1 THEN [p EXCEPT !.terms = Tail(@)]
    ELSE IF p.prefAff # <<>> THEN [p EXCEPT !.prefAff = Tail(@)]
    ELSE IF p.prefAnti # <<>> THEN [p EXCEPT !.prefAnti = Tail(@)]
    ELSE IF p.prefs # <<>> THEN [p EXCEPT !.prefs = Tail(@)]
    ELSE IF AnywaySpreads(p) # {} THEN removeTopologySpreadScheduleAnyway(p)
    ELSE [p EXCEPT !.tol = @ \cup PreferNoSchedule]

(***************************************************************************)
(* NewTopology and NewScheduler.                                           *)
(***************************************************************************)
\* The pools that have an instance type left, each with those it has.
NewTemplates(e) ==
    LET Left(np) == {it \in np.its : /\ compatible(e.types[it], np.reqs)
                                     /\ fits(e.types[it], 0, np.reqs)}
        Kept(np) == IF e.minPolicy = "BestEffort" \/ SatisfiesMinValues(e.types, Left(np), np.reqs)
                    THEN Left(np) ELSE {}
    IN  SelectSeq([i \in DOMAIN e.pools |-> [e.pools[i] EXCEPT !.its = Kept(e.pools[i])]],
                  LAMBDA np : np.its # {})

NewWorld(e) ==
    LET World(templates, walk) == [templates |-> templates, compatible |-> walk.compatible, daemons |-> walk.daemons,
                                   domains |-> buildDomainGroups(e.pools, e.types)]
        From(templates) == World(templates, daemonWalk(templates, e.types, e.daemons))
    IN  From(NewTemplates(e))

\* updateInverseAffinities, then Update for every pod of the batch.
NewTopology(e, w) ==
    FoldLeft(LAMBDA t, id : Update(t, w.domains, Range(e.nodes), e.bound, e.policy, id, e.batch[id]),
             updateInverseAffinities([groups |-> <<>>, inverse |-> <<>>], w.domains, e.bound),
             [i \in DOMAIN e.batch |-> i])

\* NewExistingNode: what the node has left once its daemons all run.
NewExistingNode(w, n) ==
    LET mine == {k \in DOMAIN w.daemons :
                    /\ Tolerates(w.daemons[k].tol, n.taints)
                    /\ Compatible(NewLabelRequirements(n.labels), StrictRequirements(w.daemons[k]), {})}
        owed == FoldSet(LAMBDA k, sum : sum + w.daemons[k].cpu, 0, mine) - n.daemonRequests
    IN  [name |-> n.name, taints |-> n.taints, pods |-> {}, ports |-> n.ports, vols |-> n.vols, limit |-> n.limit,
         under |-> n.under, left |-> n.available - (IF owed < 0 THEN 0 ELSE owed),
         reqs |-> Add(NewLabelRequirements(n.labels), [k \in {Hostname} |-> In({n.name})])]

\* updateRemainingResources, for every node of a pool.
Remaining(e, np) ==
    LET mine == {i \in DOMAIN e.nodes : e.nodes[i].pool = np.name}
        Used == FoldSet(LAMBDA i, sum : sum + e.nodes[i].cap, 0, mine)
    IN  [cpu   |-> IF np.limit.cpu = None THEN None ELSE np.limit.cpu - Used,
         nodes |-> IF np.limit.nodes = None THEN None ELSE np.limit.nodes - Cardinality(mine)]

\* byCPUAndMemoryDescending; pods are numbered by creation time and UID.
NewQueue(batch) ==
    SetToSortSeq(DOMAIN batch, LAMBDA a, b : batch[a].cpu > batch[b].cpu \/ (batch[a].cpu = batch[b].cpu /\ a < b))

InitFrom(S) ==
    /\ env \in S
    /\ world = NewWorld(env)
    /\ queue = NewQueue(env.batch)
    /\ lastLen = [id \in Pods |-> 0]
    /\ cur = None
    /\ forms = env.batch
    /\ errors = {}
    /\ existing = [i \in DOMAIN env.nodes |-> NewExistingNode(world, env.nodes[i])]
    /\ topo = FoldLeft(LAMBDA t, n : RegisterHost(t, n.name), NewTopology(env, world), env.nodes)
    /\ claims = <<>>
    /\ remaining = [i \in DOMAIN world.templates |-> Remaining(env, world.templates[i])]
    /\ manager = NewReservationManager(env.types, env.credit)
    /\ minRelaxed = [i \in DOMAIN world.templates |-> FALSE]
    /\ phase = "solve" /\ timedOut = FALSE

Init == InitFrom(Scenarios)

(***************************************************************************)
(* Solve.                                                                  *)
(***************************************************************************)
\* Cycled: the pod was last pushed when the queue was as long as it is now, so
\* no pod was placed since.
Cycled == lastLen[Head(queue)] = Len(queue)

PopWithoutCheck ==
    /\ phase = "solve" /\ cur = None /\ queue # <<>>
    /\ cur' = Head(queue)
    /\ queue' = Tail(queue)
    /\ UNCHANGED <<env, world, lastLen, forms, errors, topo, existing, claims, remaining, manager, minRelaxed,
                   phase, timedOut>>

Pop ==
    /\ phase = "solve" /\ cur = None /\ queue # <<>> /\ ~Cycled
    /\ cur' = Head(queue)
    /\ queue' = Tail(queue)
    /\ UNCHANGED <<env, world, lastLen, forms, errors, topo, existing, claims, remaining, manager, minRelaxed,
                   phase, timedOut>>

PlacedKeepingError == cur' = None /\ UNCHANGED errors

Placed == cur' = None /\ errors' = errors \ {cur}

AddToExistingNode(i, r) ==
    LET n == existing[i]
        p == forms[cur]
    IN  /\ existing' = [existing EXCEPT ![i] = [n EXCEPT !.pods = @ \cup {cur}, !.left = @ - p.cpu, !.reqs = r.reqs,
                                                  !.ports = @ \cup p.ports, !.vols = @ \cup p.vols]]
        /\ topo' = Record(topo, cur, p, n.taints, r.reqs)
        /\ Placed
        /\ UNCHANGED <<claims, remaining, manager, minRelaxed>>

\* NodeClaim.Add: c with the pod, what it holds and what the topology records.
Added(c, r) == [c EXCEPT !.pods = @ \cup {cur}, !.its = r.its, !.reqs = r.reqs, !.vols = @ \cup forms[cur].vols,
                         !.requests = @ + forms[cur].cpu, !.ids = r.ids]
AddTo(c, r) ==
    /\ topo' = Record(RegisterHost(topo, c.host), cur, forms[cur], Template(c).taints, r.reqs)
    /\ manager' = Rereserve(manager, c.host, r.ids)
    /\ Placed
    /\ UNCHANGED existing

AddToInflightNode(i, r) ==
    /\ claims' = [claims EXCEPT ![i] = Added(@, r)]
    /\ AddTo(claims[i], r)
    /\ UNCHANGED <<remaining, minRelaxed>>

AddToNewNodeClaim(i, r) ==
    LET c == NewNodeClaim(i)
    IN  /\ claims' = Append(claims, Added(c, r))
        /\ AddTo(c, r)
        /\ remaining' = [remaining EXCEPT ![i] = subtractMax(@, r.its)]
        /\ minRelaxed' = [minRelaxed EXCEPT ![i] = MinValuesRelaxed(c, r.reqs)]

\* trySchedule relaxes the pod and goes round, unless waiting for a reservation.
RelaxPod ==
    /\ forms' = [forms EXCEPT ![cur] = Relax(@)]
    /\ topo' = UpdateTopology(topo, cur, forms'[cur])
    /\ UNCHANGED <<cur, queue, lastLen, errors, existing, claims, remaining, manager, minRelaxed>>

\* The pod failed: it waits, as it was, for its next turn.
Push ==
    /\ errors' = errors \cup {cur}
    /\ forms' = [forms EXCEPT ![cur] = env.batch[cur]]
    /\ topo' = UpdateTopology(topo, cur, env.batch[cur])
    /\ queue' = Append(queue, cur)
    /\ lastLen' = [lastLen EXCEPT ![cur] = Len(queue) + 1]
    /\ cur' = None
    /\ UNCHANGED <<existing, claims, remaining, manager, minRelaxed>>

\* A pod that runs on a node not being deleted may not move onto a node that is
\* under consolidateAfter.
Skipped(n, p) == n.under /\ ~p.exempt

\* add: existing nodes first, then NodeClaims with the fewest pods, then a new
\* one from the first NodePool that can; a reserved offering error of a NodePool
\* hides the NodePools after it.
Attempts(p) ==
    [existing |-> TryAll(DOMAIN existing, LAMBDA i :
                      IF Skipped(existing[i], p) THEN {Fail("other")} ELSE ExistingCanAdd(existing[i], cur, p)),
     inflight |-> TryAll(DOMAIN claims, LAMBDA i : CanAdd(claims[i], cur, p, FALSE)),
     new      |-> TryAll(DOMAIN world.templates, LAMBDA i : NewCanAdd(i, cur, p))]

add(a) ==
    LET p == forms[cur]
        Can(tries) == {t \in tries : t.res.err = ""}
        Fails(tries, i) == \E t \in tries : t.at = i /\ t.res.err # ""
        fewer(i) == {j \in DOMAIN claims : Cardinality(claims[j].pods) < Cardinality(claims[i].pods)}
        hidden(i) == \E j \in 1..(i - 1) : ~\E t \in a.new : t.at = j /\ t.res.err = "other"
        noExisting == \A i \in DOMAIN existing : Fails(a.existing, i)
        noInflight == \A i \in DOMAIN claims : Fails(a.inflight, i)
        deferred == \E t \in a.new : t.res.err = "reserved" /\ ~hidden(t.at)
        nowhere == ~hidden(Len(world.templates) + 1)
    IN  \/ /\ \E t \in Can(a.existing) : Reached(a.existing, t.at) /\ AddToExistingNode(t.at, t.res)
           /\ UNCHANGED <<queue, lastLen, forms>>
        \/ /\ noExisting
           /\ \E t \in Can(a.inflight) :
                 (\A j \in fewer(t.at) : Fails(a.inflight, j)) /\ AddToInflightNode(t.at, t.res)
           /\ UNCHANGED <<queue, lastLen, forms>>
        \/ /\ noExisting /\ noInflight
           /\ \E t \in Can(a.new) : ~hidden(t.at) /\ AddToNewNodeClaim(t.at, t.res)
           /\ UNCHANGED <<queue, lastLen, forms>>
        \/ noExisting /\ noInflight /\ nowhere /\ CanRelax(p) /\ RelaxPod
        \/ noExisting /\ noInflight /\ (deferred \/ (nowhere /\ ~CanRelax(p))) /\ Push

TrySchedule ==
    /\ phase = "solve" /\ cur # None
    /\ \E a \in {Attempts(forms[cur])} : add(a)
    /\ UNCHANGED <<env, world, phase, timedOut>>

(***************************************************************************)
(* The end: the NodeClaims lose their placeholder host name, are tied to   *)
(* the reservations they hold and ask for room for the daemons.            *)
(***************************************************************************)
addDaemonRequests(c) == c.requests + Min({Overhead(DaemonsOn(c.pool, it)) : it \in c.its})

FinalizeScheduling(c) ==
    LET rs == [k \in DOMAIN c.reqs \ {Hostname} |-> c.reqs[k]]
        tied == [k \in DOMAIN rs \cup {CapacityType} |-> IF k = CapacityType THEN In({Reserved}) ELSE rs[k]]
    IN  [c EXCEPT !.state = "final", !.requests = addDaemonRequests(c),
                  !.reqs = IF c.ids = {} THEN rs ELSE Add(tied, [k \in {ReservationID} |-> In(c.ids)])]

Finish ==
    /\ phase = "solve" /\ cur = None /\ (queue # <<>> => Cycled)
    /\ phase' = "solved"
    /\ claims' = [i \in DOMAIN claims |-> FinalizeScheduling(claims[i])]
    /\ UNCHANGED <<env, world, queue, lastLen, cur, forms, errors, topo, existing, remaining, manager, minRelaxed,
                   timedOut>>

\* The deadline passes before the pod's next attempt: the loop is left, with the
\* pod and the rest of the queue neither placed nor in error.
Timeout ==
    /\ phase = "solve" /\ cur # None
    /\ phase' = "solved" /\ timedOut' = TRUE
    /\ claims' = [i \in DOMAIN claims |-> FinalizeScheduling(claims[i])]
    /\ UNCHANGED <<env, world, queue, lastLen, cur, forms, errors, topo, existing, remaining, manager, minRelaxed>>

\* The requirements written into the NodeClaim: the instance types, and the
\* capacity types something can be launched with.
ToNodeClaim(c, its) ==
    LET names == {Only(Types[it], InstanceType) : it \in its}
        named == Add(c.reqs, [k \in {InstanceType} |-> WithMinValues(In(names), Get(c.reqs, InstanceType).min)])
        cts == UNION {{Only(o, CapacityType) : o \in CompatibleOfferings(Launchable(Types[it].offerings), named)} :
                         it \in its}
        typed == IF cts = {} THEN named ELSE Add(named, [k \in {CapacityType} |-> In(cts)])
    IN  [c EXCEPT !.state = "made", !.its = its,
                  !.reqs = [k \in DOMAIN typed |-> NodeSelectorRequirement(typed[k])]]

\* TruncateInstanceTypes and CreateNodeClaims, NodeClaim by NodeClaim.
Create(i) ==
    /\ phase = "solved" /\ claims[i].state = "final" /\ \A j \in 1..(i - 1) : claims[j].state # "final"
    /\ \E its \in FirstByPrice(Types, claims[i].its, claims[i].reqs, MaxInstanceTypes) :
          IF its \in Truncate(Types, claims[i].its, claims[i].reqs, MaxInstanceTypes, env.minPolicy = "BestEffort")
          THEN /\ claims' = [claims EXCEPT ![i] = ToNodeClaim(@, its)]
               /\ UNCHANGED errors
          ELSE /\ claims' = [claims EXCEPT ![i].state = "dropped"]
               /\ errors' = errors \cup claims[i].pods
    /\ UNCHANGED <<env, world, queue, lastLen, cur, forms, topo, existing, remaining, manager, minRelaxed, phase,
                   timedOut>>

Created ==
    /\ phase = "solved" /\ \A i \in DOMAIN claims : claims[i].state # "final"
    /\ phase' = "created"
    /\ UNCHANGED <<env, world, queue, lastLen, cur, forms, errors, topo, existing, claims, remaining, manager,
                   minRelaxed, timedOut>>

Done == phase = "created"
Terminated == Done /\ UNCHANGED vars

Next == Pop \/ TrySchedule \/ Finish \/ Timeout \/ (\E i \in DOMAIN claims : Create(i)) \/ Created \/ Terminated

\* Solve is one loop of one goroutine: it goes on until it is done.  (This is
\* WF_vars(Next): Next is enabled until phase is "created".)
Fairness == []<>Done \/ []<><<TRUE>>_vars

Spec == Init /\ [][Next]_vars /\ Fairness

--------------------------------------------------------------------------------
(***************************************************************************)
(* Properties.  They look at where the pods end up, not at the counters    *)
(* Solve keeps.                                                            *)
(***************************************************************************)
BoundIds == {b.id : b \in env.bound}
BoundPod(id) == CHOOSE b \in env.bound : b.id = id
PodOf(id) == IF id \in BoundIds THEN BoundPod(id).pod ELSE forms[id]

OnExisting(id) == {i \in DOMAIN existing : id \in existing[i].pods}
OnClaim(id) == {i \in DOMAIN claims : claims[i].state # "dropped" /\ id \in claims[i].pods}
PlacedPods == {id \in Pods : OnExisting(id) \cup OnClaim(id) # {}}

\* The offerings the claim can be launched into.
Landings(c) == UNION {CompatibleOfferings(Available(Types[it].offerings), c.reqs) : it \in c.its}

\* The domains a pod can turn out to be in, for the labels hostname and zone.
NodeDomain(n, k) == IF k \in DOMAIN n.labels THEN {n.labels[k]} ELSE IF k = Hostname THEN {n.name} ELSE {}
DomainsOf(id, k) ==
    IF id \in BoundIds THEN NodeDomain(BoundPod(id).node, k)
    ELSE UNION {NodeDomain(env.nodes[i], k) : i \in OnExisting(id)}
         \cup UNION {IF k = Hostname THEN {claims[i].host} ELSE {Only(o, k) : o \in Landings(claims[i])} :
                        i \in OnClaim(id)}

\* Every NodePool says which domains of k its nodes can be in.
Listed_(k) == k = Hostname \/ \A i \in DOMAIN env.pools : Operator(Get(env.pools[i].reqs, k)) = "In"

TypeOK ==
    /\ queue \in Seq(Pods) /\ cur \in Pods \cup {None}
    /\ errors \subseteq Pods
    /\ DOMAIN forms = Pods
    /\ \A i \in DOMAIN claims : /\ claims[i].pods \in (SUBSET Pods) \ {{}}
                                /\ claims[i].its \in (SUBSET DOMAIN Types) \ {{}}
                                /\ claims[i].state \in {"open", "final", "made", "dropped"}
    /\ phase \in {"solve", "solved", "created"}

(* Whatever order the batch is tried in and however its pods are relaxed, Solve
   (scheduler.go, Solve) ends with every pod of the batch in one place: on one
   node, in one NodeClaim that is created, or among the pod errors.  Only a pod
   the deadline cut off may be in none. *)
NoPodLost ==
    phase = "created" =>
        \A id \in Pods :
            LET places == Cardinality(OnExisting(id)) + Cardinality(OnClaim(id))
                          + IF id \in errors THEN 1 ELSE 0
            IN  places = 1 \/ (timedOut /\ places = 0)

\* The offerings of instance type it the claim can go to: a reservation it holds
\* by a credit is free by the time it is launched.
Targets(c, it) ==
    LET Credited(o) == IsReserved(o) /\ ReservationOf(o) \in c.ids /\ ReservationOf(o) \in DOMAIN env.credit
    IN  CompatibleOfferings(Launchable(Types[it].offerings) \cup {o \in Types[it].offerings : Credited(o)}, c.reqs)

(* A NodeClaim that Solve creates can be launched, whichever of its instance
   types the cloud provider takes: one at least has an offering to go to that its
   requirements allow, and each one that has offers one with room for all the
   pods the NodeClaim was created for and for the daemons that will run there,
   however the requirements were narrowed after the first pod was added
   (nodeclaim.go, CanAdd, Add, FinalizeScheduling). *)
LaunchPossible ==
    \A i \in DOMAIN claims :
        LET c == claims[i]
            need == FoldSet(LAMBDA id, sum : sum + forms[id].cpu, 0, c.pods)
            Room(it, o) == need + Overhead(DaemonsOn(c.pool, it)) <= computeAllocatable(Types[it], o.cap, o.overhead)
        IN  c.state = "made" =>
                /\ \E it \in c.its : Targets(c, it) # {}
                /\ \A it \in c.its : Targets(c, it) = {} \/ \E o \in Targets(c, it) : Room(it, o)

\* Required anti-affinity, both ways, between pods of which one was placed now.
AntiAffinityKept ==
    \A p, q \in PlacedPods \cup BoundIds :
        p # q /\ ~({p, q} \subseteq BoundIds) =>
            \A t \in Range(PodOf(p).anti) :
                PodOf(q).app \in t.sel => DomainsOf(p, t.key) \cap DomainsOf(q, t.key) = {}

\* The pods a spread constraint selects are one workload: they all carry it, with
\* the same node selection, and nothing else shares its group.
OneWorkload(id, c) ==
    LET p == env.batch[id]
    IN  \A q \in Pods :
            LET o == env.batch[q]
            IN  IF o.app \in c.sel
                THEN c \in Range(o.spread) /\ o.selector = p.selector /\ o.terms = p.terms /\ o.tol = p.tol
                ELSE \A e \in Range(o.spread) : e.key # c.key \/ e.sel # c.sel \/ e.min = c.min

SpreadCount(c, p, d) ==
    LET Counts(id) == id \in Pods \/ Matches(MakeTopologyNodeFilter(p, c.taints, c.affinity), BoundPod(id).node.taints,
                                             NewLabelRequirements(BoundPod(id).node.labels))
    IN  Cardinality({id \in PlacedPods \cup BoundIds :
                        PodOf(id).app \in c.sel /\ Counts(id) /\ d \in DomainsOf(id, c.key)})

\* Where Solve adds a pod of a workload, the domain it lands in has at most
\* maxSkew pods more than the emptiest domain the pod accepts.  For workloads
\* without alternative node affinity terms: relaxing one makes a new group, which
\* has not counted the pods placed so far.
SpreadKept ==
    \A id \in PlacedPods :
        LET p == forms[id]
            Hard == {c \in Range(p.spread) : ~c.anyway /\ c.key # Hostname /\ Listed_(c.key) /\ OneWorkload(id, c)}
        IN  Len(env.batch[id].terms) <= 1 =>
                \A c \in Hard : \A d \in DomainsOf(id, c.key) :
                    LET eligible == {e \in DOMAIN world.domains[c.key] : Has(Get(StrictRequirements(p), c.key), e)}
                        low == IF c.min # None /\ Cardinality(eligible) < c.min THEN 0
                               ELSE Min({SpreadCount(c, p, e) : e \in eligible})
                    IN  SpreadCount(c, p, d) - low <= c.skew

(* Required anti-affinity and topology spread hold of where the pods turn out to
   be, in zones and on hosts, whichever pod was placed first and wherever a
   NodeClaim that could still go to several zones ends up, even when no NodePool
   restricts the zone.  Pods that already run, pods added to nodes and pods of
   NodeClaims count, whatever those NodeClaims are narrowed by later (topology.go,
   Record, updateInverseAntiAffinity; topologygroup.go, nextDomainTopologySpread). *)
TopologyKept == AntiAffinityKept /\ SpreadKept

(* Reservations are never overcommitted and never leak: the slots left and the
   NodeClaims that hold one always add up to what the reservation had (with the
   slots credited for nodes about to go), so Reserve (reservationmanager.go)
   never panics, and a NodeClaim created for a reservation has a slot there. *)
ReservationsKept ==
    LET fresh == NewReservationManager(env.types, env.credit)
    IN  \A r \in DOMAIN fresh.capacity :
            LET holders == {i \in DOMAIN claims : r \in claims[i].ids}
            IN  /\ manager.capacity[r] >= 0
                /\ manager.capacity[r] + Cardinality(holders) = fresh.capacity[r]
                /\ \A i \in holders : r \in Held(manager, claims[i].host)

(* Solve ends: pods that fail go back to the queue only as long as other pods
   are being placed (queue.go, Pop), and relaxing a pod runs out. *)
SolveEnds == <>(phase = "created")

\* Pods that must be together are (not kept by the code, see the README).
AffinityKept ==
    \A p, q \in PlacedPods :
        \A t \in Range(forms[p].aff) \cap Range(forms[q].aff) :
            {forms[p].app, forms[q].app} \subseteq t.sel /\ Listed_(t.key) /\ OnClaim(p) # OnClaim(q)
                => Cardinality(DomainsOf(p, t.key) \cup DomainsOf(q, t.key)) = 1
================================================================================
