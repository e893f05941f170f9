-------------------------------- MODULE Topology --------------------------------
(***************************************************************************)
(* provisioning/scheduling's Topology: for every topology spread           *)
(* constraint, pod affinity and pod anti-affinity term of the pods being   *)
(* scheduled, a TopologyGroup counts the selected pods in each domain (each *)
(* value of the term's label) and answers in which domains the next pod    *)
(* may land.  Inverse groups count the pods that HAVE an anti-affinity     *)
(* term, so that a pod they repel keeps away from them.                    *)
(*                                                                         *)
(* A pod is a record: app stands for its namespace and labels, a term's    *)
(* sel for the apps its namespaces and label selector select.  A group is  *)
(* stored under what its Hash covers.  emptyDomains is not stored: it is   *)
(* the set of domains counted 0.                                           *)
(***************************************************************************)
EXTENDS Requirements, Sequences, SequencesExt

CONSTANT Hostname     \* the label kubernetes.io/hostname

MaxInt32 == 2147483647

Tolerates(tol, taints) == taints \subseteq tol

(***************************************************************************)
(* Which nodes take part in a spread constraint: those the pod's selector  *)
(* and one of its required affinity terms accept (unless the constraint's  *)
(* policy is to ignore them).  Affinity terms count every node.            *)
(***************************************************************************)
NoFilter == [reqs |-> {}, taints |-> "", affinity |-> "", tol |-> {}]

MakeTopologyNodeFilter(p, taintPolicy, affinityPolicy) ==
    [reqs     |-> IF p.terms = <<>> THEN {p.selector}
                  ELSE {Add(p.selector, p.terms[i]) : i \in DOMAIN p.terms},
     taints   |-> taintPolicy,
     affinity |-> affinityPolicy,
     tol      |-> p.tol]

\* The requirements are compared without AllowUndefinedWellKnownLabels,
\* whatever options the caller passes.
Matches(f, taints, reqs) ==
    /\ f.affinity = "Honor" => \E r \in f.reqs : Compatible(reqs, r, {})
    /\ f.taints = "Honor" => Tolerates(f.tol, taints)

(***************************************************************************)
(* The domains a node of some NodePool can be in, with the taint sets of   *)
(* the pools that offer each of them.                                      *)
(***************************************************************************)
Insert(sets, taints) ==
    IF taints = {} \/ {} \in sets THEN {{}} ELSE sets \cup {taints}

buildDomainGroups(pools, types) ==
    LET Offered(np, k) ==
            UNION {Get(Add(np.reqs, types[it].reqs), k).values : it \in np.its}
            \cup (IF Operator(Get(np.reqs, k)) = "In" THEN np.reqs[k].values ELSE {})
        Labels == UNION {DOMAIN np.reqs : np \in Range(pools)}
                  \cup UNION {DOMAIN types[it].reqs : it \in UNION {np.its : np \in Range(pools)}}
    IN  [k \in Labels |->
            [d \in UNION {Offered(np, k) : np \in Range(pools)} |->
                FoldSeq(LAMBDA np, sets : IF d \in Offered(np, k) THEN Insert(sets, np.taints) ELSE sets,
                        {}, pools)]]

\* A spread constraint that ignores taints sees every domain; any other group
\* only those of a pool whose taints the pod it is built for tolerates.
Domains(domainGroups, k, p, taintPolicy) ==
    IF k \notin DOMAIN domainGroups THEN {}
    ELSE {d \in DOMAIN domainGroups[k] :
             \/ taintPolicy = "Ignore"
             \/ \E taints \in domainGroups[k][d] : Tolerates(p.tol, taints)}

(***************************************************************************)
(* Groups.                                                                 *)
(***************************************************************************)
\* What Hash covers (minDomains is not part of it), and the new group.
NewTopologyGroup(domainGroups, type, k, p, sel, skew, minDomains, filter) ==
    [hash  |-> [type |-> type, key |-> k, sel |-> sel, skew |-> skew, filter |-> filter],
     group |-> [min     |-> minDomains,
                owners  |-> {},
                domains |-> [d \in Domains(domainGroups, k, p, filter.taints) |-> 0]]]

NewAffinityGroup(domainGroups, type, p, term) ==
    NewTopologyGroup(domainGroups, type, term.key, p, term.sel, MaxInt32, None, NoFilter)

newForTopologies(domainGroups, p, policy) ==
    {NewTopologyGroup(domainGroups, "spread", c.key, p, c.sel, c.skew, c.min,
                      MakeTopologyNodeFilter(p, c.taints, c.affinity)) :
        c \in {c \in Range(p.spread) : policy = "Respect" \/ ~c.anyway}}

newForAffinities(domainGroups, p, policy) ==
    LET Soft(terms) == IF policy = "Respect" THEN Range(terms) ELSE {}
    IN  {NewAffinityGroup(domainGroups, "affinity", p, t) : t \in Range(p.aff) \cup Soft(p.prefAff)}
        \cup {NewAffinityGroup(domainGroups, "anti", p, t) : t \in Range(p.anti) \cup Soft(p.prefAnti)}

Count(g, d) == IF d \in DOMAIN g.domains THEN g.domains[d] ELSE 0

Register(g, ds) == [g EXCEPT !.domains = @ @@ [d \in ds |-> 0]]

RecordIn(g, ds) ==
    [g EXCEPT !.domains = [d \in ds |-> Count(g, d) + 1] @@ @]

selects(h, p) == p.app \in h.sel

\* The bound pods that the namespaces and the label selector of a group list.
PodsSelected(h, bound) == {b \in bound : selects(h, b.pod)}

\* countDomains: the domains of the nodes that take part (and are more than a
\* NodeClaim), and the bound pods that are not themselves being scheduled.
countDomains(h, g, nodes, bound) ==
    LET domain(n) == IF h.key \in DOMAIN n.labels THEN n.labels[h.key] ELSE n.name
        InDomain(n) == /\ h.key \in DOMAIN n.labels \/ h.key = Hostname
                       /\ Matches(h.filter, n.taints, NewLabelRequirements(n.labels))
        known == {n.labels[h.key] : n \in {m \in nodes : m.real /\ InDomain(m) /\ h.key \in DOMAIN m.labels}}
    IN  FoldSet(LAMBDA b, acc : RecordIn(acc, {domain(b.node)}),
                Register(g, known),
                {b \in PodsSelected(h, bound) : InDomain(b.node)})

(***************************************************************************)
(* Topology: its groups and its inverse groups.                            *)
(***************************************************************************)
AddOwner(groups, new, p) ==
    LET group(h) == IF h \in DOMAIN groups THEN groups[h] ELSE (CHOOSE n \in new : n.hash = h).group
    IN  [h \in {n.hash : n \in new} |-> [group(h) EXCEPT !.owners = @ \cup {p}]] @@ groups

\* Only required anti-affinity has an inverse group, and its owner is never
\* removed.  domains: the labels of the node of a pod that already runs.
updateInverseAntiAffinity(t, domainGroups, id, p, labels) ==
    LET new == {NewAffinityGroup(domainGroups, "anti", p, term) : term \in Range(p.anti)}
        owned == AddOwner(t.inverse, new, id)
        here == {h \in {n.hash : n \in new} : h.key \in DOMAIN labels}
    IN  [t EXCEPT !.inverse = [h \in here |-> RecordIn(owned[h], {labels[h.key]})] @@ owned]

updateInverseAffinities(t, domainGroups, bound) ==
    FoldSet(LAMBDA b, acc : updateInverseAntiAffinity(acc, domainGroups, b.id, b.pod, b.node.labels),
            t, {b \in bound : b.pod.anti # <<>>})

NoLabels == <<>>

\* Update: p (its current, possibly relaxed form) owns exactly its own groups.
\* A group met for the first time counts the cluster, not what this Solve has
\* already placed.
Update(t, domainGroups, nodes, bound, policy, id, p) ==
    LET mine == {h \in DOMAIN t.groups : id \in t.groups[h].owners}
        disowned == [h \in mine |-> [t.groups[h] EXCEPT !.owners = @ \ {id}]] @@ t.groups
        mirrored == IF p.anti # <<>> THEN updateInverseAntiAffinity(t, domainGroups, id, p, NoLabels) ELSE t
        new == newForTopologies(domainGroups, p, policy) \cup newForAffinities(domainGroups, p, policy)
        counted == {IF n.hash \in DOMAIN t.groups THEN n
                    ELSE [n EXCEPT !.group = countDomains(n.hash, n.group, nodes, bound)] : n \in new}
    IN  [mirrored EXCEPT !.groups = AddOwner(disowned, counted, id)]

RegisterHost(t, host) ==
    LET Reg(groups) == [h \in {h \in DOMAIN groups : h.key = Hostname} |-> Register(groups[h], {host})] @@ groups
    IN  [groups |-> Reg(t.groups), inverse |-> Reg(t.inverse)]

RecordOnceKnown(t, id, p, taints, reqs) ==
    LET at(h) == Get(reqs, h.key)
        Known(h) == ~at(h).complement /\ Cardinality(at(h).values) = 1
        counting == {h \in DOMAIN t.groups : selects(h, p) /\ Matches(h.filter, taints, reqs) /\ Known(h)}
        owned == {h \in DOMAIN t.inverse : id \in t.inverse[h].owners /\ Known(h)}
        Rec(groups, hs) == [h \in hs |-> RecordIn(groups[h], at(h).values)] @@ groups
    IN  [groups |-> Rec(t.groups, counting), inverse |-> Rec(t.inverse, owned)]

\* Record: a spread or affinity group counts the pod only once its domain is
\* known; an anti-affinity group counts it in every domain listed.
Record(t, id, p, taints, reqs) ==
    LET at(h) == Get(reqs, h.key)
        Known(h) == h.type = "anti" \/ (~at(h).complement /\ Cardinality(at(h).values) = 1)
        counting == {h \in DOMAIN t.groups : selects(h, p) /\ Matches(h.filter, taints, reqs) /\ Known(h)}
        owned == {h \in DOMAIN t.inverse : id \in t.inverse[h].owners}
        Rec(groups, hs) == [h \in hs |-> RecordIn(groups[h], at(h).values)] @@ groups
    IN  [groups |-> Rec(t.groups, counting), inverse |-> Rec(t.inverse, owned)]

(***************************************************************************)
(* The domains the next pod may land in: Get returns the SET of answers    *)
(* the map iteration order allows.  podD are the domains the pod accepts,  *)
(* nodeD those the node can still be in.                                   *)
(***************************************************************************)
domainMinCount(h, g, podD) ==
    LET supported == {d \in DOMAIN g.domains : Has(podD, d)}
    IN  IF h.key = Hostname \/ (g.min # None /\ Cardinality(supported) < g.min) THEN 0
        ELSE IF supported = {} THEN MaxInt32
        ELSE CHOOSE c \in {g.domains[d] : d \in supported} : \A d \in supported : c <= g.domains[d]

OneHost(h, nodeD) == h.key = Hostname /\ Cardinality(nodeD.values) = 1

SpreadWithoutSelf(h, g, p, podD, nodeD) ==
    LET self == 0
        min == domainMinCount(h, g, podD)
        valid == IF OneHost(h, nodeD)
                 THEN {d \in nodeD.values : Count(g, d) + self <= h.skew}
                 ELSE {d \in DOMAIN g.domains : Has(nodeD, d) /\ Count(g, d) + self - min <= h.skew}
        best == {d \in valid : \A e \in valid : Count(g, d) <= Count(g, e)}
    IN  IF best = {} THEN {DoesNotExist} ELSE {In({d}) : d \in best}

nextDomainTopologySpread(h, g, p, podD, nodeD) ==
    LET self == IF selects(h, p) THEN 1 ELSE 0
        min == domainMinCount(h, g, podD)
        valid == IF OneHost(h, nodeD)
                 THEN {d \in nodeD.values : Count(g, d) + self <= h.skew}
                 ELSE {d \in DOMAIN g.domains : Has(nodeD, d) /\ Count(g, d) + self - min <= h.skew}
        best == {d \in valid : \A e \in valid : Count(g, d) <= Count(g, e)}
    IN  IF best = {} THEN {DoesNotExist} ELSE {In({d}) : d \in best}

anyCompatiblePodDomain(g, podD) == \E d \in DOMAIN g.domains : Has(podD, d) /\ g.domains[d] > 0

\* The first pod of a self-selecting group may start a domain of its own.
Bootstraps(h, g, p, podD) ==
    selects(h, p) /\ ((\A d \in DOMAIN g.domains : g.domains[d] = 0) \/ ~anyCompatiblePodDomain(g, podD))

nextDomainAffinity(h, g, p, podD, nodeD) ==
    LET occupied == {d \in DOMAIN g.domains : Has(podD, d) /\ Has(nodeD, d) /\ g.domains[d] > 0}
        OneOf(S) == IF S = {} THEN {{}} ELSE {{d} : d \in S}
        both == {d \in DOMAIN g.domains : Has(Intersection(podD, nodeD), d)}
        viable == {d \in DOMAIN g.domains : Has(podD, d)}
    IN  IF OneHost(h, nodeD)
        THEN {In({d \in nodeD.values : Has(podD, d) /\ (Count(g, d) > 0 \/ Bootstraps(h, g, p, podD))})}
        ELSE IF occupied # {} THEN {In(occupied)}
        ELSE IF Bootstraps(h, g, p, podD) THEN {In(a \cup b) : a \in OneOf(both), b \in OneOf(viable)}
        ELSE {DoesNotExist}

nextDomainAntiAffinity(h, g, podD, nodeD) ==
    IF OneHost(h, nodeD) THEN {In({d \in nodeD.values : Count(g, d) = 0})}
    ELSE {In({d \in DOMAIN g.domains : g.domains[d] = 0 /\ Has(nodeD, d) /\ Has(podD, d)})}

NextDomain(h, g, p, podD, nodeD) ==
    CASE h.type = "spread"   -> nextDomainTopologySpread(h, g, p, podD, nodeD)
      [] h.type = "affinity" -> nextDomainAffinity(h, g, p, podD, nodeD)
      [] h.type = "anti"     -> nextDomainAntiAffinity(h, g, podD, nodeD)

getMatchingTopologies(t, id, p) ==
    {<<h, t.groups[h]>> : h \in {h \in DOMAIN t.groups : id \in t.groups[h].owners}}
    \cup {<<h, t.inverse[h]>> : h \in {h \in DOMAIN t.inverse : selects(h, p)}}

\* AddRequirements: the node's requirements narrowed by every group the pod
\* owns and every inverse group that repels it; {} when one has no domain.
AddRequirements(t, id, p, taints, podReqs, nodeReqs) ==
    LET Answers(h, g) == NextDomain(h, g, p, Get(podReqs, h.key), Get(nodeReqs, h.key)) \ {DoesNotExist}
        Narrow(rs, h, answers) == {Add(r, [k \in {h.key} |-> a]) : r \in rs, a \in answers}
    IN  FoldSet(LAMBDA x, rs : Narrow(rs, x[1], Answers(x[1], x[2])), {nodeReqs}, getMatchingTopologies(t, id, p))
=================================================================================
