------------------------------ MODULE MCScheduler ------------------------------
(***************************************************************************)
(* Instances of Scheduler for TLC: batches of three pods drawn from a few  *)
(* profiles, for a few clusters.                                           *)
(***************************************************************************)
EXTENDS Scheduler

MCHosts == <<"h1", "h2", "h3", "h4">>
MCValues == {"z1", "z2", "h1", "h2", "h3", "h4", "n1", "n2", "on-demand", "spot", "reserved", "r1", "r2", "t1", "t2", "t3", "t9", "z3"}
MCAtoi == [v \in MCValues |-> None]
MCWellKnown == {"zone", "ct", "rid", "it"}
MCClass == [ct \in {"reserved", "spot", "on-demand"} |-> ct]

Req(k, S) == [l \in {k} |-> In(S)]

Offering(z, ct, price) ==
    [reqs |-> [k \in {"zone", "ct"} |-> IF k = "zone" THEN In({z}) ELSE In({ct})], price |-> price,
     available |-> TRUE, left |-> 0, cap |-> None, overhead |-> None]
Reservation(z, r, n) ==
    [Offering(z, "reserved", 0) EXCEPT !.reqs = Add(@, Req("rid", {r})), !.left = n]

Machine(name, cap, ofs) ==
    [reqs |-> Add(Req("it", {name}), Req("zone", {Only(o, "zone") : o \in ofs})), cap |-> cap, overhead |-> 0,
     vols |-> None, offerings |-> ofs]

Both(price) == {Offering("z1", "on-demand", price), Offering("z2", "on-demand", price)}

Pool(name, reqs, its) ==
    [name |-> name, reqs |-> reqs, taints |-> {}, its |-> its, limit |-> [cpu |-> None, nodes |-> None]]
Zones == Req("zone", {"z1", "z2"})

Volume(terms) == [terms |-> terms, local |-> FALSE]
LocalVolume(terms) == [terms |-> terms, local |-> TRUE]

Plain == [cpu |-> 1, app |-> "a", selector |-> NoRequirements, terms |-> <<>>, prefs |-> <<>>, spread |-> <<>>,
          aff |-> <<>>, prefAff |-> <<>>, anti |-> <<>>, prefAnti |-> <<>>, tol |-> {}, ports |-> {}, vols |-> {},
          volumes |-> <<>>, exempt |-> TRUE]

Term(k, sel) == [key |-> k, sel |-> sel]
SpreadOver(k, sel) == [key |-> k, sel |-> sel, skew |-> 1, min |-> None, anyway |-> FALSE, taints |-> "Ignore",
                       affinity |-> "Honor"]

Base == [batch |-> <<Plain>>, pools |-> <<Pool("p1", Zones, {1, 2})>>,
         types |-> <<Machine("t1", 2, Both(1)), Machine("t2", 3, Both(2))>>,
         nodes |-> <<>>, bound |-> {}, daemons |-> <<>>, policy |-> "Respect", mode |-> "Strict",
         minPolicy |-> "Strict", credit |-> <<>>]

\* Pods that attract and repel each other, in a cluster without nodes.
FewTopologyProfiles ==
    {[Plain EXCEPT !.cpu = 2, !.selector = Req("zone", {"z1"})],
     [Plain EXCEPT !.spread = <<SpreadOver("zone", {"a"})>>],
     [Plain EXCEPT !.app = "b", !.anti = <<Term("zone", {"a"})>>],
     [Plain EXCEPT !.app = "b", !.aff = <<Term("zone", {"a", "b"})>>, !.anti = <<Term("host", {"b"})>>]}
TopologyProfiles ==
    FewTopologyProfiles \cup
    {Plain,
     [Plain EXCEPT !.anti = <<Term("zone", {"a"})>>],
     [Plain EXCEPT !.aff = <<Term("host", {"a"})>>],
     [Plain EXCEPT !.prefs = <<Req("zone", {"z2"})>>, !.prefAnti = <<Term("zone", {"a"})>>]}
TopologyScenarios ==
    {[Base EXCEPT !.batch = b, !.pools[1].reqs = r] :
        b \in [1..3 -> TopologyProfiles] \cup [1..4 -> FewTopologyProfiles], r \in {Zones, NoRequirements}}

\* Reservations: r1 in z1 and r2 in z2, one slot each, and on-demand capacity.
Small(n) == Machine("t1", 2, {Reservation("z1", "r1", n), Reservation("z2", "r2", 1)} \cup Both(1))
ReservationProfiles ==
    {[Plain EXCEPT !.cpu = 2],
     [Plain EXCEPT !.selector = Req("zone", {"z2"})],
     [Plain EXCEPT !.terms = <<Req("ct", {"reserved"}), Req("zone", {"z1"})>>],
     [Plain EXCEPT !.selector = Req("ct", {"on-demand"})]}
ReservationScenarios ==
    {[Base EXCEPT !.batch = b, !.types = <<Small(n), Machine("t2", 2, Both(2))>>, !.mode = m, !.credit = c] :
        b \in [1..3 -> ReservationProfiles], m \in {"Strict", "Fallback"}, n \in {0, 1},
        c \in {<<>>, [r \in {"r1"} |-> 1]}}

\* NodePools with minValues, limits and taints; daemons that do not fit everywhere.
FlexibleZones(n) == [k \in {"zone", "it"} |-> IF k = "zone" THEN In({"z1", "z2"}) ELSE WithMinValues(Exists, n)]
SomeDaemons ==
    <<[Plain EXCEPT !.terms = <<Req("it", {"t2"}), Req("zone", {"z1"})>>, !.ports = {[ip |-> "any", port |-> 1]}], Plain>>
PoolProfiles ==
    {[Plain EXCEPT !.cpu = 2],
     [Plain EXCEPT !.cpu = 3, !.tol = {"dedicated"}],
     [Plain EXCEPT !.ports = {[ip |-> "x", port |-> 1]}, !.terms = <<Req("it", {"t9"}), Req("zone", {"z2"})>>],
     [Plain EXCEPT !.spread = <<[SpreadOver("zone", {"a"}) EXCEPT !.anyway = TRUE, !.min = 2]>>, !.vols = {"v1", "v2"},
                   !.volumes = <<Volume(<<Req("zone", {"z3"}), Req("zone", {"z1"})>>),
                                 LocalVolume(<<Req("zone", {"z1", "z2"}), Req("zone", {"z3"})>>)>>]}
PoolScenarios ==
    {[Base EXCEPT !.batch = b, !.daemons = d, !.minPolicy = m,
         !.pools = <<[Pool("p1", FlexibleZones(v), {1, 2, 3}) EXCEPT !.limit.cpu = 5, !.taints = {"soft"}],
                     [Pool("p2", Zones, {2}) EXCEPT !.taints = {"dedicated"}, !.limit.nodes = n]>>,
         !.types = <<[Machine("t1", 3, Both(1)) EXCEPT !.vols = 1], Machine("t2", 4, Both(2)), Machine("t3", 4, Both(2))>>] :
        b \in [1..3 -> PoolProfiles], d \in {<<>>, SomeDaemons}, m \in {"Strict", "BestEffort"}, n \in {0, 1}, v \in {2, 3}}

\* A cluster that has nodes and running pods.
Node(name, z, free) ==
    [name |-> name, labels |-> [k \in {"zone", "host"} |-> IF k = "zone" THEN z ELSE name], taints |-> {}, real |-> TRUE,
     available |-> free, daemonRequests |-> 0, ports |-> {}, vols |-> {}, limit |-> 1, under |-> FALSE, pool |-> "p1",
     cap |-> 2]
NodeProfiles ==
    {[Plain EXCEPT !.vols = {"v1"}, !.volumes = <<Volume(<<Req("zone", {"z1"})>>), LocalVolume(<<Req("host", {"n1"})>>)>>],
     [Plain EXCEPT !.app = "b", !.exempt = FALSE, !.spread = <<SpreadOver("zone", {"b"})>>],
     [Plain EXCEPT !.anti = <<Term("zone", {"b"})>>],
     [Plain EXCEPT !.app = "b", !.aff = <<Term("host", {"a"})>>, !.ports = {[ip |-> "any", port |-> 1]}],
     [Plain EXCEPT !.aff = <<Term("host", {"b"})>>]}
Running(n, p) == [id |-> 11, pod |-> p, node |-> n]
NodeScenarios ==
    {[Base EXCEPT !.batch = b, !.nodes = <<Node("n1", "z1", 2), [Node("n2", "z2", 1) EXCEPT !.under = u]>>,
         !.bound = {Running(Node("n1", "z1", 2), p)}, !.pools[1].limit.nodes = 3,
         !.daemons = <<[Plain EXCEPT !.selector = Req("zone", {"z1"})]>>] :
        b \in [1..3 -> NodeProfiles], u \in {FALSE}, p \in {[Plain EXCEPT !.app = "b", !.anti = <<Term("zone", {"c"})>>]}}
    \cup {[Base EXCEPT !.batch = b, !.nodes = <<[Node("n2", "z2", 1) EXCEPT !.under = TRUE]>>, !.policy = "Ignore"] :
        b \in [1..3 -> NodeProfiles]}

AllScenarios == TopologyScenarios \cup ReservationScenarios \cup PoolScenarios \cup NodeScenarios
================================================================================
