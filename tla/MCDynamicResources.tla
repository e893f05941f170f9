--------------------------- MODULE MCDynamicResources ---------------------------
(***************************************************************************)
(* Small clusters for DynamicResources.                                    *)
(***************************************************************************)
EXTENDS DynamicResources

MCAtoi == [v \in Values |-> None]
MCHostnames == <<"h1", "h2">>

Zone(v) == [l \in {"zone"} |-> In({v})]
Dev(name, attrs) == [name |-> name, attrs |-> attrs, multi |-> FALSE, cap |-> <<>>, counters |-> <<>>]
Kind(k) == [a \in {"kind"} |-> k]
Slice(pool, devices) ==
    [key |-> <<pool, 0>>, owner |-> None, gen |-> 1, count |-> 1, all |-> TRUE, node |-> None, terms |-> None,
     counters |-> None, devices |-> devices]
Template(pool, devices) == [key |-> pool, counters |-> None, devices |-> devices]
Published(pool, name) == [key |-> <<pool, 0>>, name |-> name, template |-> FALSE]

Ask(name, class, n) == [name |-> name, class |-> class, sels |-> <<>>, mode |-> "ExactCount", count |-> n, cap |-> <<>>]
Exactly(name, ask) == [name |-> name, first |-> FALSE, asks |-> <<ask>>]
FirstAvailable(name, asks) == [name |-> name, first |-> TRUE, asks |-> asks]
Claim(requests) == [requests |-> requests, constraints |-> <<>>, status |-> None]
One(class, n) == Claim(<<Exactly("r", Ask("a", class, n))>>)
Pod(claims) == [reqs |-> NoRequirements, claims |-> claims]
Status(results, pods) == [results |-> results, selector |-> None, reserved |-> [i \in DOMAIN pods |-> [pod |-> TRUE, uid |-> pods[i]]]]

IT(sets) == [sets |-> sets, bindings |-> {}, offerings |-> {Zone("z1"), Zone("z2")}]
Bare == IT(<<>>)
Everywhere(devices) == [reqs |-> NoRequirements, slices |-> <<Template("gpu", devices)>>]

Classes == [c \in {"any", "x", "y"} |->
    IF c = "any" THEN <<>> ELSE <<[attr |-> "kind", values |-> {c}]>>]

Base ==
    [its |-> [A |-> Bare, B |-> Bare], classes |-> Classes, slices |-> <<>>, nodes |-> <<>>,
     nodePools |-> [np |-> [reqs |-> NoRequirements, its |-> <<"A", "B">>]],
     claims |-> <<>>, pods |-> <<>>, batch |-> <<>>, deleting |-> {}, slow |-> FALSE]

\* Devices of one zone each, a claim two pods share, and one for each device.
Zonal ==
    [Base EXCEPT
      !.slices = <<[Slice("net", <<Dev("d1", Kind("x"))>>) EXCEPT !.all = FALSE, !.terms = <<Zone("z1")>>, !.count = 2],
                   [Slice("net", <<Dev("d2", Kind("x"))>>) EXCEPT !.all = FALSE, !.terms = <<Zone("z2")>>, !.count = 2]>>,
      !.claims = [c1 |-> One("x", 1), c2 |-> One("x", 1), c3 |-> One("any", 1)],
      !.pods = [p1 |-> Pod(<<"c1">>), p2 |-> Pod(<<"c2">>), p3 |-> Pod(<<"c1">>), p4 |-> Pod(<<"c3">>)],
      !.batch = <<"p1", "p2", "p3", "p4">>]

\* One shared device published, two of A's own and one of B's.
Templates ==
    [Base EXCEPT
      !.its = [A |-> IT(<<Everywhere(<<Dev("t1", Kind("x")), Dev("t2", Kind("x"))>>)>>),
               B |-> IT(<<Everywhere(<<Dev("t1", Kind("x"))>>)>>)],
      !.slices = <<Slice("net", <<Dev("d1", Kind("x"))>>)>>,
      !.claims = [c1 |-> One("x", 1), c2 |-> One("x", 2), c3 |-> One("any", 1)],
      !.pods = [p1 |-> Pod(<<"c1">>), p2 |-> Pod(<<"c2">>), p3 |-> Pod(<<"c3">>)],
      !.batch = <<"p1", "p2", "p3">>]

\* Launch configurations with devices of their own: reserved or not, by zone.
Scoped ==
    [Base EXCEPT
      !.its = [A |-> IT(<<[reqs |-> Zone("z1"), slices |-> <<Template("gpu", <<Dev("t1", Kind("x"))>>)>>],
                          [reqs |-> Zone("z2"), slices |-> <<Template("gpu", <<Dev("t1", Kind("x")), Dev("t2", Kind("x"))>>)>>]>>),
               B |-> [IT(<<[reqs |-> Zone("z2"), slices |-> <<Template("gpu", <<Dev("t1", Kind("x"))>>)>>],
                           [reqs |-> Zone("z1"), slices |-> <<Template("gpu", <<Dev("t3", Kind("x"))>>)>>]>>)
                        EXCEPT !.offerings = {Zone("z2")}]],
      !.claims = [c1 |-> One("x", 1), c2 |-> One("x", 1), c3 |-> One("x", 2)],
      !.pods = [p1 |-> Pod(<<"c1">>), p2 |-> [Pod(<<"c2">>) EXCEPT !.reqs = Zone("z2")], p3 |-> Pod(<<"c3">>)],
      !.batch = <<"p1", "p2", "p3">>]

\* Partitions of one device, published and of the instance types.
Part(name, k, n) == [Dev(name, Kind(k)) EXCEPT !.counters = [m |-> n]]
Budgets(s, n) == [s EXCEPT !.counters = [m |-> n], !.devices = <<>>]
XElseY == Claim(<<FirstAvailable("r", <<Ask("xs", "x", 2), Ask("ys", "y", 1)>>)>>)
Partitions ==
    [Base EXCEPT
      !.its = [A |-> IT(<<[reqs |-> NoRequirements,
                           slices |-> <<Budgets(Template("gpu", <<>>), 3), Template("gpu", <<Part("t1", "x", 2), Part("t2", "x", 2)>>)>>]>>),
               B |-> Bare],
      !.slices = <<[Budgets(Slice("mig", <<>>), 5) EXCEPT !.count = 2],
                   [Slice("mig", <<Part("q1", "x", 3), Part("q2", "y", 1), Part("q3", "y", 2), Part("q4", "y", 1)>>) EXCEPT !.count = 2]>>,
      !.claims = [c1 |-> XElseY, c2 |-> One("y", 1), c3 |-> XElseY,
                  c4 |-> [One("y", 1) EXCEPT !.status = Status(<<[id |-> Published("mig", "q4"), consumed |-> <<>>]>>, <<"old">>)]],
      !.pods = [p1 |-> Pod(<<"c1">>), p2 |-> Pod(<<"c2">>), p3 |-> Pod(<<"c3">>)],
      !.batch = <<"p1", "p2", "p3">>]

\* A link of which every claim takes a share, held by a pod that stays and one
\* that leaves, and a link of the instance type.
Link(name, value) ==
    [Dev(name, Kind("x")) EXCEPT !.multi = TRUE,
       !.cap = [bw |-> [value |-> value, policy |-> [default |-> 2, values |-> None, range |-> [min |-> 1, max |-> 4, step |-> 2]]]]]
Share(n) == Claim(<<Exactly("r", [Ask("a", "x", 1) EXCEPT !.cap = [bw |-> n]])>>)
Drawn(n) == <<[id |-> Published("net", "l"), consumed |-> [bw |-> n]]>>
Shared ==
    [Base EXCEPT
      !.its = [A |-> IT(<<Everywhere(<<Link("t", 3)>>)>>), B |-> Bare],
      !.slices = <<Slice("net", <<Link("l", 7)>>)>>,
      !.claims = [c1 |-> Share(2), c2 |-> One("x", 1), c3 |-> Share(3), c4 |-> Share(9),
                  c5 |-> [Share(3) EXCEPT !.status = Status(Drawn(3), <<"stays">>)],
                  c6 |-> [Share(1) EXCEPT !.status = Status(Drawn(1), <<"p4">>)]],
      !.pods = [p1 |-> Pod(<<"c1", "c2">>), p2 |-> Pod(<<"c3">>), p3 |-> Pod(<<"c4">>), p4 |-> Pod(<<"c6">>)],
      !.batch = <<"p1", "p2", "p3", "p4">>, !.deleting = {"p4"}]

\* Pairs on the same numa node, which A's own devices only promise.
Numa(name, k, n) == Dev(name, [kind |-> k, numa |-> n])
Pair == [Claim(<<Exactly("r1", Ask("a", "x", 1)), Exactly("r2", Ask("a", "y", 1))>>)
           EXCEPT !.constraints = <<[requests |-> {}, attr |-> "numa"]>>]
Bound2(a, b) == [attr |-> "numa", devices |-> {[key |-> "gpu", name |-> a], [key |-> "gpu", name |-> b]}]
Aligned ==
    [Base EXCEPT
      !.its = [A |-> [IT(<<Everywhere(<<Dev("t1", Kind("x")), Dev("t2", Kind("y")), Dev("t3", Kind("y"))>>)>>)
                        EXCEPT !.bindings = {Bound2("t1", "t3")}],
               B |-> IT(<<Everywhere(<<Dev("t4", Kind("x")), Dev("t5", Kind("y"))>>)>>)],
      !.slices = <<Slice("net", <<Numa("d1", "x", "n1"), Numa("d2", "y", "n2"), Numa("d3", "y", "n1")>>)>>,
      !.claims = [c1 |-> Pair, c2 |-> Pair,
                  c3 |-> Claim(<<Exactly("r", [Ask("a", "y", 0) EXCEPT !.mode = "All"])>>)],
      !.pods = [p1 |-> Pod(<<"c1">>), p2 |-> Pod(<<"c2">>), p3 |-> Pod(<<"c3">>)],
      !.batch = <<"p1", "p2", "p3">>]

\* A node that publishes its devices, one that has yet to, and a pod leaving
\* the first.
Node(it, initialized) == [reqs |-> Zone("z1"), it |-> it, initialized |-> initialized]
Nodes ==
    [Base EXCEPT
      !.its = [A |-> IT(<<Everywhere(<<Dev("t1", Kind("x"))>>)>>), B |-> Bare],
      !.nodes = [n1 |-> Node("A", TRUE), n2 |-> Node("A", FALSE)],
      !.slices = <<[Slice("n1", <<Dev("d1", Kind("x"))>>) EXCEPT !.all = FALSE, !.node = "n1", !.owner = "n1"],
                   [Slice("n2", <<Dev("d1", Kind("x"))>>) EXCEPT !.all = FALSE, !.node = "n2", !.owner = "n2"]>>,
      !.claims = [c1 |-> One("x", 1), c2 |-> One("x", 1),
                  c3 |-> [One("x", 1) EXCEPT !.status = Status(<<[id |-> Published("n1", "d1"), consumed |-> <<>>]>>, <<"p3">>)],
                  c4 |-> [One("x", 1) EXCEPT !.status = [Status(<<[id |-> Published("net", "gone"), consumed |-> <<>>]>>, <<>>)
                                                           EXCEPT !.selector = <<Zone("z2")>>]]],
      !.pods = [p1 |-> Pod(<<"c1">>), p2 |-> Pod(<<"c2">>), p3 |-> Pod(<<"c3">>), p4 |-> Pod(<<"c4">>), p5 |-> Pod(<<>>)],
      !.batch = <<"p1", "p2", "p3", "p4", "p5">>, !.deleting = {"p3"}]

\* Pools that cannot be trusted and claims that ask too much.
AllOfThem(class) == Claim(<<Exactly("r", [Ask("a", class, 0) EXCEPT !.mode = "All"])>>)
Doubtful ==
    [Base EXCEPT
      !.its = [A |-> IT(<<Everywhere(<<Dev("t1", Kind("x")), Dev("t2", Kind("x"))>>)>>),
               B |-> IT(<<Everywhere(<<Dev("t1", Kind("x"))>>)>>)],
      !.slices = <<[Slice("old", <<Dev("o1", Kind("x"))>>) EXCEPT !.gen = 1],
                   [Slice("old", <<Dev("o2", Kind("x")), Dev("o3", Kind("x"))>>) EXCEPT !.gen = 2],
                   [Slice("old", <<Dev("o1", Kind("x"))>>) EXCEPT !.gen = 1]>>,
      !.claims = [c1 |-> AllOfThem("x"), c2 |-> One("x", 1), c3 |-> One("none", 1), c4 |-> One("x", 4)],
      !.pods = [p1 |-> Pod(<<"c1">>), p2 |-> Pod(<<"c2">>), p3 |-> Pod(<<"c3">>), p4 |-> Pod(<<"c4">>)],
      !.batch = <<"p3", "p4", "p2", "p1">>, !.slow = TRUE]
Missing == [Doubtful EXCEPT !.slices = <<[Slice("half", <<Dev("o1", Kind("x"))>>) EXCEPT !.count = 2]>>, !.batch = <<"p2", "p1">>]
Twice == [Doubtful EXCEPT !.slices = <<Slice("dup", <<Dev("o1", Kind("x")), Dev("o1", Kind("y"))>>)>>, !.batch = <<"p2", "p1">>]
Unsaid == [Doubtful EXCEPT !.slices = <<Slice("bare", <<Dev("o1", <<>>)>>)>>, !.batch = <<"p2", "p1">>]

MCSetups == {Zonal, Templates, Scoped, Partitions, Shared, Aligned, Nodes, Doubtful, Missing, Twice, Unsaid}

\* Two pods that leave their node and share a claim.
Migrating ==
    {[Base EXCEPT
      !.slices = <<Slice("net", <<Dev("d1", Kind("x")), Dev("d2", Kind("x"))>>)>>,
      !.claims = [c1 |-> [One("x", 1) EXCEPT !.status = Status(<<[id |-> Published("net", "d1"), consumed |-> <<>>]>>, <<"p1", "p2">>)]],
      !.pods = [p1 |-> Pod(<<"c1">>), p2 |-> Pod(<<"c1">>)],
      !.batch = <<"p1", "p2">>, !.deleting = {"p1", "p2"}]}
=================================================================================
