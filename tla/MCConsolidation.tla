------------------------------ MODULE MCConsolidation ------------------------------
EXTENDS Consolidation

MCValues == {"z1", "z2", "on-demand", "spot", "small", "medium", "large"}
MCAtoi == [v \in MCValues |-> None]
MCWellKnown == {"zone", "ct", "rid", "it"}
MCClass == [ct \in {"reserved", "spot", "on-demand"} |-> ct]

Offering(z, ct, price) ==
    [reqs |-> "zone" :> In({z}) @@ "ct" :> In({ct}), price |-> price,
     available |-> TRUE, left |-> 0, cap |-> None, overhead |-> None]
Machine(name, cap, ofs) ==
    [reqs |-> "it" :> In({name}), cap |-> cap, overhead |-> 0, vols |-> None, offerings |-> ofs]

Catalog == "small"  :> Machine("small", 1, {Offering("z1", "on-demand", 3), Offering("z1", "spot", 1)})
        @@ "medium" :> Machine("medium", 2, {Offering("z1", "on-demand", 5), Offering("z1", "spot", 2)})
        @@ "large"  :> Machine("large", 4, {Offering("z1", "on-demand", 8), Offering("z1", "spot", 4)})

OnDemand == "ct" :> In({"on-demand"})
Either == "ct" :> In({"on-demand", "spot"})

Node(pool, type, ct, pods) ==
    [pool |-> pool, type |-> type, ct |-> ct, zone |-> "z1", pods |-> pods, cheap |-> 0,
     init |-> TRUE, nominated |-> FALSE, deleting |-> FALSE]

Base == [pools |-> {"p"}, policy |-> [p \in {"p", "q"} |-> "WhenEmptyOrUnderutilized"],
         budget |-> [p \in {"p", "q"} |-> 2], new |-> "p", reqs |-> Either, spotToSpot |-> FALSE,
         types |-> Catalog, pending |-> 0, nodes |-> <<>>]

AllSetups ==
    {[Base EXCEPT !.nodes = <<Node("p", "medium", "on-demand", 1), Node("p", "large", "on-demand", 1),
                              Node("p", "medium", "on-demand", 2)>>, !.reqs = OnDemand],
     [Base EXCEPT !.nodes = <<Node("p", "large", "on-demand", 1), Node("p", "medium", "on-demand", 1)>>]}
    \cup
    {[Base EXCEPT !.nodes = <<Node("p", "large", "spot", 1), Node("p", "large", "spot", 2)>>, !.spotToSpot = s] :
        s \in BOOLEAN}
    \cup
    {[Base EXCEPT !.nodes = <<Node("p", "large", "on-demand", 1), Node("q", "medium", "on-demand", 1)>>,
                  !.pools = {"p", "q"}, !.policy["q"] = pol, !.budget["q"] = b] :
        pol \in {"WhenEmpty", "Balanced"}, b \in 0..1}
    \cup
    {[Base EXCEPT !.nodes = <<Node("p", "large", "on-demand", 1), Node("p", "medium", "spot", 2)>>,
                  !.policy["p"] = "Balanced"]}
    \cup
    {[Base EXCEPT !.nodes = <<Node("p", "medium", "on-demand", 0), [Node("p", "small", "spot", 0) EXCEPT !.cheap = 1],
                              Node("p", "medium", "spot", 1)>>, !.budget["p"] = b] : b \in 1..2}
====================================================================================
