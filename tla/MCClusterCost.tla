--------------------------- MODULE MCClusterCost ---------------------------
(* Two NodeClaims of one offering for TLC: in one NodePool, and in two with   *)
(* a price of its own for one of them.                                        *)
EXTENDS ClusterCost

Claimed(p, fixed) == [pool |-> p, key |-> "k1", fixed |-> fixed]
MCFleets ==
    {[claims |-> [c1 |-> Claimed("p1", Unpriced), c2 |-> Claimed("p1", Unpriced)], changes |-> 2],
     [claims |-> [c1 |-> Claimed("p1", 2), c2 |-> Claimed("p2", Unpriced)], changes |-> 1]}
=============================================================================
