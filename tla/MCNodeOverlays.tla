--------------------------- MODULE MCNodeOverlays ---------------------------
(* Overlays of equal and of different weights that overlap in NodePools,      *)
(* types, offerings and resources, for TLC.                                   *)
EXTENDS NodeOverlays

To(v) == [absolute |-> TRUE, percent |-> FALSE, by |-> v]
By(v) == [absolute |-> FALSE, percent |-> FALSE, by |-> v]
Percent(v) == [absolute |-> FALSE, percent |-> TRUE, by |-> v]

Overlay == [pools |-> {"p1", "p2"}, types |-> {"t1", "t2"}, offerings |-> {"spot", "od"}, weight |-> 1,
            price |-> Unset, capacity |-> <<>>, valid |-> TRUE]

MCCatalogs ==
    {[x |-> [Overlay EXCEPT !.price = Percent(-50)],
      y |-> [Overlay EXCEPT !.price = To(700), !.types = {"t1"}, !.pools = {"p1"}],
      z |-> [Overlay EXCEPT !.price = By(-300), !.weight = 2, !.offerings = {"spot"}]],
     [x |-> [Overlay EXCEPT !.capacity = [gpu |-> 1]],
      y |-> [Overlay EXCEPT !.capacity = [gpu |-> 2, nic |-> 1, cpu |-> 6], !.types = {"t1"}, !.weight = 2],
      z |-> [Overlay EXCEPT !.price = To(300), !.valid = FALSE]],
     [x |-> [Overlay EXCEPT !.capacity = [gpu |-> 1], !.price = By(50)],
      y |-> [Overlay EXCEPT !.capacity = [gpu |-> 2, nic |-> 1], !.types = {"t1"}],
      z |-> [Overlay EXCEPT !.price = Percent(20), !.offerings = {"spot"}, !.types = {"t1"}]]}
=============================================================================
