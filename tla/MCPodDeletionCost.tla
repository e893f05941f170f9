------------------------- MODULE MCPodDeletionCost -------------------------
(* Small fleets for TLC: three nodes over a budget and a cap of one, one of   *)
(* them drifted; a pinned node whose pod carries an annotation already.       *)
EXTENDS PodDeletionCost

MCName == [n1 |-> 1, n2 |-> 2, n3 |-> 3]

Plain == [pool |-> "p", price |-> 1, managed |-> TRUE, going |-> FALSE, blocked |-> FALSE, pinned |-> FALSE,
          priced |-> TRUE, drifted |-> FALSE]
Budgeted == [static |-> FALSE, consolidates |-> TRUE, drift |-> 1, underutilized |-> 1]
Replica(n) == [node |-> n, replica |-> TRUE, cost |-> 1, value |-> Unset]

MCFleets ==
    {[nodes |-> [n1 |-> Plain, n2 |-> [Plain EXCEPT !.price = 3], n3 |-> [Plain EXCEPT !.drifted = TRUE]],
      pools |-> [p |-> Budgeted],
      pods |-> [x |-> Replica("n1"), y |-> [Replica("n2") EXCEPT !.value = 7], z |-> Replica("n3")],
      changes |-> 1],
     [nodes |-> [n1 |-> [Plain EXCEPT !.pinned = TRUE], n2 |-> Plain],
      pools |-> [p |-> [Budgeted EXCEPT !.underutilized = 2]],
      pods |-> [x |-> [Replica("n1") EXCEPT !.value = 7], y |-> Replica("n2"),
                z |-> [Replica("n2") EXCEPT !.replica = FALSE]],
      changes |-> 2]}
=============================================================================
