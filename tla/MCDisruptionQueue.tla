-------------------------- MODULE MCDisruptionQueue --------------------------
(* Two or three nodes in a NodePool, for TLC. *)
EXTENDS DisruptionQueue, TLC

CONSTANTS n1, n2, n3, p
Three == {n1, n2, n3}
ThreePool == n1 :> p @@ n2 :> p @@ n3 :> p
Two == {n1, n2}
TwoPool == n1 :> p @@ n2 :> p

At(n, rs) == [percent |-> FALSE, nodes |-> n, reasons |-> rs]
OneAtATime == p :> {At(1, Reasons)}
TwoAtATime == p :> {At(2, Reasons)}
ByReason   == p :> {At(2, Reasons), At(1, {"Drifted"})}

ClaimLag == {"claim"}
NodeLag == {"node"}
Symmetric == Permutations(Nodes)

Calm == [nodes |-> {}, budgets |-> TwoAtATime, methods |-> <<"Drifted", "Underutilized">>,
         repl |-> 1, age |-> 0, errors |-> 0, external |-> 0, flips |-> 0, restarts |-> 0]

Pairs == {M \in SUBSET Nodes : Cardinality(M) = 2}
Triple == [Calm EXCEPT !.nodes = Nodes, !.budgets = ByReason, !.repl = 0,
                       !.methods = <<"Unhealthy", "Empty", "Drifted">>]

(* Two nodes: the commands of a method time out, replacements come and go, a *)
(* call fails; or the process restarts and a call fails.  Three nodes:       *)
(* budgets by reason, a claim deleted from outside and a node that goes      *)
(* NotReady, or a restart.                                                   *)
QueueAndBudget ==
    {[Calm EXCEPT !.nodes = N, !.age = 1, !.errors = 1, !.methods = <<r>>] :
        N \in Pairs, r \in {"Drifted", "Underutilized"}}
    \cup {[Calm EXCEPT !.nodes = N, !.errors = 1, !.restarts = 1] : N \in Pairs}
    \cup {[Triple EXCEPT !.external = 1, !.flips = 1], [Triple EXCEPT !.restarts = 1]}

(* One command over two nodes times out; the process restarts or a claim     *)
(* disappears.                                                               *)
Endings == {[Calm EXCEPT !.nodes = Nodes, !.age = 2, !.restarts = 1],
            [Calm EXCEPT !.nodes = Nodes, !.age = 2, !.external = 1, !.methods = <<"Drifted">>]}

(* The claim that is a command's key disappears. *)
KeyDisappears == {[Calm EXCEPT !.nodes = Nodes, !.age = 1, !.external = 1]}

(* A command runs past its retry duration while one node may be disrupted. *)
LatePoll == {[Calm EXCEPT !.nodes = Nodes, !.budgets = OneAtATime, !.methods = <<"Drifted">>, !.age = 1]}

(* Commands follow each other while reads of Nodes lag. *)
StaleReads == {[Calm EXCEPT !.nodes = Nodes, !.methods = <<"Drifted">>, !.age = 3]}
=============================================================================
