--------------------------- MODULE MCEvictionQueue ---------------------------
(* Two pods, a noncritical and a critical one, for TLC. *)
EXTENDS EvictionQueue, TLC

CONSTANTS a, b
Pair == {a, b}
PairTier  == a :> 0 @@ b :> 2
PairGrace == a :> 2 @@ b :> 1

(* A pod is replaced under its name; the termination time is set and         *)
(* tightened; an API call fails.                                             *)
ReplacedAndTightened ==
    {[bounds |-> {1}, time |-> 1, replacements |-> 1, errors |-> 0],
     [bounds |-> {1, 2}, time |-> 2, replacements |-> 0, errors |-> 0],
     [bounds |-> {2}, time |-> 3, replacements |-> 0, errors |-> 1]}
=============================================================================
