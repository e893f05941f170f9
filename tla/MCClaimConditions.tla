------------------------- MODULE MCClaimConditions -------------------------
(* Where TLC starts: hashes of an older version with a claim still to come,   *)
(* current hashes with a claim about to be idle, and a static NodePool with a *)
(* claim that has drifted.                                                    *)
EXTENDS ClaimConditions

Pool == [exists |-> TRUE, static |-> FALSE, spec |-> 0, admits |-> {"arm"}, after |-> 2, hash |-> <<"v2", 0>>,
         version |-> "v2"]
Claim == [alive |-> TRUE, launched |-> TRUE, initialized |-> Unset, event |-> Unset, label |-> "arm",
          hash |-> <<"v2", 0>>, version |-> "v2", drifted |-> Unset, consolidatable |-> FALSE]
Unborn == [Claim EXCEPT !.alive = FALSE, !.launched = FALSE, !.hash = Unset, !.version = Unset]

MCStarts ==
    {[pool |-> Pool, claims |-> [x |-> Claim, y |-> Unborn], changes |-> 2],
     [pool |-> [Pool EXCEPT !.hash = <<"v3", 0>>, !.version = "v3"],
      claims |-> [x |-> [Claim EXCEPT !.hash = <<"v3", 0>>, !.version = "v3", !.initialized = 1], y |-> Unborn],
      changes |-> 2],
     [pool |-> [Pool EXCEPT !.static = TRUE],
      claims |-> [x |-> [Claim EXCEPT !.drifted = "CloudDrifted"], y |-> Claim],
      changes |-> 1]}
=============================================================================
