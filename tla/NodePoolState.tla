--------------------------- MODULE NodePoolState ---------------------------
(***************************************************************************)
(* The in-memory accounting of NodeClaims per NodePool                     *)
(* (pkg/controllers/state/statenodepool.go).                               *)
(*                                                                         *)
(* The value of the component is a record s with                           *)
(*   s.claims[np]   the NodeClaimState of np: three sets of claim names,   *)
(*   s.poolOf[nc]   nodeClaimNameToNodePoolName, NoPool when unmapped,     *)
(*   s.reserved[np] the reservation counter nodePoolNameToNodePoolLimit.   *)
(* Every method takes the mutex for its whole body, so a method is a       *)
(* function from the old value to the new one.  An absent map entry and an *)
(* entry with three empty sets and counter 0 answer every method alike     *)
(* (ensureNodePoolEntry creates exactly that entry), so both are           *)
(* represented by the latter.                                              *)
(***************************************************************************)
EXTENDS Integers, FiniteSets

CONSTANTS NodePools, NodeClaims, NoPool

ASSUME NodePoolStateAssumption ==
    /\ NoPool \notin NodePools
    /\ IsFiniteSet(NodeClaims)

NodeClaimState == [active : SUBSET NodeClaims,
                   pendingDisruption : SUBSET NodeClaims,
                   deleting : SUBSET NodeClaims]

NodePoolStates == [claims : [NodePools -> NodeClaimState],
                   poolOf : [NodeClaims -> NodePools \cup {NoPool}],
                   reserved : [NodePools -> Nat]]

EmptyClaims == [active |-> {}, pendingDisruption |-> {}, deleting |-> {}]

(* NewNodePoolState, and Reset. *)
NewNodePoolState == [claims |-> [np \in NodePools |-> EmptyClaims],
                     poolOf |-> [nc \in NodeClaims |-> NoPool],
                     reserved |-> [np \in NodePools |-> 0]]

SetNodeClaimMapping(s, np, nc) == [s EXCEPT !.poolOf[nc] = np]

MarkNodeClaimActive(s, np, nc) ==
    [s EXCEPT !.claims[np] = [active |-> @.active \cup {nc},
                              pendingDisruption |-> @.pendingDisruption \ {nc},
                              deleting |-> @.deleting \ {nc}]]

MarkNodeClaimDeleting(s, np, nc) ==
    [s EXCEPT !.claims[np] = [active |-> @.active \ {nc},
                              pendingDisruption |-> @.pendingDisruption \ {nc},
                              deleting |-> @.deleting \cup {nc}]]

MarkPendingKeepsActive(s, np, nc) ==
    [s EXCEPT !.claims[np].pendingDisruption = @ \cup {nc}]

MarkNodeClaimPendingDisruption(s, np, nc) ==
    [s EXCEPT !.claims[np] = [active |-> @.active \ {nc},
                              pendingDisruption |-> @.pendingDisruption \cup {nc},
                              deleting |-> @.deleting \ {nc}]]

(* UpdateNodeClaim maps the claim and files it under Deleting or Active.   *)
UpdateNodeClaim(s, np, nc, markedForDeletion) ==
    LET m == SetNodeClaimMapping(s, np, nc)
    IN  IF markedForDeletion THEN MarkNodeClaimDeleting(m, np, nc)
                             ELSE MarkNodeClaimActive(m, np, nc)

(* Cleanup forgets the claim; when no active and no deleting claim is left *)
(* it forgets the NodePool too, pending claims and reservations included.  *)
Cleanup(s, nc) ==
    LET np   == s.poolOf[nc]
        st   == s.claims[np]
        left == [active |-> st.active \ {nc},
                 pendingDisruption |-> st.pendingDisruption \ {nc},
                 deleting |-> st.deleting \ {nc}]
        gone == left.active = {} /\ left.deleting = {}
    IN  IF np = NoPool THEN s
        ELSE [claims   |-> [s.claims EXCEPT ![np] = IF gone THEN EmptyClaims ELSE left],
              poolOf   |-> [s.poolOf EXCEPT ![nc] = NoPool],
              reserved |-> [s.reserved EXCEPT ![np] = IF gone THEN 0 ELSE @]]

Running(s, np)  == Cardinality(s.claims[np].active)
Pending(s, np)  == Cardinality(s.claims[np].pendingDisruption)
Deleting(s, np) == Cardinality(s.claims[np].deleting)

(* The amount ReserveNodeCount(np, limit, wanted) returns.                 *)
Granted(s, np, limit, wanted) ==
    LET remaining == limit - (Running(s, np) + Deleting(s, np) + Pending(s, np))
                           - s.reserved[np]
    IN  IF remaining < 0 THEN 0
        ELSE IF wanted > remaining THEN remaining ELSE wanted

ReserveNodeCount(s, np, limit, wanted) ==
    [s EXCEPT !.reserved[np] = @ + Granted(s, np, limit, wanted)]

(* The counter is clamped at 0: Cleanup may have dropped the reservation.  *)
ReleaseNodeCount(s, np, count) ==
    [s EXCEPT !.reserved[np] = IF @ - count < 0 THEN 0 ELSE @ - count]

(* The names the accounting of np still counts. *)
Tracked(s, np) == s.claims[np].active \cup s.claims[np].pendingDisruption
                                       \cup s.claims[np].deleting
=============================================================================
