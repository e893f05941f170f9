------------------------ MODULE StaticCapacityProofs ------------------------
(***************************************************************************)
(* Proofs about StaticCapacity: type correctness, that a claim is filed    *)
(* once, and that no reservation of the node limit leaks, for any finite   *)
(* set of claims and any limits, budgets and bounds.                       *)
(***************************************************************************)
EXTENDS StaticCapacity, FiniteSetTheorems, TLAPS

(* What every method of NodePoolState preserves, for any NodePools and any   *)
(* finite set of NodeClaims.                                                 *)

(* No claim is filed under two states. *)
Disjoint(st) == /\ st.active \cap (st.deleting \cup st.pendingDisruption) = {}
                /\ st.deleting \cap st.pendingDisruption = {}

(* A new NodePoolState is well typed and counts nothing. *)
LEMMA NewState ==
    /\ NewNodePoolState \in NodePoolStates
    /\ \A np \in NodePools : /\ NewNodePoolState.reserved[np] = 0
                             /\ Disjoint(NewNodePoolState.claims[np])
BY DEF NewNodePoolState, NodePoolStates, NodeClaimState, EmptyClaims, Disjoint

(* The counts GetNodeCount returns are natural numbers. *)
LEMMA CountsNat ==
    ASSUME NEW s \in NodePoolStates, NEW np \in NodePools
    PROVE  Running(s, np) \in Nat /\ Pending(s, np) \in Nat /\ Deleting(s, np) \in Nat
<1>1. /\ IsFiniteSet(s.claims[np].active)
      /\ IsFiniteSet(s.claims[np].pendingDisruption)
      /\ IsFiniteSet(s.claims[np].deleting)
  BY NodePoolStateAssumption, FS_Subset DEF NodePoolStates, NodeClaimState
<1> QED BY <1>1, FS_CardinalityType DEF Running, Pending, Deleting

(* The three marks keep the type, the reservations and that a claim is     *)
(* filed once (MarkNodeClaimActive, -Deleting, -PendingDisruption).        *)
LEMMA MarksPreserve ==
    ASSUME NEW s \in NodePoolStates, NEW np \in NodePools, NEW nc \in NodeClaims,
           NEW t \in {MarkNodeClaimActive(s, np, nc), MarkNodeClaimDeleting(s, np, nc),
                      MarkNodeClaimPendingDisruption(s, np, nc)}
    PROVE  /\ t \in NodePoolStates
           /\ t.reserved = s.reserved
           /\ \A p \in NodePools : Disjoint(s.claims[p]) => Disjoint(t.claims[p])
<1>1. CASE t = MarkNodeClaimActive(s, np, nc)
  BY <1>1, ZenonT(60) DEF MarkNodeClaimActive, NodePoolStates, NodeClaimState, Disjoint
<1>2. CASE t = MarkNodeClaimDeleting(s, np, nc)
  BY <1>2, ZenonT(60) DEF MarkNodeClaimDeleting, NodePoolStates, NodeClaimState, Disjoint
<1>3. CASE t = MarkNodeClaimPendingDisruption(s, np, nc)
  BY <1>3, ZenonT(60) DEF MarkNodeClaimPendingDisruption, NodePoolStates, NodeClaimState, Disjoint
<1> QED BY <1>1, <1>2, <1>3

(* UpdateNodeClaim preserves the same. *)
LEMMA UpdatePreserves ==
    ASSUME NEW s \in NodePoolStates, NEW np \in NodePools, NEW nc \in NodeClaims, NEW b
    PROVE  /\ UpdateNodeClaim(s, np, nc, b) \in NodePoolStates
           /\ UpdateNodeClaim(s, np, nc, b).reserved = s.reserved
           /\ \A p \in NodePools : Disjoint(s.claims[p])
                                     => Disjoint(UpdateNodeClaim(s, np, nc, b).claims[p])
<1> DEFINE m == SetNodeClaimMapping(s, np, nc)
<1>1. m \in NodePoolStates /\ m.reserved = s.reserved /\ m.claims = s.claims
  BY DEF SetNodeClaimMapping, NodePoolStates
<1>2. UpdateNodeClaim(s, np, nc, b) \in
         {MarkNodeClaimActive(m, np, nc), MarkNodeClaimDeleting(m, np, nc),
          MarkNodeClaimPendingDisruption(m, np, nc)}
  BY DEF UpdateNodeClaim
<1> DEFINE u == UpdateNodeClaim(s, np, nc, b)
<1> HIDE DEF m, u
<1>3. /\ u \in NodePoolStates
      /\ u.reserved = m.reserved
      /\ \A p \in NodePools : Disjoint(m.claims[p]) => Disjoint(u.claims[p])
  BY <1>1, <1>2, MarksPreserve, ZenonT(60) DEF u
<1> QED BY <1>1, <1>3 DEF u

(* Cleanup keeps the type and disjointness, and never adds a reservation. *)
LEMMA CleanupPreserves ==
    ASSUME NEW s \in NodePoolStates, NEW nc \in NodeClaims
    PROVE  /\ Cleanup(s, nc) \in NodePoolStates
           /\ \A p \in NodePools :
                 /\ Cleanup(s, nc).reserved[p] <= s.reserved[p]
                 /\ Disjoint(s.claims[p]) => Disjoint(Cleanup(s, nc).claims[p])
<1>1. CASE s.poolOf[nc] = NoPool
  BY <1>1 DEF Cleanup, NodePoolStates
<1>2. CASE s.poolOf[nc] # NoPool
  <2> DEFINE np == s.poolOf[nc]
             left == [active |-> s.claims[np].active \ {nc},
                      pendingDisruption |-> s.claims[np].pendingDisruption \ {nc},
                      deleting |-> s.claims[np].deleting \ {nc}]
             t == Cleanup(s, nc)
  <2>1. np \in NodePools
    BY <1>2, SMTT(60) DEF NodePoolStates
  <2>2. PICK b \in BOOLEAN :
           t = [claims   |-> [s.claims EXCEPT ![np] = IF b THEN EmptyClaims ELSE left],
                poolOf   |-> [s.poolOf EXCEPT ![nc] = NoPool],
                reserved |-> [s.reserved EXCEPT ![np] = IF b THEN 0 ELSE @]]
    BY <1>2, Zenon DEF Cleanup
  <2>3. EmptyClaims \in NodeClaimState /\ left \in NodeClaimState
    BY <2>1 DEF EmptyClaims, NodeClaimState, NodePoolStates
  <2>4. Disjoint(EmptyClaims) /\ (Disjoint(s.claims[np]) => Disjoint(left))
    BY DEF EmptyClaims, Disjoint
  <2> HIDE DEF t, left
  <2>5. t \in NodePoolStates
    BY <2>1, <2>2, <2>3 DEF NodePoolStates
  <2>6. \A p \in NodePools : t.reserved[p] <= s.reserved[p]
    BY <2>1, <2>2 DEF NodePoolStates
  <2>7. \A p \in NodePools : Disjoint(s.claims[p]) => Disjoint(t.claims[p])
    BY <2>1, <2>2, <2>4 DEF NodePoolStates
  <2> QED BY <2>5, <2>6, <2>7 DEF t
<1> QED BY <1>1, <1>2

(* ReserveNodeCount grants between 0 and what is wanted and adds exactly   *)
(* the grant to the counter.                                               *)
LEMMA ReservePreserves ==
    ASSUME NEW s \in NodePoolStates, NEW np \in NodePools, NEW limit \in Nat, NEW wanted \in Nat
    PROVE  /\ Granted(s, np, limit, wanted) \in Nat
           /\ Granted(s, np, limit, wanted) <= wanted
           /\ ReserveNodeCount(s, np, limit, wanted) \in NodePoolStates
           /\ ReserveNodeCount(s, np, limit, wanted).claims = s.claims
           /\ ReserveNodeCount(s, np, limit, wanted).reserved[np]
                 = s.reserved[np] + Granted(s, np, limit, wanted)
<1> DEFINE g == Granted(s, np, limit, wanted)
<1>1. s.reserved[np] \in Nat
  BY DEF NodePoolStates
<1>2. g \in Nat /\ g <= wanted
  BY <1>1, CountsNat DEF Granted
<1> HIDE DEF g
<1>3. ReserveNodeCount(s, np, limit, wanted) = [s EXCEPT !.reserved[np] = @ + g]
  BY DEF ReserveNodeCount, g
<1> QED BY <1>1, <1>2, <1>3 DEF NodePoolStates, g

(* Releasing one slot lowers a positive counter by one and keeps 0 at 0. *)
LEMMA ReleasePreserves ==
    ASSUME NEW s \in NodePoolStates, NEW np \in NodePools
    PROVE  /\ ReleaseNodeCount(s, np, 1) \in NodePoolStates
           /\ ReleaseNodeCount(s, np, 1).claims = s.claims
           /\ ReleaseNodeCount(s, np, 1).reserved[np]
                 = IF s.reserved[np] = 0 THEN 0 ELSE s.reserved[np] - 1
BY SMTT(60) DEF ReleaseNodeCount, NodePoolStates

(* The claims that keep Cleanup from forgetting the NodePool. *)
InUse(s, np) == s.claims[np].active \cup s.claims[np].deleting

(* Filing a claim under Active or Deleting puts it in use and ends its       *)
(* pending disruption.                                                       *)
LEMMA MarksInUse ==
    ASSUME NEW s \in NodePoolStates, NEW np \in NodePools, NEW nc \in NodeClaims,
           NEW t, t = MarkNodeClaimActive(s, np, nc) \/ t = MarkNodeClaimDeleting(s, np, nc)
    PROVE  /\ InUse(t, np) = InUse(s, np) \cup {nc}
           /\ t.claims[np].pendingDisruption \subseteq s.claims[np].pendingDisruption
<1>1. t.claims[np] \in {[active |-> s.claims[np].active \cup {nc}, pendingDisruption |-> s.claims[np].pendingDisruption \ {nc},
                         deleting |-> s.claims[np].deleting \ {nc}],
                        [active |-> s.claims[np].active \ {nc}, pendingDisruption |-> s.claims[np].pendingDisruption \ {nc},
                         deleting |-> s.claims[np].deleting \cup {nc}]}
  BY DEF MarkNodeClaimActive, MarkNodeClaimDeleting, NodePoolStates
<1> QED BY <1>1, SMTT(60) DEF InUse

LEMMA UpdateInUse ==
    ASSUME NEW s \in NodePoolStates, NEW np \in NodePools, NEW nc \in NodeClaims, NEW b
    PROVE  /\ InUse(UpdateNodeClaim(s, np, nc, b), np) = InUse(s, np) \cup {nc}
           /\ UpdateNodeClaim(s, np, nc, b).claims[np].pendingDisruption \subseteq s.claims[np].pendingDisruption
<1> DEFINE t == UpdateNodeClaim(s, np, nc, b)
<1> DEFINE m == SetNodeClaimMapping(s, np, nc)
<1>1. m \in NodePoolStates /\ m.claims = s.claims
  BY DEF SetNodeClaimMapping, NodePoolStates
<1>2. t = MarkNodeClaimActive(m, np, nc) \/ t = MarkNodeClaimDeleting(m, np, nc)
  BY DEF UpdateNodeClaim
<1> HIDE DEF m, t
<1>3. InUse(t, np) = InUse(s, np) \cup {nc} /\ t.claims[np].pendingDisruption \subseteq s.claims[np].pendingDisruption
  BY <1>1, <1>2, MarksInUse DEF InUse
<1> QED BY <1>3 DEF t

(* A claim marked for disruption is the only one that leaves the use. *)
LEMMA PendingLeavesUse ==
    ASSUME NEW s \in NodePoolStates, NEW np \in NodePools, NEW nc \in NodeClaims,
           NEW t, t = MarkNodeClaimPendingDisruption(s, np, nc)
    PROVE  /\ InUse(t, np) = InUse(s, np) \ {nc}
           /\ t.claims[np].pendingDisruption = s.claims[np].pendingDisruption \cup {nc}
<1>1. t.claims[np] = [active |-> s.claims[np].active \ {nc}, pendingDisruption |-> s.claims[np].pendingDisruption \cup {nc},
                      deleting |-> s.claims[np].deleting \ {nc}]
  BY ZenonT(60) DEF MarkNodeClaimPendingDisruption, NodePoolStates
<1> QED BY <1>1 DEF InUse

(* Cleanup keeps every other claim that is in use. *)
LEMMA CleanupKeepsUse ==
    ASSUME NEW s \in NodePoolStates, NEW np \in NodePools, NEW nc \in NodeClaims,
           NEW t, t = Cleanup(s, nc)
    PROVE  /\ InUse(s, np) \ {nc} \subseteq InUse(t, np)
           /\ t.claims[np].pendingDisruption \subseteq s.claims[np].pendingDisruption
<1>1. CASE s.poolOf[nc] # np
  <2>1. t.claims[np] = s.claims[np]
    BY <1>1 DEF Cleanup, NodePoolStates
  <2> QED BY <2>1 DEF InUse
<1>2. CASE s.poolOf[nc] = np
  <2> DEFINE left == [active |-> s.claims[np].active \ {nc}, pendingDisruption |-> s.claims[np].pendingDisruption \ {nc},
                      deleting |-> s.claims[np].deleting \ {nc}]
  <2>1. t.claims[np] = IF left.active = {} /\ left.deleting = {} THEN EmptyClaims ELSE left
    BY <1>2, NodePoolStateAssumption, Zenon DEF Cleanup, NodePoolStates
  <2> QED BY <2>1 DEF InUse, EmptyClaims
<1> QED BY <1>1, <1>2
-----------------------------------------------------------------------------
(* What Next allows, one disjunct per action. *)
LEMMA NextCases ==
    ASSUME Next, NEW P,
           Sync => P,
           EndUpdateNodeClaim => P,
           \A nc \in NodeClaims : InformerUpdate(nc) => P,
           \A nc \in NodeClaims : InformerDelete(nc) => P,
           \A nc \in NodeClaims : NodeClaimGC(nc) => P,
           \A nc \in NodeClaims : Launch(nc) => P,
           \A nc \in NodeClaims : Finalize(nc) => P,
           ProvisionRead => P,
           ProvisionReserve => P,
           ProvisionRelease => P,
           \A nc \in NodeClaims : ProvisionCreate(nc) => P,
           \A nc \in NodeClaims : ProvisionSeed(nc) => P,
           DeprovisionRead => P,
           DeprovisionSelect => P,
           \A nc \in NodeClaims : DeprovisionDelete(nc) => P,
           \A nc \in NodeClaims : DeprovisionMark(nc) => P,
           DriftCandidates => P,
           DriftReserve => P,
           \A c \in NodeClaims : MarkDisrupted(c) => P,
           \A c \in NodeClaims : MarkPending(c) => P,
           \A c \in NodeClaims : ReplacementSeed(c) => P,
           \A c \in NodeClaims : ReplacementRelease(c) => P,
           \A c \in NodeClaims : MarkForDeletion(c) => P,
           \A c, nc \in NodeClaims : ReplacementCreate(c, nc) => P,
           \A c \in NodeClaims : QueueTerminate(c) => P,
           \A c \in NodeClaims : QueueGiveUp(c) => P,
           \A c \in NodeClaims : CompleteCommand(c) => P,
           Restart => P,
           ProvisionCreateFails => P,
           \A nc \in NodeClaims : Drift(nc) => P,
           \A nc \in NodeClaims : ExternalDelete(nc) => P,
           \A nc \in NodeClaims : DeprovisionDeleteFails(nc) => P,
           \A c \in NodeClaims : MarkDisruptedFails(c) => P,
           \A c \in NodeClaims : ReplacementCreateFails(c) => P,
           \A n \in Replicas : Scale(n) => P
    PROVE  P
<1>1. CASE StateStep BY <1>1 DEF StateStep
<1>2. CASE ApiStep BY <1>2 DEF ApiStep
<1>3. CASE ProvStep BY <1>3 DEF ProvStep
<1>4. CASE DeprovStep BY <1>4 DEF DeprovStep
<1>5. CASE DriftStep BY <1>5 DEF DriftStep
<1>6. CASE QueueStep BY <1>6 DEF QueueStep
<1>7. CASE EnvStep BY <1>7 DEF EnvStep
<1> QED BY <1>1, <1>2, <1>3, <1>4, <1>5, <1>6, <1>7 DEF Next

(* Cluster.UpdateNodeClaim keeps the types, never adds a reservation and  *)
(* never files a claim twice.                                             *)
LEMMA BeginUpdatePreserves ==
    ASSUME TypeOK, NEW nc \in NodeClaims, NEW o \in Claim, BeginUpdateNodeClaim(nc, o)
    PROVE  /\ cluster' \in [NodeClaims -> ClusterEntry]
           /\ updating' \in NodeClaims \cup {None}
           /\ nps' \in NodePoolStates
           /\ nps'.reserved[Pool] <= nps.reserved[Pool]
           /\ FiledOnce => FiledOnce'
<1>1. Pool \in NodePools
  BY StaticCapacityAssumption
<1>2. cluster' \in [NodeClaims -> ClusterEntry] /\ updating' \in NodeClaims \cup {None}
  <2>1. cluster \in [NodeClaims -> ClusterEntry]
    BY DEF TypeOK
  <2>2. CASE Launched(o)
    <3> DEFINE e == [pid |-> "set", node |-> TRUE, drifted |-> o.drifted,
                     deleting |-> o.deleting, marked |-> cluster[nc].marked]
    <3>1. e \in ClusterEntry
      BY <2>1 DEF ClusterEntry, Claim
    <3>2. cluster' = [cluster EXCEPT ![nc] = e] /\ updating' = nc
      BY <2>2 DEF BeginUpdateNodeClaim
    <3> HIDE DEF e
    <3> QED BY <2>1, <3>1, <3>2
  <2>3. CASE ~Launched(o)
    <3>1. cluster' = [cluster EXCEPT ![nc] = [cluster[nc] EXCEPT !.pid = "empty"]] /\ updating' = None
      BY <2>3, <2>1 DEF BeginUpdateNodeClaim
    <3>2. [cluster[nc] EXCEPT !.pid = "empty"] \in ClusterEntry
      BY <2>1 DEF ClusterEntry
    <3> QED BY <2>1, <3>1, <3>2
  <2> QED BY <2>2, <2>3
<1>3. nps' \in {nps, Cleanup(nps, nc), UpdateNodeClaim(nps, Pool, nc, FALSE)}
  BY Zenon DEF BeginUpdateNodeClaim
<1>4. nps \in NodePoolStates
  BY DEF TypeOK
<1>5. nps' \in NodePoolStates
  BY <1>1, <1>3, <1>4, CleanupPreserves, UpdatePreserves, Zenon
<1>6. nps'.reserved[Pool] <= nps.reserved[Pool]
  <2>1. nps.reserved[Pool] \in Nat
    BY <1>1, <1>4 DEF NodePoolStates
  <2>2. nps.reserved[Pool] <= nps.reserved[Pool]
    BY <2>1
  <2>3. Cleanup(nps, nc).reserved[Pool] <= nps.reserved[Pool]
    BY <1>1, <1>4, CleanupPreserves
  <2>4. UpdateNodeClaim(nps, Pool, nc, FALSE).reserved = nps.reserved
    BY <1>1, <1>4, UpdatePreserves, Zenon
  <2> QED BY <1>3, <2>2, <2>3, <2>4, Zenon
<1>7. Disjoint(nps.claims[Pool]) => Disjoint(nps'.claims[Pool])
  BY <1>1, <1>3, <1>4, CleanupPreserves, UpdatePreserves, ZenonT(60)
<1> QED BY <1>2, <1>5, <1>6, <1>7 DEF FiledOnce, Disjoint

(* The number of candidates ComputeCommands may disrupt is a number. *)
LEMMA MaxDriftsNat ==
    ASSUME TypeOK
    PROVE  SmallerOf(AllowedDisruptions, Cardinality(drift)) \in Nat
<1>1. Cardinality(drift) \in Nat
  BY NodePoolStateAssumption, FS_Subset, FS_CardinalityType DEF TypeOK
<1>2. Cardinality({c \in NodeClaims : cluster[c].node /\ MarkedForDeletion(cluster[c])}) \in Nat
  BY NodePoolStateAssumption, FS_Subset, FS_CardinalityType
<1>3. AllowedDisruptions \in Nat
  BY <1>2, StaticCapacityAssumption DEF AllowedDisruptions
<1> QED BY <1>1, <1>3 DEF SmallerOf

(* A command that changes phase, or ends, is still a command. *)
LEMMA CommandTypes ==
    ASSUME TypeOK, NEW c \in NodeClaims
    PROVE  /\ NoCmd \in Command
           /\ \A p \in CmdPhases : SetPhase(c, p) => cmd' \in [NodeClaims -> Command]
<1>1. NoCmd \in Command
  BY DEF NoCmd, Command, CmdPhases
<1>2. ASSUME NEW p \in CmdPhases, SetPhase(c, p)
      PROVE  cmd' \in [NodeClaims -> Command]
  <2>1. cmd \in [NodeClaims -> Command]
    BY DEF TypeOK
  <2>2. [cmd[c] EXCEPT !.phase = p] \in Command
    BY <2>1 DEF Command
  <2>3. cmd' = [cmd EXCEPT ![c] = [cmd[c] EXCEPT !.phase = p]]
    BY <1>2, <2>1 DEF SetPhase
  <2> QED BY <2>1, <2>2, <2>3
<1> QED BY <1>1, <1>2

(* A replacement that is being seeded has a name: CreateNodeClaims returned *)
(* it.  TypeOK alone does not say so and ReplacementSeed needs it.          *)
SeedNamed == \A c \in NodeClaims : cmd[c].phase = "seed" => cmd[c].repl \in NodeClaims

(* SeedNamed is inductive given the types. *)
LEMMA SeedNamedStep ==
    ASSUME TypeOK, SeedNamed, [Next]_vars
    PROVE  SeedNamed'
<1>1. cmd \in [NodeClaims -> Command]
  BY DEF TypeOK
<1>2. CASE Sync
  BY <1>2 DEF Sync, SeedNamed
<1>3. CASE EndUpdateNodeClaim
  BY <1>3 DEF EndUpdateNodeClaim, SeedNamed
<1>4. ASSUME NEW nc \in NodeClaims, InformerUpdate(nc) PROVE SeedNamed'
  BY <1>4 DEF InformerUpdate, SeedNamed
<1>5. ASSUME NEW nc \in NodeClaims, InformerDelete(nc) PROVE SeedNamed'
  BY <1>5 DEF InformerDelete, SeedNamed
<1>6. ASSUME NEW nc \in NodeClaims, NodeClaimGC(nc) PROVE SeedNamed'
  BY <1>6 DEF NodeClaimGC, SeedNamed
<1>7. ASSUME NEW nc \in NodeClaims, Launch(nc) PROVE SeedNamed'
  BY <1>7 DEF Launch, SeedNamed
<1>8. ASSUME NEW nc \in NodeClaims, Finalize(nc) PROVE SeedNamed'
  BY <1>8 DEF Finalize, SeedNamed
<1>9. CASE ProvisionRead
  BY <1>9 DEF ProvisionRead, SeedNamed
<1>10. CASE ProvisionReserve
  BY <1>10 DEF ProvisionReserve, SeedNamed
<1>11. CASE ProvisionRelease
  BY <1>11 DEF ProvisionRelease, SeedNamed
<1>12. ASSUME NEW nc \in NodeClaims, ProvisionCreate(nc) PROVE SeedNamed'
  BY <1>12 DEF ProvisionCreate, SeedNamed
<1>13. ASSUME NEW nc \in NodeClaims, ProvisionSeed(nc) PROVE SeedNamed'
  BY <1>13 DEF ProvisionSeed, SeedNamed
<1>14. CASE DeprovisionRead
  BY <1>14, SMTT(60) DEF DeprovisionRead, SeedNamed
<1>15. CASE DeprovisionSelect
  BY <1>15 DEF DeprovisionSelect, SeedNamed
<1>16. ASSUME NEW nc \in NodeClaims, DeprovisionDelete(nc) PROVE SeedNamed'
  BY <1>16 DEF DeprovisionDelete, SeedNamed
<1>17. ASSUME NEW nc \in NodeClaims, DeprovisionMark(nc) PROVE SeedNamed'
  BY <1>17, SMTT(60) DEF DeprovisionMark, SeedNamed
<1>18. CASE DriftCandidates
  BY <1>18, SMTT(60) DEF DriftCandidates, SeedNamed
<1>19. CASE DriftReserve
  BY <1>19, <1>1, SMTT(60) DEF DriftReserve, SeedNamed, Command, StartCommands
<1>20. ASSUME NEW c \in NodeClaims, MarkDisrupted(c) PROVE SeedNamed'
  BY <1>20, <1>1 DEF MarkDisrupted, SeedNamed, Command, SetPhase
<1>21. ASSUME NEW c \in NodeClaims, MarkPending(c) PROVE SeedNamed'
  BY <1>21, <1>1, SMTT(60) DEF MarkPending, SeedNamed, Command, SetPhase
<1>22. ASSUME NEW c \in NodeClaims, ReplacementSeed(c) PROVE SeedNamed'
  BY <1>22, <1>1 DEF ReplacementSeed, SeedNamed, Command, SetPhase
<1>23. ASSUME NEW c \in NodeClaims, ReplacementRelease(c) PROVE SeedNamed'
  BY <1>23, <1>1 DEF ReplacementRelease, SeedNamed, Command, NoCmd
<1>24. ASSUME NEW c \in NodeClaims, MarkForDeletion(c) PROVE SeedNamed'
  BY <1>24, <1>1, SMTT(60) DEF MarkForDeletion, SeedNamed, Command, SetPhase
<1>25. ASSUME NEW c \in NodeClaims, NEW nc \in NodeClaims, ReplacementCreate(c, nc) PROVE SeedNamed'
  BY <1>25, <1>1 DEF ReplacementCreate, SeedNamed, Command
<1>26. ASSUME NEW c \in NodeClaims, QueueTerminate(c) PROVE SeedNamed'
  BY <1>26, <1>1 DEF QueueTerminate, SeedNamed, Command, SetPhase
<1>27. ASSUME NEW c \in NodeClaims, QueueGiveUp(c) PROVE SeedNamed'
  BY <1>27, <1>1 DEF QueueGiveUp, SeedNamed, Command, SetPhase
<1>28. ASSUME NEW c \in NodeClaims, CompleteCommand(c) PROVE SeedNamed'
  BY <1>28, <1>1 DEF CompleteCommand, SeedNamed, Command, NoCmd
<1>29. CASE Restart
  BY <1>29, <1>1 DEF Restart, SeedNamed, Command, NoCmd
<1>30. CASE ProvisionCreateFails
  BY <1>30 DEF ProvisionCreateFails, SeedNamed
<1>31. ASSUME NEW nc \in NodeClaims, Drift(nc) PROVE SeedNamed'
  BY <1>31 DEF Drift, SeedNamed
<1>32. ASSUME NEW nc \in NodeClaims, ExternalDelete(nc) PROVE SeedNamed'
  BY <1>32 DEF ExternalDelete, SeedNamed
<1>33. ASSUME NEW nc \in NodeClaims, DeprovisionDeleteFails(nc) PROVE SeedNamed'
  BY <1>33 DEF DeprovisionDeleteFails, SeedNamed
<1>34. ASSUME NEW c \in NodeClaims, MarkDisruptedFails(c) PROVE SeedNamed'
  BY <1>34, <1>1 DEF MarkDisruptedFails, SeedNamed, Command, NoCmd
<1>35. ASSUME NEW c \in NodeClaims, ReplacementCreateFails(c) PROVE SeedNamed'
  BY <1>35, <1>1 DEF ReplacementCreateFails, SeedNamed, Command, SetPhase
<1>36. ASSUME NEW n \in Replicas, Scale(n) PROVE SeedNamed'
  BY <1>36 DEF Scale, SeedNamed
<1>37. CASE UNCHANGED vars
  BY <1>37, ZenonT(60) DEF vars, SeedNamed
<1> QED BY <1>2, <1>3, <1>4, <1>5, <1>6, <1>7, <1>8, <1>9, <1>10, <1>11, <1>12, <1>13, <1>14, <1>15, <1>16, <1>17, <1>18, <1>19, <1>20, <1>21, <1>22, <1>23, <1>24, <1>25, <1>26, <1>27, <1>28, <1>29, <1>30, <1>31, <1>32, <1>33, <1>34, <1>35, <1>36, <1>37, NextCases, ZenonT(60)

(* Every step keeps the types. *)
LEMMA TypeStep ==
    ASSUME TypeOK, SeedNamed, [Next]_vars
    PROVE  TypeOK'
<1>1. CASE Sync
  BY <1>1 DEF Sync, TypeOK
<1>2. CASE EndUpdateNodeClaim
  BY <1>2, UpdatePreserves, StaticCapacityAssumption, ZenonT(60) DEF EndUpdateNodeClaim, TypeOK
<1>3. ASSUME NEW nc \in NodeClaims, InformerUpdate(nc) PROVE TypeOK'
  <2>1. PICK o \in Claim : BeginUpdateNodeClaim(nc, o)
    BY <1>3, ZenonT(60) DEF InformerUpdate
  <2>2. /\ cluster' \in [NodeClaims -> ClusterEntry]
        /\ updating' \in NodeClaims \cup {None} /\ nps' \in NodePoolStates
    BY <2>1, BeginUpdatePreserves, SMTT(60)
  <2> QED BY <1>3, <2>2, ZenonT(60) DEF InformerUpdate, TypeOK
<1>4. ASSUME NEW nc \in NodeClaims, InformerDelete(nc) PROVE TypeOK'
  <2>1. Unknown \in ClusterEntry /\ [cluster[nc] EXCEPT !.pid = "none"] \in ClusterEntry
    BY DEF Unknown, ClusterEntry, TypeOK
  <2>2. cluster' \in [NodeClaims -> ClusterEntry] /\ nps' \in NodePoolStates
    BY <1>4, <2>1, CleanupPreserves, SMTT(60) DEF InformerDelete, DeleteNodeClaim, TypeOK
  <2> QED BY <1>4, <2>2 DEF InformerDelete, TypeOK
<1>5. ASSUME NEW nc \in NodeClaims, NodeClaimGC(nc) PROVE TypeOK'
  <2>1. Unknown \in ClusterEntry /\ [cluster[nc] EXCEPT !.pid = "none"] \in ClusterEntry
    BY DEF Unknown, ClusterEntry, TypeOK
  <2>2. cluster' \in [NodeClaims -> ClusterEntry] /\ nps' \in NodePoolStates
    BY <1>5, <2>1, CleanupPreserves, SMTT(60) DEF NodeClaimGC, DeleteNodeClaim, TypeOK
  <2> QED BY <1>5, <2>2 DEF NodeClaimGC, TypeOK
<1>6. ASSUME NEW nc \in NodeClaims, Launch(nc) PROVE TypeOK'
  BY <1>6 DEF Launch, TypeOK, Claim
<1>7. ASSUME NEW nc \in NodeClaims, Finalize(nc) PROVE TypeOK'
  BY <1>7 DEF Finalize, TypeOK, Claim, Absent
<1>8. CASE ProvisionRead
  BY <1>8, CountsNat, StaticCapacityAssumption, SMTT(60) DEF ProvisionRead, TypeOK
<1>9. CASE ProvisionReserve
  BY <1>9, ReservePreserves, StaticCapacityAssumption, Zenon DEF ProvisionReserve, TypeOK
<1>10. CASE ProvisionRelease
  BY <1>10, ReleasePreserves, StaticCapacityAssumption DEF ProvisionRelease, TypeOK
<1>11. ASSUME NEW nc \in NodeClaims, ProvisionCreate(nc) PROVE TypeOK'
  <2>1. Created \in Claim
    BY DEF Created, Claim
  <2>2. prov' \in [wanted : Nat, todo : Nat, seeding : SUBSET NodeClaims, releasing : Nat]
    <3>1. prov \in [wanted : Nat, todo : Nat, seeding : SUBSET NodeClaims, releasing : Nat]
      BY DEF TypeOK
    <3>2. prov.todo - 1 \in Nat /\ prov.releasing \in Nat
      BY <1>11, <3>1 DEF ProvisionCreate
    <3>3. prov' = [wanted |-> prov.wanted, todo |-> prov.todo - 1, seeding |-> prov.seeding \cup {nc}, releasing |-> prov.releasing]
      BY <1>11, <3>1, Zenon DEF ProvisionCreate
    <3> QED BY <3>1, <3>2, <3>3
  <2> QED BY <1>11, <2>1, <2>2 DEF ProvisionCreate, KubeCreate, TypeOK
<1>12. ASSUME NEW nc \in NodeClaims, ProvisionSeed(nc) PROVE TypeOK'
  <2>1. Created \in Claim
    BY DEF Created, Claim
  <2>2. prov' \in [wanted : Nat, todo : Nat, seeding : SUBSET NodeClaims, releasing : Nat]
    <3>1. prov \in [wanted : Nat, todo : Nat, seeding : SUBSET NodeClaims, releasing : Nat]
      BY DEF TypeOK
    <3>2. prov.todo \in Nat /\ prov.releasing + 1 \in Nat
      BY <1>12, <3>1 DEF ProvisionSeed
    <3>3. prov' = [wanted |-> prov.wanted, todo |-> prov.todo, seeding |-> prov.seeding \ {nc}, releasing |-> prov.releasing + 1]
      BY <1>12, <3>1, ZenonT(60) DEF ProvisionSeed
    <3> QED BY <3>1, <3>2, <3>3
  <2>3. BeginUpdateNodeClaim(nc, Created)
    BY <1>12 DEF ProvisionSeed
  <2>4. /\ cluster' \in [NodeClaims -> ClusterEntry]
        /\ updating' \in NodeClaims \cup {None} /\ nps' \in NodePoolStates
    BY <2>1, <2>3, BeginUpdatePreserves
  <2> QED BY <1>12, <2>2, <2>4 DEF ProvisionSeed, TypeOK
<1>13. CASE DeprovisionRead
  BY <1>13, CountsNat, StaticCapacityAssumption, SMTT(60) DEF DeprovisionRead, TypeOK
<1>14. CASE DeprovisionSelect
  <2>1. deprov' \in [count : Nat, targets : SUBSET NodeClaims, marks : SUBSET NodeClaims]
    <3>1. PICK U \in SUBSET NodeClaims, R \in SUBSET NodeClaims :
             deprov' = [count |-> 0, targets |-> U \cup R, marks |-> {}]
      BY <1>14, Zenon DEF DeprovisionSelect
    <3> QED BY <3>1, SMTT(60)
  <2> QED BY <1>14, <2>1, ZenonT(60) DEF DeprovisionSelect, TypeOK
<1>15. ASSUME NEW nc \in NodeClaims, DeprovisionDelete(nc) PROVE TypeOK'
  BY <1>15, ZenonT(60) DEF DeprovisionDelete, TypeOK, Delete, Claim
<1>16. ASSUME NEW nc \in NodeClaims, DeprovisionMark(nc) PROVE TypeOK'
  BY <1>16, MarksPreserve, StaticCapacityAssumption, Zenon DEF DeprovisionMark, TypeOK
<1>17. CASE DriftCandidates
  BY <1>17, SMTT(60) DEF DriftCandidates, TypeOK
<1>18. CASE DriftReserve
  <2>1. nps' \in NodePoolStates
    <3> DEFINE w == SmallerOf(AllowedDisruptions, Cardinality(drift))
    <3>w. w \in Nat
      BY MaxDriftsNat, SMTT(60)
    <3>1. ReserveNodeCount(nps, Pool, NodeLimit, w) \in NodePoolStates
      <4> HIDE DEF w
      <4> QED BY <3>w, ReservePreserves, StaticCapacityAssumption, SMTT(60) DEF TypeOK
    <3>2. nps' \in {nps, ReserveNodeCount(nps, Pool, NodeLimit, w)}
      BY <1>18, Zenon DEF DriftReserve
    <3> QED BY <3>1, <3>2, SMTT(60) DEF TypeOK
  <2>2. ASSUME NEW S, NEW b \in BOOLEAN, StartCommands(S, b) PROVE cmd' \in [NodeClaims -> Command]
    <3>1. [phase |-> "start", repl |-> None, staged |-> b] \in Command
      BY DEF Command, CmdPhases
    <3> QED BY <2>2, <3>1 DEF StartCommands, TypeOK
  <2>3. cmd' \in [NodeClaims -> Command]
    <3>1. \/ UNCHANGED cmd
          \/ \E S : StartCommands(S, TRUE)
          \/ \E S : StartCommands(S, FALSE)
      BY <1>18, ZenonT(60) DEF DriftReserve
    <3> QED BY <3>1, <2>2, Zenon DEF TypeOK
  <2> QED BY <1>18, <2>1, <2>3, SMTT(60) DEF DriftReserve, TypeOK
<1>19. ASSUME NEW c \in NodeClaims, MarkDisrupted(c) PROVE TypeOK'
  BY <1>19, CommandTypes DEF MarkDisrupted, CmdPhases, TypeOK
<1>20. ASSUME NEW c \in NodeClaims, MarkPending(c) PROVE TypeOK'
  <2>1. nps' \in NodePoolStates
    BY <1>20, MarksPreserve, StaticCapacityAssumption, ZenonT(60) DEF MarkPending, TypeOK
  <2>2. cmd' \in [NodeClaims -> Command]
    BY <1>20, CommandTypes, SMTT(60) DEF MarkPending, CmdPhases
  <2> QED BY <1>20, <2>1, <2>2 DEF MarkPending, TypeOK
<1>21. ASSUME NEW c \in NodeClaims, ReplacementSeed(c) PROVE TypeOK'
  <2>1. Created \in Claim
    BY DEF Created, Claim
  <2>2. cmd' \in [NodeClaims -> Command]
    BY <1>21, CommandTypes, SMTT(60) DEF ReplacementSeed, CmdPhases
  <2>3. cmd[c].repl \in NodeClaims /\ BeginUpdateNodeClaim(cmd[c].repl, Created)
    BY <1>21, SMTT(60) DEF ReplacementSeed, SeedNamed
  <2>4. /\ cluster' \in [NodeClaims -> ClusterEntry]
        /\ updating' \in NodeClaims \cup {None} /\ nps' \in NodePoolStates
    BY <2>1, <2>3, BeginUpdatePreserves, SMTT(60)
  <2> QED BY <1>21, <2>2, <2>4, SMTT(60) DEF ReplacementSeed, TypeOK
<1>22. ASSUME NEW c \in NodeClaims, ReplacementRelease(c) PROVE TypeOK'
  <2>1. nps' \in NodePoolStates
    BY <1>22, ReleasePreserves, StaticCapacityAssumption, SMTT(60) DEF ReplacementRelease, TypeOK
  <2>2. cmd[c] \in Command /\ [cmd[c] EXCEPT !.phase = "markdel"] \in Command
    BY SMTT(60) DEF TypeOK, Command, CmdPhases
  <2>3. cmd' \in [NodeClaims -> Command]
    BY <1>22, <2>2, CommandTypes, SMTT(60) DEF ReplacementRelease, TypeOK
  <2> QED BY <1>22, <2>1, <2>3, SMTT(60) DEF ReplacementRelease, TypeOK
<1>23. ASSUME NEW c \in NodeClaims, MarkForDeletion(c) PROVE TypeOK'
  <2>1. nps' \in NodePoolStates
    BY <1>23, MarksPreserve, StaticCapacityAssumption, SMTT(60) DEF MarkForDeletion, TypeOK
  <2>2. cmd' \in [NodeClaims -> Command]
    BY <1>23, CommandTypes, SMTT(60) DEF MarkForDeletion, CmdPhases
  <2>3. cluster' \in [NodeClaims -> ClusterEntry]
    <3>1. [cluster[c] EXCEPT !.marked = cluster[c].marked \/ cluster[c].node] \in ClusterEntry
      BY SMTT(60) DEF TypeOK, ClusterEntry
    <3>2. cluster' = [cluster EXCEPT ![c] = [cluster[c] EXCEPT !.marked = cluster[c].marked \/ cluster[c].node]]
      BY <1>23 DEF MarkForDeletion, TypeOK
    <3> QED BY <3>1, <3>2, SMTT(60) DEF TypeOK
  <2> QED BY <1>23, <2>1, <2>2, <2>3, SMTT(60) DEF MarkForDeletion, TypeOK
<1>24. ASSUME NEW c \in NodeClaims, NEW nc \in NodeClaims, ReplacementCreate(c, nc) PROVE TypeOK'
  <2>1. api' \in [NodeClaims -> Claim]
    BY <1>24 DEF ReplacementCreate, TypeOK, KubeCreate, Claim, Created
  <2>2. cmd' \in [NodeClaims -> Command]
    <3>1. cmd \in [NodeClaims -> Command]
      BY DEF TypeOK
    <3>2. cmd' = [cmd EXCEPT ![c] = [cmd[c] EXCEPT !.phase = "seed", !.repl = nc]]
      BY <1>24, <3>1, Zenon DEF ReplacementCreate
    <3>3. [cmd[c] EXCEPT !.phase = "seed", !.repl = nc] \in Command
      BY <3>1, Zenon DEF Command, CmdPhases
    <3> QED BY <3>1, <3>2, <3>3, SMTT(60)
  <2> QED BY <1>24, <2>1, <2>2, SMTT(60) DEF ReplacementCreate, TypeOK, KubeCreate
<1>25. ASSUME NEW c \in NodeClaims, QueueTerminate(c) PROVE TypeOK'
  <2>1. cmd' \in [NodeClaims -> Command]
    BY <1>25, CommandTypes, SMTT(60) DEF QueueTerminate, CmdPhases
  <2>2. api' \in [NodeClaims -> Claim]
    BY <1>25, ZenonT(60) DEF QueueTerminate, Delete, TypeOK, Claim
  <2> QED BY <1>25, <2>1, <2>2 DEF QueueTerminate, TypeOK
<1>26. ASSUME NEW c \in NodeClaims, QueueGiveUp(c) PROVE TypeOK'
  BY <1>26, CommandTypes DEF QueueGiveUp, CmdPhases, TypeOK
<1>27. ASSUME NEW c \in NodeClaims, CompleteCommand(c) PROVE TypeOK'
  <2>1. nps' \in NodePoolStates
    <3>1. MarkNodeClaimActive(nps, Pool, c) \in NodePoolStates
      BY MarksPreserve, StaticCapacityAssumption DEF TypeOK
    <3> QED BY <1>27, <3>1 DEF CompleteCommand, TypeOK
  <2>2. cmd' \in [NodeClaims -> Command]
    BY <1>27, CommandTypes DEF CompleteCommand, TypeOK
  <2>3. cluster' \in [NodeClaims -> ClusterEntry]
    <3>1. [cluster[c] EXCEPT !.marked = FALSE] \in ClusterEntry
      <4>1. cluster[c] \in ClusterEntry
        BY DEF TypeOK
      <4> QED BY <4>1, ZenonT(60) DEF ClusterEntry
    <3>2. cluster' \in {cluster, [cluster EXCEPT ![c] = [cluster[c] EXCEPT !.marked = FALSE]]}
      BY <1>27 DEF CompleteCommand, TypeOK
    <3> QED BY <3>1, <3>2, Zenon DEF TypeOK
  <2> QED BY <1>27, <2>1, <2>2, <2>3 DEF CompleteCommand, TypeOK
<1>28. CASE Restart
  BY <1>28, NewState, Zenon DEF Restart, TypeOK, ClusterEntry, Unknown, ProvIdle, DeprovIdle, NoCmd, Command, CmdPhases
<1>29. CASE ProvisionCreateFails
  <2>1. prov' \in [wanted : Nat, todo : Nat, seeding : SUBSET NodeClaims, releasing : Nat]
    <3>1. prov \in [wanted : Nat, todo : Nat, seeding : SUBSET NodeClaims, releasing : Nat]
      BY DEF TypeOK
    <3>2. prov.todo - 1 \in Nat /\ prov.releasing + 1 \in Nat
      BY <1>29, <3>1 DEF ProvisionCreateFails
    <3>3. prov' = [wanted |-> prov.wanted, todo |-> prov.todo - 1, seeding |-> prov.seeding, releasing |-> prov.releasing + 1]
      BY <1>29, <3>1, Zenon DEF ProvisionCreateFails
    <3> QED BY <3>1, <3>2, <3>3
  <2> QED BY <1>29, <2>1 DEF ProvisionCreateFails, TypeOK
<1>30. ASSUME NEW nc \in NodeClaims, Drift(nc) PROVE TypeOK'
  BY <1>30, ZenonT(60) DEF Drift, TypeOK, Claim
<1>31. ASSUME NEW nc \in NodeClaims, ExternalDelete(nc) PROVE TypeOK'
  BY <1>31, ZenonT(60) DEF ExternalDelete, TypeOK, Delete, Claim
<1>32. ASSUME NEW nc \in NodeClaims, DeprovisionDeleteFails(nc) PROVE TypeOK'
  BY <1>32 DEF DeprovisionDeleteFails, TypeOK
<1>33. ASSUME NEW c \in NodeClaims, MarkDisruptedFails(c) PROVE TypeOK'
  BY <1>33, ReleasePreserves, StaticCapacityAssumption, ZenonT(60) DEF MarkDisruptedFails, TypeOK, NoCmd, Command, CmdPhases
<1>34. ASSUME NEW c \in NodeClaims, ReplacementCreateFails(c) PROVE TypeOK'
  BY <1>34, CommandTypes, SMTT(60) DEF ReplacementCreateFails, CmdPhases, TypeOK
<1>35. ASSUME NEW n \in Replicas, Scale(n) PROVE TypeOK'
  BY <1>35, SMTT(60) DEF Scale, TypeOK
<1>36. CASE UNCHANGED vars
  BY <1>36, SMTT(60) DEF vars, TypeOK
<1> QED BY <1>1, <1>2, <1>3, <1>4, <1>5, <1>6, <1>7, <1>8, <1>9, <1>10, <1>11, <1>12, <1>13, <1>14, <1>15, <1>16, <1>17, <1>18, <1>19, <1>20, <1>21, <1>22, <1>23, <1>24, <1>25, <1>26, <1>27, <1>28, <1>29, <1>30, <1>31, <1>32, <1>33, <1>34, <1>35, <1>36, NextCases, ZenonT(60)

(* Every reachable state of a static pool is well typed, and seeds have a *)
(* name.                                                                  *)
THEOREM TypeInvariant == Spec => [](TypeOK /\ SeedNamed)
<1>1. Init => TypeOK
  <2>1. /\ Absent \in Claim
        /\ Unknown \in ClusterEntry
        /\ NoCmd \in Command
    BY SMTT(60) DEF Absent, Claim, Unknown, ClusterEntry, NoCmd, Command, CmdPhases
  <2>2. /\ ProvIdle \in [wanted : Nat, todo : Nat, seeding : SUBSET NodeClaims, releasing : Nat]
        /\ DeprovIdle \in [count : Nat, targets : SUBSET NodeClaims, marks : SUBSET NodeClaims]
    BY SMTT(60) DEF ProvIdle, DeprovIdle
  <2>3. ASSUME Init PROVE TypeOK
    <3>1. api \in [NodeClaims -> Claim] /\ cluster \in [NodeClaims -> ClusterEntry] /\ cmd \in [NodeClaims -> Command]
      BY <2>1, <2>3 DEF Init
    <3>2. /\ prov \in [wanted : Nat, todo : Nat, seeding : SUBSET NodeClaims, releasing : Nat]
          /\ deprov \in [count : Nat, targets : SUBSET NodeClaims, marks : SUBSET NodeClaims]
          /\ nps \in NodePoolStates
      BY <2>2, <2>3, NewState DEF Init
    <3> QED BY <2>3, <3>1, <3>2, Zenon DEF Init, TypeOK
  <2> QED BY <2>3, SMTT(60)
<1>2. TypeOK /\ SeedNamed /\ [Next]_vars => TypeOK'
  BY TypeStep
<1>3. Init => SeedNamed
  BY DEF Init, SeedNamed, NoCmd
<1>4. TypeOK /\ SeedNamed /\ [Next]_vars => SeedNamed'
  BY SeedNamedStep
<1> QED BY <1>1, <1>2, <1>3, <1>4, PTL DEF Spec

(* Every reachable state of a static pool is well typed. *)
THEOREM TypeCorrect == Spec => []TypeOK
BY TypeInvariant, PTL

(* NodePoolState files a claim once, in any interleaving of the queue, the *)
(* informers, deprovisioning and provisioning (statenodepool.go:71-101):   *)
(* FiledOnce is inductive given the types.                                 *)
THEOREM FiledOnceHolds == Spec => []FiledOnce
<1>1. Init => FiledOnce
  BY NewState, StaticCapacityAssumption, ZenonT(60) DEF Init, FiledOnce, Disjoint
<1>2. TypeOK /\ SeedNamed /\ FiledOnce /\ [Next]_vars => FiledOnce'
  <2> SUFFICES ASSUME TypeOK, SeedNamed, FiledOnce, [Next]_vars
               PROVE  Disjoint(nps'.claims[Pool])
    BY DEF FiledOnce, Disjoint
  <2>t. nps \in NodePoolStates
    BY DEF TypeOK
  <2>d. Disjoint(nps.claims[Pool])
    BY ZenonT(60) DEF FiledOnce, Disjoint
  <2>f. FiledOnce' => Disjoint(nps'.claims[Pool])
    BY DEF FiledOnce, Disjoint
  <2>c. Created \in Claim
    BY DEF Created, Claim
  <2>1. CASE Sync
    BY <2>1, <2>d, ZenonT(60) DEF Sync
  <2>2. CASE EndUpdateNodeClaim
    BY <2>2, <2>t, <2>d, UpdatePreserves, StaticCapacityAssumption, ZenonT(60) DEF EndUpdateNodeClaim, TypeOK
  <2>3. ASSUME NEW nc \in NodeClaims, InformerUpdate(nc) PROVE Disjoint(nps'.claims[Pool])
    <3>1. PICK o \in Claim : BeginUpdateNodeClaim(nc, o)
      BY <2>3 DEF InformerUpdate
    <3> QED BY <3>1, <2>d, <2>f, BeginUpdatePreserves, ZenonT(60)
  <2>4. ASSUME NEW nc \in NodeClaims, InformerDelete(nc) PROVE Disjoint(nps'.claims[Pool])
    BY <2>4, <2>t, <2>d, CleanupPreserves, StaticCapacityAssumption DEF InformerDelete, DeleteNodeClaim
  <2>5. ASSUME NEW nc \in NodeClaims, NodeClaimGC(nc) PROVE Disjoint(nps'.claims[Pool])
    BY <2>5, <2>t, <2>d, CleanupPreserves, StaticCapacityAssumption DEF NodeClaimGC, DeleteNodeClaim
  <2>6. ASSUME NEW nc \in NodeClaims, Launch(nc) PROVE Disjoint(nps'.claims[Pool])
    BY <2>6, <2>d DEF Launch
  <2>7. ASSUME NEW nc \in NodeClaims, Finalize(nc) PROVE Disjoint(nps'.claims[Pool])
    BY <2>7, <2>d DEF Finalize
  <2>8. CASE ProvisionRead
    BY <2>8, <2>d DEF ProvisionRead
  <2>9. CASE ProvisionReserve
    BY <2>9, <2>t, <2>d, ReservePreserves, StaticCapacityAssumption, SMTT(60) DEF ProvisionReserve, TypeOK
  <2>10. CASE ProvisionRelease
    BY <2>10, <2>t, <2>d, ReleasePreserves, StaticCapacityAssumption DEF ProvisionRelease
  <2>11. ASSUME NEW nc \in NodeClaims, ProvisionCreate(nc) PROVE Disjoint(nps'.claims[Pool])
    BY <2>11, <2>d DEF ProvisionCreate
  <2>12. ASSUME NEW nc \in NodeClaims, ProvisionSeed(nc) PROVE Disjoint(nps'.claims[Pool])
    BY <2>12, <2>c, <2>d, <2>f, BeginUpdatePreserves, SMTT(60) DEF ProvisionSeed
  <2>13. CASE DeprovisionRead
    BY <2>13, <2>d, ZenonT(60) DEF DeprovisionRead
  <2>14. CASE DeprovisionSelect
    BY <2>14, <2>d DEF DeprovisionSelect
  <2>15. ASSUME NEW nc \in NodeClaims, DeprovisionDelete(nc) PROVE Disjoint(nps'.claims[Pool])
    BY <2>15, <2>d DEF DeprovisionDelete
  <2>16. ASSUME NEW nc \in NodeClaims, DeprovisionMark(nc) PROVE Disjoint(nps'.claims[Pool])
    BY <2>16, <2>t, <2>d, MarksPreserve, StaticCapacityAssumption, ZenonT(60) DEF DeprovisionMark
  <2>17. CASE DriftCandidates
    BY <2>17, <2>d DEF DriftCandidates
  <2>18. CASE DriftReserve
    <3> DEFINE w == SmallerOf(AllowedDisruptions, Cardinality(drift))
    <3>w. w \in Nat
      BY MaxDriftsNat
    <3>1. ReserveNodeCount(nps, Pool, NodeLimit, w).claims = nps.claims
      <4> HIDE DEF w
      <4> QED BY <3>w, <2>t, ReservePreserves, StaticCapacityAssumption, SMTT(60)
    <3>2. nps' \in {nps, ReserveNodeCount(nps, Pool, NodeLimit, w)}
      BY <2>18, Zenon DEF DriftReserve
    <3> QED BY <2>d, <3>1, <3>2
  <2>19. ASSUME NEW c \in NodeClaims, MarkDisrupted(c) PROVE Disjoint(nps'.claims[Pool])
    BY <2>19, <2>d DEF MarkDisrupted
  <2>20. ASSUME NEW c \in NodeClaims, MarkPending(c) PROVE Disjoint(nps'.claims[Pool])
    BY <2>20, <2>t, <2>d, MarksPreserve, StaticCapacityAssumption, ZenonT(60) DEF MarkPending
  <2>21. ASSUME NEW c \in NodeClaims, ReplacementSeed(c) PROVE Disjoint(nps'.claims[Pool])
    BY <2>21, <2>c, <2>d, <2>f, BeginUpdatePreserves DEF ReplacementSeed, SeedNamed
  <2>22. ASSUME NEW c \in NodeClaims, ReplacementRelease(c) PROVE Disjoint(nps'.claims[Pool])
    BY <2>22, <2>t, <2>d, ReleasePreserves, StaticCapacityAssumption DEF ReplacementRelease
  <2>23. ASSUME NEW c \in NodeClaims, MarkForDeletion(c) PROVE Disjoint(nps'.claims[Pool])
    BY <2>23, <2>t, <2>d, MarksPreserve, StaticCapacityAssumption DEF MarkForDeletion
  <2>24. ASSUME NEW c \in NodeClaims, NEW nc \in NodeClaims, ReplacementCreate(c, nc) PROVE Disjoint(nps'.claims[Pool])
    BY <2>24, <2>d DEF ReplacementCreate
  <2>25. ASSUME NEW c \in NodeClaims, QueueTerminate(c) PROVE Disjoint(nps'.claims[Pool])
    BY <2>25, <2>d DEF QueueTerminate
  <2>26. ASSUME NEW c \in NodeClaims, QueueGiveUp(c) PROVE Disjoint(nps'.claims[Pool])
    BY <2>26, <2>d DEF QueueGiveUp
  <2>27. ASSUME NEW c \in NodeClaims, CompleteCommand(c) PROVE Disjoint(nps'.claims[Pool])
    <3>1. Disjoint(MarkNodeClaimActive(nps, Pool, c).claims[Pool])
      BY <2>t, <2>d, MarksPreserve, StaticCapacityAssumption
    <3> QED BY <2>27, <2>d, <3>1 DEF CompleteCommand
  <2>28. CASE Restart
    BY <2>28, NewState, StaticCapacityAssumption DEF Restart
  <2>29. CASE ProvisionCreateFails
    BY <2>29, <2>d DEF ProvisionCreateFails
  <2>30. ASSUME NEW nc \in NodeClaims, Drift(nc) PROVE Disjoint(nps'.claims[Pool])
    BY <2>30, <2>d DEF Drift
  <2>31. ASSUME NEW nc \in NodeClaims, ExternalDelete(nc) PROVE Disjoint(nps'.claims[Pool])
    BY <2>31, <2>d DEF ExternalDelete
  <2>32. ASSUME NEW nc \in NodeClaims, DeprovisionDeleteFails(nc) PROVE Disjoint(nps'.claims[Pool])
    BY <2>32, <2>d DEF DeprovisionDeleteFails
  <2>33. ASSUME NEW c \in NodeClaims, MarkDisruptedFails(c) PROVE Disjoint(nps'.claims[Pool])
    BY <2>33, <2>t, <2>d, ReleasePreserves, StaticCapacityAssumption, ZenonT(60) DEF MarkDisruptedFails
  <2>34. ASSUME NEW c \in NodeClaims, ReplacementCreateFails(c) PROVE Disjoint(nps'.claims[Pool])
    BY <2>34, <2>d DEF ReplacementCreateFails
  <2>35. ASSUME NEW n \in Replicas, Scale(n) PROVE Disjoint(nps'.claims[Pool])
    BY <2>35, <2>d DEF Scale
  <2>36. CASE UNCHANGED vars
    BY <2>36, <2>d DEF vars
  <2> QED BY <2>1, <2>2, <2>3, <2>4, <2>5, <2>6, <2>7, <2>8, <2>9, <2>10, <2>11, <2>12, <2>13, <2>14, <2>15, <2>16, <2>17, <2>18, <2>19, <2>20, <2>21, <2>22, <2>23, <2>24, <2>25, <2>26, <2>27, <2>28, <2>29, <2>30, <2>31, <2>32, <2>33, <2>34, <2>35, <2>36, NextCases, ZenonT(60)
<1> QED BY <1>1, <1>2, TypeInvariant, PTL DEF Spec

(* What NoReservationLeak needs to be inductive: a claim being seeded has a *)
(* name that generateName will not return again, a Reconcile that is about  *)
(* to reserve holds no slot yet, and the candidates of a disruption pass    *)
(* have no command.                                                         *)
Slots == /\ prov.seeding \subseteq used
         /\ prov.wanted > 0 => prov.todo = 0
         /\ \A c \in drift : cmd[c].phase = "none"

(* Slots is an invariant. *)
THEOREM SlotsHold == Spec => []Slots
<1>1. Init => Slots
  BY SMTT(60) DEF Init, Slots, ProvIdle
<1>2. TypeOK /\ SeedNamed /\ Slots /\ [Next]_vars => Slots'
  <2> SUFFICES ASSUME TypeOK, SeedNamed, Slots, [Next]_vars PROVE Slots'
    OBVIOUS
  <2>t. /\ cmd \in [NodeClaims -> Command] /\ drift \subseteq NodeClaims
        /\ prov \in [wanted : Nat, todo : Nat, seeding : SUBSET NodeClaims, releasing : Nat]
    BY ZenonT(60) DEF TypeOK
  <2>1. CASE Sync
    BY <2>1, <2>t DEF Sync, Slots, Command
  <2>2. CASE EndUpdateNodeClaim
    BY <2>2, <2>t, ZenonT(60) DEF EndUpdateNodeClaim, Slots, Command
  <2>3. ASSUME NEW nc \in NodeClaims, InformerUpdate(nc) PROVE Slots'
    BY <2>3, <2>t DEF InformerUpdate, Slots, Command
  <2>4. ASSUME NEW nc \in NodeClaims, InformerDelete(nc) PROVE Slots'
    BY <2>4, <2>t, ZenonT(60) DEF InformerDelete, Slots, Command
  <2>5. ASSUME NEW nc \in NodeClaims, NodeClaimGC(nc) PROVE Slots'
    BY <2>5, <2>t DEF NodeClaimGC, Slots, Command
  <2>6. ASSUME NEW nc \in NodeClaims, Launch(nc) PROVE Slots'
    BY <2>6, <2>t DEF Launch, Slots, Command
  <2>7. ASSUME NEW nc \in NodeClaims, Finalize(nc) PROVE Slots'
    BY <2>7, <2>t DEF Finalize, Slots, Command
  <2>8. CASE ProvisionRead
    BY <2>8, <2>t DEF ProvisionRead, Slots, Command, ProvIdle
  <2>9. CASE ProvisionReserve
    BY <2>9, <2>t DEF ProvisionReserve, Slots, Command
  <2>10. CASE ProvisionRelease
    BY <2>10, <2>t DEF ProvisionRelease, Slots, Command
  <2>11. ASSUME NEW nc \in NodeClaims, ProvisionCreate(nc) PROVE Slots'
    BY <2>11, <2>t DEF ProvisionCreate, Slots, Command, KubeCreate
  <2>12. ASSUME NEW nc \in NodeClaims, ProvisionSeed(nc) PROVE Slots'
    BY <2>12, <2>t DEF ProvisionSeed, Slots, Command
  <2>13. CASE DeprovisionRead
    BY <2>13, <2>t, ZenonT(60) DEF DeprovisionRead, Slots, Command
  <2>14. CASE DeprovisionSelect
    BY <2>14, <2>t DEF DeprovisionSelect, Slots, Command
  <2>15. ASSUME NEW nc \in NodeClaims, DeprovisionDelete(nc) PROVE Slots'
    BY <2>15, <2>t DEF DeprovisionDelete, Slots, Command
  <2>16. ASSUME NEW nc \in NodeClaims, DeprovisionMark(nc) PROVE Slots'
    BY <2>16, <2>t DEF DeprovisionMark, Slots, Command
  <2>17. CASE DriftCandidates
    BY <2>17, <2>t, ZenonT(60) DEF DriftCandidates, Slots, Command
  <2>18. CASE DriftReserve
    BY <2>18, <2>t DEF DriftReserve, Slots, Command, StartCommands
  <2>19. ASSUME NEW c \in NodeClaims, MarkDisrupted(c) PROVE Slots'
    BY <2>19, <2>t DEF MarkDisrupted, Slots, Command, SetPhase
  <2>20. ASSUME NEW c \in NodeClaims, MarkPending(c) PROVE Slots'
    BY <2>20, <2>t DEF MarkPending, Slots, Command, SetPhase
  <2>21. ASSUME NEW c \in NodeClaims, ReplacementSeed(c) PROVE Slots'
    BY <2>21, <2>t DEF ReplacementSeed, Slots, Command, SetPhase
  <2>22. ASSUME NEW c \in NodeClaims, ReplacementRelease(c) PROVE Slots'
    BY <2>22, <2>t DEF ReplacementRelease, Slots, Command, NoCmd
  <2>23. ASSUME NEW c \in NodeClaims, MarkForDeletion(c) PROVE Slots'
    BY <2>23, <2>t DEF MarkForDeletion, Slots, Command, SetPhase
  <2>24. ASSUME NEW c \in NodeClaims, NEW nc \in NodeClaims, ReplacementCreate(c, nc) PROVE Slots'
    BY <2>24, <2>t DEF ReplacementCreate, Slots, Command, KubeCreate
  <2>25. ASSUME NEW c \in NodeClaims, QueueTerminate(c) PROVE Slots'
    BY <2>25, <2>t DEF QueueTerminate, Slots, Command, SetPhase
  <2>26. ASSUME NEW c \in NodeClaims, QueueGiveUp(c) PROVE Slots'
    BY <2>26, <2>t DEF QueueGiveUp, Slots, Command, SetPhase
  <2>27. ASSUME NEW c \in NodeClaims, CompleteCommand(c) PROVE Slots'
    BY <2>27, <2>t DEF CompleteCommand, Slots, Command, NoCmd
  <2>28. CASE Restart
    BY <2>28, <2>t DEF Restart, Slots, Command, NoCmd, ProvIdle
  <2>29. CASE ProvisionCreateFails
    BY <2>29, <2>t DEF ProvisionCreateFails, Slots, Command
  <2>30. ASSUME NEW nc \in NodeClaims, Drift(nc) PROVE Slots'
    BY <2>30, <2>t DEF Drift, Slots, Command
  <2>31. ASSUME NEW nc \in NodeClaims, ExternalDelete(nc) PROVE Slots'
    BY <2>31, <2>t DEF ExternalDelete, Slots, Command
  <2>32. ASSUME NEW nc \in NodeClaims, DeprovisionDeleteFails(nc) PROVE Slots'
    BY <2>32, <2>t DEF DeprovisionDeleteFails, Slots, Command
  <2>33. ASSUME NEW c \in NodeClaims, MarkDisruptedFails(c) PROVE Slots'
    BY <2>33, <2>t DEF MarkDisruptedFails, Slots, Command, NoCmd
  <2>34. ASSUME NEW c \in NodeClaims, ReplacementCreateFails(c) PROVE Slots'
    BY <2>34, <2>t DEF ReplacementCreateFails, Slots, Command, SetPhase
  <2>35. ASSUME NEW n \in Replicas, Scale(n) PROVE Slots'
    BY <2>35, <2>t, ZenonT(60) DEF Scale, Slots, Command
  <2>36. CASE UNCHANGED vars
    BY <2>36 DEF vars, Slots
  <2> QED BY <2>1, <2>2, <2>3, <2>4, <2>5, <2>6, <2>7, <2>8, <2>9, <2>10, <2>11, <2>12, <2>13, <2>14, <2>15, <2>16, <2>17, <2>18, <2>19, <2>20, <2>21, <2>22, <2>23, <2>24, <2>25, <2>26, <2>27, <2>28, <2>29, <2>30, <2>31, <2>32, <2>33, <2>34, <2>35, <2>36, NextCases, ZenonT(60)
<1> QED BY <1>1, <1>2, TypeInvariant, PTL DEF Spec

(* No slot of the node limit leaks (queue.go:364-416,                       *)
(* provisioner.go:202-208, statenodepool.go:134-178).  Each action either   *)
(* leaves both sides alone, moves a slot from one holder to the next, or    *)
(* lowers the counter when a holder goes.                                   *)
THEOREM NoReservationLeakHolds == Spec => []NoReservationLeak
<1>1. Init => NoReservationLeak
  <2> SUFFICES ASSUME Init PROVE NoReservationLeak
    OBVIOUS
  <2>1. nps.reserved[Pool] = 0
    BY NewState, StaticCapacityAssumption DEF Init
  <2>2. prov.todo = 0 /\ prov.seeding = {} /\ prov.releasing = 0
    BY DEF Init, ProvIdle
  <2>3. Cardinality(Holding) \in Nat
    BY NodePoolStateAssumption, FS_Subset, FS_CardinalityType, ZenonT(60) DEF Holding
  <2> QED BY <2>1, <2>2, <2>3, FS_EmptySet DEF NoReservationLeak, Outstanding
<1>2. TypeOK /\ SeedNamed /\ Slots /\ NoReservationLeak /\ [Next]_vars => NoReservationLeak'
  <2> SUFFICES ASSUME TypeOK, SeedNamed, Slots, NoReservationLeak, [Next]_vars
               PROVE  NoReservationLeak'
    OBVIOUS
  <2>t. cmd \in [NodeClaims -> Command]
    BY DEF TypeOK
  <2>n. nps \in NodePoolStates
    BY DEF TypeOK
  <2>p. prov \in [wanted : Nat, todo : Nat, seeding : SUBSET NodeClaims, releasing : Nat]
    BY DEF TypeOK
  <2>i. nps.reserved[Pool] <= Outstanding
    BY DEF NoReservationLeak
  <2>r. nps.reserved[Pool] \in Nat
    BY <2>n, StaticCapacityAssumption DEF NodePoolStates
  <2>q. IsFiniteSet(prov.seeding) /\ Cardinality(prov.seeding) \in Nat
    BY <2>p, NodePoolStateAssumption, FS_Subset, FS_CardinalityType, ZenonT(60)
  <2>m. /\ IsFiniteSet(Holding) /\ Cardinality(Holding) \in Nat
        /\ prov.todo \in Nat /\ prov.releasing \in Nat /\ Cardinality(prov.seeding) \in Nat
    BY <2>p, <2>q, NodePoolStateAssumption, FS_Subset, FS_CardinalityType DEF Holding
  <2>c. Created \in Claim
    BY DEF Created, Claim
  <2>h. cmd' = cmd => Holding' = Holding
    BY DEF Holding
  <2>z. nps'.reserved[Pool] \in Nat
    BY TypeStep, StaticCapacityAssumption, ZenonT(60) DEF TypeOK, NodePoolStates
  <2>s. ASSUME prov' = prov, Holding' = Holding,
               nps'.reserved[Pool] <= nps.reserved[Pool] \/ nps' = nps
        PROVE  NoReservationLeak'
    <3>1. Outstanding' = Outstanding /\ Outstanding \in Nat
      BY <2>s, <2>m DEF Outstanding
    <3>2. nps'.reserved[Pool] <= nps.reserved[Pool]
      BY <2>s, <2>r
    <3> QED BY <2>i, <2>r, <2>z, <3>1, <3>2, SMTT(60) DEF NoReservationLeak
  <2>1. CASE Sync
    BY <2>1, <2>s, <2>r, <2>h, ZenonT(60) DEF Sync
  <2>2. CASE EndUpdateNodeClaim
    <3>1. nps'.reserved = nps.reserved
      BY <2>2, <2>n, UpdatePreserves, StaticCapacityAssumption, ZenonT(60) DEF EndUpdateNodeClaim, TypeOK
    <3> QED BY <2>2, <2>s, <2>r, <3>1, <2>h, SMTT(60) DEF EndUpdateNodeClaim
  <2>3. ASSUME NEW nc \in NodeClaims, InformerUpdate(nc) PROVE NoReservationLeak'
    <3>1. PICK o \in Claim : BeginUpdateNodeClaim(nc, o)
      BY <2>3 DEF InformerUpdate
    <3>2. nps'.reserved[Pool] <= nps.reserved[Pool]
      BY <3>1, BeginUpdatePreserves
    <3> QED BY <2>3, <2>s, <3>2, <2>h, ZenonT(60) DEF InformerUpdate
  <2>4. ASSUME NEW nc \in NodeClaims, InformerDelete(nc) PROVE NoReservationLeak'
    <3>1. nps'.reserved[Pool] <= nps.reserved[Pool]
      BY <2>4, <2>n, CleanupPreserves, StaticCapacityAssumption, ZenonT(60) DEF InformerDelete, DeleteNodeClaim
    <3> QED BY <2>4, <2>s, <3>1, <2>h DEF InformerDelete
  <2>5. ASSUME NEW nc \in NodeClaims, NodeClaimGC(nc) PROVE NoReservationLeak'
    <3>1. nps'.reserved[Pool] <= nps.reserved[Pool]
      BY <2>5, <2>n, CleanupPreserves, StaticCapacityAssumption DEF NodeClaimGC, DeleteNodeClaim
    <3> QED BY <2>5, <2>s, <3>1, <2>h DEF NodeClaimGC
  <2>6. ASSUME NEW nc \in NodeClaims, Launch(nc) PROVE NoReservationLeak'
    BY <2>6, <2>s, <2>r, <2>h, ZenonT(60) DEF Launch
  <2>7. ASSUME NEW nc \in NodeClaims, Finalize(nc) PROVE NoReservationLeak'
    BY <2>7, <2>s, <2>r, <2>h DEF Finalize
  <2>8. CASE ProvisionRead
    <3>1. /\ prov'.todo = prov.todo /\ prov'.releasing = prov.releasing
          /\ prov'.seeding = prov.seeding
      BY <2>8, <2>p, ZenonT(60) DEF ProvisionRead
    <3> QED BY <2>8, <2>i, <3>1, <2>h DEF ProvisionRead, NoReservationLeak, Outstanding
  <2>9. CASE ProvisionReserve
    <3> DEFINE g == Granted(nps, Pool, NodeLimit, prov.wanted)
    <3>1. g \in Nat /\ ReserveNodeCount(nps, Pool, NodeLimit, prov.wanted).reserved[Pool]
                          = nps.reserved[Pool] + g
      BY <2>n, <2>p, ReservePreserves, StaticCapacityAssumption
    <3>2. /\ prov'.todo = prov.todo + g /\ prov'.releasing = prov.releasing
          /\ prov'.seeding = prov.seeding
      BY <2>9, <2>p, <3>1 DEF ProvisionReserve, Slots
    <3>3. nps'.reserved[Pool] = nps.reserved[Pool] + g
      BY <2>9, <3>1 DEF ProvisionReserve
    <3>4. Holding' = Holding
      BY <2>9 DEF ProvisionReserve, Holding
    <3> HIDE DEF g
    <3> QED BY <2>i, <2>r, <2>m, <2>z, <3>1, <3>2, <3>3, <3>4, SMTT(60) DEF NoReservationLeak, Outstanding
  <2>10. CASE ProvisionRelease
    <3>1. /\ prov'.todo = prov.todo /\ prov'.releasing = prov.releasing - 1
          /\ prov'.seeding = prov.seeding /\ prov'.releasing \in Nat
      BY <2>10, <2>p DEF ProvisionRelease
    <3>2. nps'.reserved[Pool] = IF nps.reserved[Pool] = 0 THEN 0 ELSE nps.reserved[Pool] - 1
      BY <2>10, <2>n, ReleasePreserves, StaticCapacityAssumption DEF ProvisionRelease
    <3>3. Holding' = Holding
      BY <2>10, ZenonT(60) DEF ProvisionRelease, Holding
    <3> QED BY <2>i, <2>r, <2>m, <3>1, <3>2, <3>3 DEF NoReservationLeak, Outstanding
  <2>11. ASSUME NEW nc \in NodeClaims, ProvisionCreate(nc) PROVE NoReservationLeak'
    <3>1. /\ prov'.todo = prov.todo - 1 /\ prov'.releasing = prov.releasing
          /\ prov'.seeding = prov.seeding \cup {nc} /\ nc \notin prov.seeding
      BY <2>11, <2>p, SMTT(60) DEF ProvisionCreate, KubeCreate, Fresh, Slots
    <3>2. Cardinality(prov'.seeding) = Cardinality(prov.seeding) + 1
      BY <2>q, <3>1, FS_AddElement, Zenon
    <3>3. Holding' = Holding /\ nps' = nps
      BY <2>11 DEF ProvisionCreate, Holding
    <3> QED BY <2>i, <2>r, <2>m, <3>1, <3>2, <3>3 DEF NoReservationLeak, Outstanding
  <2>12. ASSUME NEW nc \in NodeClaims, ProvisionSeed(nc) PROVE NoReservationLeak'
    <3>1. nps'.reserved[Pool] <= nps.reserved[Pool]
      BY <2>12, <2>c, BeginUpdatePreserves DEF ProvisionSeed
    <3>2. /\ prov'.todo = prov.todo /\ prov'.releasing = prov.releasing + 1
          /\ prov'.seeding = prov.seeding \ {nc} /\ nc \in prov.seeding
      BY <2>12, <2>p DEF ProvisionSeed
    <3>3. Cardinality(prov'.seeding) = Cardinality(prov.seeding) - 1
      BY <2>q, <3>2, FS_RemoveElement, Zenon
    <3>4. Holding' = Holding
      BY <2>12 DEF ProvisionSeed, Holding
    <3> QED BY <2>i, <2>r, <2>m, <2>z, <3>1, <3>2, <3>3, <3>4 DEF NoReservationLeak, Outstanding
  <2>13. CASE DeprovisionRead
    BY <2>13, <2>s, <2>r, <2>h, ZenonT(60) DEF DeprovisionRead
  <2>14. CASE DeprovisionSelect
    BY <2>14, <2>s, <2>r, <2>h DEF DeprovisionSelect
  <2>15. ASSUME NEW nc \in NodeClaims, DeprovisionDelete(nc) PROVE NoReservationLeak'
    BY <2>15, <2>s, <2>r, <2>h DEF DeprovisionDelete
  <2>16. ASSUME NEW nc \in NodeClaims, DeprovisionMark(nc) PROVE NoReservationLeak'
    <3>1. nps'.reserved = nps.reserved
      BY <2>16, <2>n, MarksPreserve, StaticCapacityAssumption, ZenonT(60) DEF DeprovisionMark
    <3> QED BY <2>16, <2>s, <2>r, <3>1, <2>h DEF DeprovisionMark
  <2>17. CASE DriftCandidates
    BY <2>17, <2>s, <2>r, <2>h, SMTT(60) DEF DriftCandidates
  <2>18. CASE DriftReserve
    <3> DEFINE w == SmallerOf(AllowedDisruptions, Cardinality(drift))
               g == Granted(nps, Pool, NodeLimit, w)
               R == ReserveNodeCount(nps, Pool, NodeLimit, w)
    <3>w. w \in Nat
      BY MaxDriftsNat
    <3>1. g \in Nat /\ R.reserved[Pool] = nps.reserved[Pool] + g
      <4> HIDE DEF w
      <4> QED BY <3>w, <2>n, ReservePreserves, StaticCapacityAssumption, ZenonT(60)
    <3>2. prov' = prov
      BY <2>18, ZenonT(60) DEF DriftReserve
    <3>3. ASSUME NEW S \in SUBSET drift, StartCommands(S, FALSE) PROVE Holding' = Holding
      BY <3>3, <2>t, ZenonT(60) DEF StartCommands, Holding, Slots, TypeOK
    <3>4. ASSUME NEW S \in SUBSET drift, StartCommands(S, TRUE)
          PROVE  Cardinality(Holding') = Cardinality(Holding) + Cardinality(S)
      <4>1. Holding' = Holding \cup S /\ Holding \cap S = {}
        BY <3>4, <2>t DEF StartCommands, Holding, Slots, TypeOK
      <4>2. IsFiniteSet(S)
        BY NodePoolStateAssumption, FS_Subset DEF TypeOK
      <4>3. Cardinality(Holding \cap S) = 0 /\ Cardinality(S) \in Nat
        BY <4>1, <4>2, FS_EmptySet, FS_CardinalityType, ZenonT(60)
      <4>4. Cardinality(Holding \cup S) = Cardinality(Holding) + Cardinality(S) - Cardinality(Holding \cap S)
        BY <2>m, <4>2, FS_Union, ZenonT(60)
      <4> QED BY <2>m, <4>1, <4>3, <4>4, SMTT(60)
    <3>5. CASE UNCHANGED <<nps, cmd>>
      BY <2>s, <2>h, <3>2, <3>5, ZenonT(60)
    <3>6. ASSUME NEW S \in SUBSET drift, nps' = R, g > 0, Cardinality(S) = g, StartCommands(S, TRUE)
          PROVE  NoReservationLeak'
      <4>1. Cardinality(Holding') = Cardinality(Holding) + g
        BY <3>4, <3>6, Zenon
      <4>2. nps'.reserved[Pool] = nps.reserved[Pool] + g
        BY <3>1, <3>6
      <4> HIDE DEF g
      <4> QED BY <2>i, <2>r, <2>m, <3>1, <3>2, <4>1, <4>2, SMTT(60) DEF NoReservationLeak, Outstanding
    <3>7. ASSUME NEW S \in SUBSET drift, nps' = nps, StartCommands(S, FALSE)
          PROVE  NoReservationLeak'
      BY <2>s, <2>r, <3>2, <3>3, <3>7, Zenon
    <3>8. \/ UNCHANGED <<nps, cmd>>
          \/ \E S \in SUBSET drift : /\ nps' = R /\ g > 0 /\ Cardinality(S) = g
                                       /\ StartCommands(S, TRUE)
          \/ \E S \in SUBSET drift : nps' = nps /\ StartCommands(S, FALSE)
      BY <2>18, ZenonT(60) DEF DriftReserve
    <3> QED BY <3>5, <3>6, <3>7, <3>8, ZenonT(60)
  <2>19. ASSUME NEW c \in NodeClaims, MarkDisrupted(c) PROVE NoReservationLeak'
    <3>1. Holding' = Holding
      BY <2>19, <2>t, SMTT(60) DEF MarkDisrupted, Holding, SetPhase
    <3> QED BY <2>19, <2>s, <3>1 DEF MarkDisrupted
  <2>20. ASSUME NEW c \in NodeClaims, MarkPending(c) PROVE NoReservationLeak'
    <3>1. Holding' = Holding
      BY <2>20, <2>t, SMTT(60) DEF MarkPending, Holding, SetPhase
    <3>2. MarkNodeClaimPendingDisruption(nps, Pool, c).reserved = nps.reserved
      BY <2>n, MarksPreserve, StaticCapacityAssumption, ZenonT(60)
    <3>3. nps'.reserved = nps.reserved
      BY <2>20, <3>2, ZenonT(60) DEF MarkPending
    <3>4. prov' = prov
      BY <2>20, SMTT(60) DEF MarkPending
    <3>5. nps'.reserved[Pool] <= nps.reserved[Pool]
      BY <2>r, <3>3, SMTT(60)
    <3> QED BY <2>s, <3>1, <3>4, <3>5, SMTT(60)
  <2>21. ASSUME NEW c \in NodeClaims, ReplacementSeed(c) PROVE NoReservationLeak'
    <3>1. Holding' = Holding
      BY <2>21, <2>t, SMTT(60) DEF ReplacementSeed, Holding, SetPhase
    <3>2. nps'.reserved[Pool] <= nps.reserved[Pool]
      BY <2>21, <2>c, BeginUpdatePreserves, SMTT(60) DEF ReplacementSeed, SeedNamed
    <3> QED BY <2>21, <2>s, <3>1, <3>2, SMTT(60) DEF ReplacementSeed
  <2>22. ASSUME NEW c \in NodeClaims, ReplacementRelease(c) PROVE NoReservationLeak'
    <3>1. ReleaseNodeCount(nps, Pool, 1).reserved[Pool]
             = IF nps.reserved[Pool] = 0 THEN 0 ELSE nps.reserved[Pool] - 1
      BY <2>n, ReleasePreserves, StaticCapacityAssumption
    <3>2. prov' = prov
      BY <2>22, ZenonT(60) DEF ReplacementRelease
    <3>3. CASE c \in Holding
      <4>1. Holding' = Holding \ {c}
        BY <2>22, <2>t, SMTT(60) DEF ReplacementRelease, Holding, NoCmd
      <4>2. Cardinality(Holding') = Cardinality(Holding) - 1 /\ Cardinality(Holding') \in Nat
        BY <2>m, <3>3, <4>1, FS_RemoveElement, FS_CardinalityType, SMTT(60)
      <4>3. nps'.reserved[Pool] = IF nps.reserved[Pool] = 0 THEN 0 ELSE nps.reserved[Pool] - 1
        BY <2>22, <3>1, <3>3, ZenonT(60) DEF ReplacementRelease, Holding
      <4> QED BY <2>i, <2>r, <2>m, <3>2, <4>2, <4>3, SMTT(60) DEF NoReservationLeak, Outstanding
    <3>4. CASE c \notin Holding
      <4>1. Holding' = Holding
        BY <2>22, <3>4, <2>t DEF ReplacementRelease, Holding, NoCmd
      <4>2. nps'.reserved[Pool] <= nps.reserved[Pool]
        BY <2>22, <3>1, <2>r DEF ReplacementRelease
      <4> QED BY <2>s, <3>2, <4>1, <4>2
    <3> QED BY <3>3, <3>4, ZenonT(60)
  <2>23. ASSUME NEW c \in NodeClaims, MarkForDeletion(c) PROVE NoReservationLeak'
    <3>1. Holding' = Holding
      BY <2>23, <2>t DEF MarkForDeletion, Holding, SetPhase
    <3>2. MarkNodeClaimDeleting(nps, Pool, c).reserved = nps.reserved
      BY <2>n, MarksPreserve, StaticCapacityAssumption
    <3>3. nps'.reserved = nps.reserved
      BY <2>23, <3>2 DEF MarkForDeletion
    <3> QED BY <2>23, <2>s, <2>r, <3>1, <3>3, SMTT(60) DEF MarkForDeletion
  <2>24. ASSUME NEW c \in NodeClaims, NEW nc \in NodeClaims, ReplacementCreate(c, nc) PROVE NoReservationLeak'
    <3>1. Holding' = Holding
      BY <2>24, <2>t DEF ReplacementCreate, Holding
    <3> QED BY <2>24, <2>s, <3>1 DEF ReplacementCreate
  <2>25. ASSUME NEW c \in NodeClaims, QueueTerminate(c) PROVE NoReservationLeak'
    <3>1. PICK q \in {"done", "failing"} : SetPhase(c, q)
      BY <2>25 DEF QueueTerminate
    <3>2. cmd[c].phase = "queued"
      BY <2>25 DEF QueueTerminate
    <3>3. Holding' = Holding
      BY <3>1, <3>2, <2>t DEF Holding, SetPhase
    <3> QED BY <2>25, <2>s, <3>3 DEF QueueTerminate
  <2>26. ASSUME NEW c \in NodeClaims, QueueGiveUp(c) PROVE NoReservationLeak'
    <3>1. Holding' = Holding
      BY <2>26, <2>t DEF QueueGiveUp, Holding, SetPhase
    <3> QED BY <2>26, <2>s, <3>1 DEF QueueGiveUp
  <2>27. ASSUME NEW c \in NodeClaims, CompleteCommand(c) PROVE NoReservationLeak'
    <3>1. Holding' = Holding
      BY <2>27, <2>t DEF CompleteCommand, Holding, NoCmd
    <3>2. MarkNodeClaimActive(nps, Pool, c).reserved = nps.reserved
      BY <2>n, MarksPreserve, StaticCapacityAssumption
    <3>3. nps'.reserved = nps.reserved
      BY <2>27, <3>2 DEF CompleteCommand
    <3> QED BY <2>27, <2>s, <2>r, <3>1, <3>3 DEF CompleteCommand
  <2>28. CASE Restart
    <3>1. nps'.reserved[Pool] = 0
      BY <2>28, NewState, StaticCapacityAssumption DEF Restart
    <3>2. prov'.todo = 0 /\ prov'.seeding = {} /\ prov'.releasing = 0
      BY <2>28 DEF Restart, ProvIdle
    <3>3. Cardinality(Holding') \in Nat
      BY NodePoolStateAssumption, FS_Subset, FS_CardinalityType, ZenonT(60) DEF Holding
    <3> QED BY <3>1, <3>2, <3>3, FS_EmptySet DEF NoReservationLeak, Outstanding
  <2>29. CASE ProvisionCreateFails
    <3>1. /\ prov'.todo = prov.todo - 1 /\ prov'.releasing = prov.releasing + 1
          /\ prov'.seeding = prov.seeding
      BY <2>29, <2>p DEF ProvisionCreateFails
    <3>2. Holding' = Holding /\ nps' = nps
      BY <2>29 DEF ProvisionCreateFails, Holding
    <3> QED BY <2>i, <2>r, <2>m, <3>1, <3>2 DEF NoReservationLeak, Outstanding
  <2>30. ASSUME NEW nc \in NodeClaims, Drift(nc) PROVE NoReservationLeak'
    BY <2>30, <2>s, <2>r, <2>h DEF Drift
  <2>31. ASSUME NEW nc \in NodeClaims, ExternalDelete(nc) PROVE NoReservationLeak'
    BY <2>31, <2>s, <2>r, <2>h DEF ExternalDelete
  <2>32. ASSUME NEW nc \in NodeClaims, DeprovisionDeleteFails(nc) PROVE NoReservationLeak'
    BY <2>32, <2>s, <2>r, <2>h, ZenonT(60) DEF DeprovisionDeleteFails
  <2>33. ASSUME NEW c \in NodeClaims, MarkDisruptedFails(c) PROVE NoReservationLeak'
    <3>1. ReleaseNodeCount(nps, Pool, 1).reserved[Pool]
             = IF nps.reserved[Pool] = 0 THEN 0 ELSE nps.reserved[Pool] - 1
      BY <2>n, ReleasePreserves, StaticCapacityAssumption
    <3>2. prov' = prov
      BY <2>33, ZenonT(60) DEF MarkDisruptedFails
    <3>3. CASE c \in Holding
      <4>1. Holding' = Holding \ {c}
        BY <2>33, <2>t, ZenonT(60) DEF MarkDisruptedFails, Holding, NoCmd
      <4>2. Cardinality(Holding') = Cardinality(Holding) - 1 /\ Cardinality(Holding') \in Nat
        BY <2>m, <3>3, <4>1, FS_RemoveElement, FS_CardinalityType
      <4>3. nps'.reserved[Pool] = IF nps.reserved[Pool] = 0 THEN 0 ELSE nps.reserved[Pool] - 1
        BY <2>33, <3>1, <3>3, ZenonT(60) DEF MarkDisruptedFails, Holding
      <4> QED BY <2>i, <2>r, <2>m, <3>2, <4>2, <4>3 DEF NoReservationLeak, Outstanding
    <3>4. CASE c \notin Holding
      <4>1. Holding' = Holding
        BY <2>33, <3>4, <2>t DEF MarkDisruptedFails, Holding, NoCmd
      <4>2. nps'.reserved[Pool] <= nps.reserved[Pool]
        BY <2>33, <3>1, <2>r, SMTT(60) DEF MarkDisruptedFails
      <4> QED BY <2>s, <3>2, <4>1, <4>2
    <3> QED BY <3>3, <3>4
  <2>34. ASSUME NEW c \in NodeClaims, ReplacementCreateFails(c) PROVE NoReservationLeak'
    <3>1. Holding' = Holding
      BY <2>34, <2>t DEF ReplacementCreateFails, Holding, SetPhase
    <3> QED BY <2>34, <2>s, <3>1 DEF ReplacementCreateFails
  <2>35. ASSUME NEW n \in Replicas, Scale(n) PROVE NoReservationLeak'
    BY <2>35, <2>s, <2>r, <2>h, ZenonT(60) DEF Scale
  <2>36. CASE UNCHANGED vars
    BY <2>36, <2>s, <2>h, ZenonT(60) DEF vars
  <2> QED BY <2>1, <2>2, <2>3, <2>4, <2>5, <2>6, <2>7, <2>8, <2>9, <2>10, <2>11, <2>12, <2>13, <2>14, <2>15, <2>16, <2>17, <2>18, <2>19, <2>20, <2>21, <2>22, <2>23, <2>24, <2>25, <2>26, <2>27, <2>28, <2>29, <2>30, <2>31, <2>32, <2>33, <2>34, <2>35, <2>36, NextCases, ZenonT(60)
<1> QED BY <1>1, <1>2, TypeInvariant, SlotsHold, PTL DEF Spec

-----------------------------------------------------------------------------
(* CountedOnceSynced *)

(* The claim is drifted, or it is gone and its name is not used again. *)
Settled(nc) == nc \in used /\ (Exists(api[nc]) => api[nc].drifted)

Filed(nc) == nc \in InUse(nps, Pool) \/ nc = updating

Known(nc) == cluster[nc].pid # "none" \/ nc \in Seeding

Named == /\ \A nc \in NodeClaims : api[nc] # Absent => nc \in used
         /\ \A nc \in removed : nc \in used /\ ~Exists(api[nc])

(* Only settled claims are candidates or pending disruption: Cleanup may     *)
(* forget those.                                                             *)
Candidates == /\ \A nc \in NodeClaims : cluster[nc].drifted => Settled(nc)
              /\ \A nc \in drift : Settled(nc)
              /\ \A nc \in NodeClaims : cmd[nc].phase # "none" => Settled(nc)
              /\ \A nc \in nps.claims[Pool].pendingDisruption : Settled(nc)

(* What Cluster knows is in use, synced or not, and what exists is known     *)
(* once synced.                                                              *)
CountInv == /\ Named /\ Candidates
            /\ \A nc \in NodeClaims : cluster[nc].pid # "none" => Settled(nc) \/ Filed(nc)
            /\ hasSynced => \A nc \in NodeClaims : Exists(api[nc]) => Known(nc)

ApiAges == /\ used \subseteq used'
           /\ \A nc \in NodeClaims :
                 /\ api'[nc] # Absent => nc \in used'
                 /\ nc \in used /\ Exists(api'[nc]) => Exists(api[nc]) /\ (api[nc].drifted => api'[nc].drifted)
           /\ \A nc \in removed' : nc \in removed \/ (nc \in used' /\ ~Exists(api'[nc]))

CandidatesAge == /\ \A nc \in NodeClaims : cluster'[nc].drifted => cluster[nc].drifted \/ Settled(nc)
                 /\ \A nc \in drift' : nc \in drift \/ Settled(nc)
                 /\ \A nc \in NodeClaims : cmd'[nc].phase # "none" => cmd[nc].phase # "none" \/ Settled(nc)
                 /\ \A nc \in nps'.claims[Pool].pendingDisruption :
                       nc \in nps.claims[Pool].pendingDisruption \/ Settled(nc)

FilesAge == \A nc \in NodeClaims :
                cluster'[nc].pid # "none" =>
                    \/ Settled(nc) \/ Filed(nc)'
                    \/ cluster[nc].pid # "none" /\ (Filed(nc) => Filed(nc)')

KnownAges == hasSynced' => \A nc \in NodeClaims :
                Exists(api'[nc]) => \/ Known(nc)'
                                    \/ hasSynced /\ Exists(api[nc]) /\ (Known(nc) => Known(nc)')

(* A step keeps CountInv when it keeps each of its parts in this sense. *)
LEMMA CountFrame ==
    ASSUME TypeOK, TypeOK', CountInv, ApiAges, CandidatesAge, FilesAge, KnownAges
    PROVE  CountInv'
<1>1. \A nc \in NodeClaims : Settled(nc) => Settled(nc)'
  BY ZenonT(60) DEF ApiAges, Settled
<1>2. Named'
  <2>1. removed \subseteq NodeClaims
    BY ZenonT(60) DEF TypeOK
  <2> QED BY <2>1 DEF CountInv, ApiAges, Named
<1>3. Candidates'
  <2>1. /\ drift \subseteq NodeClaims /\ drift' \subseteq NodeClaims
        /\ nps'.claims[Pool].pendingDisruption \subseteq NodeClaims
    BY StaticCapacityAssumption, ZenonT(60) DEF TypeOK, NodePoolStates, NodeClaimState
  <2> QED BY <1>1, <2>1, ZenonT(60) DEF CountInv, CandidatesAge, Candidates
<1>4. \A nc \in NodeClaims : cluster'[nc].pid # "none" => Settled(nc)' \/ Filed(nc)'
  BY <1>1, ZenonT(60) DEF CountInv, FilesAge
<1>5. hasSynced' => \A nc \in NodeClaims : Exists(api'[nc]) => Known(nc)'
  BY ZenonT(60) DEF CountInv, KnownAges
<1> QED BY <1>2, <1>3, <1>4, <1>5, ZenonT(60) DEF CountInv

LEMMA SameApi ==
    ASSUME CountInv, UNCHANGED <<used, api, removed>>
    PROVE  ApiAges
BY ZenonT(60) DEF CountInv, Named, ApiAges

(* The API server's copy of a claim that exists changes. *)
LEMMA ApiMoves ==
    ASSUME TypeOK, CountInv, NEW nc \in NodeClaims, NEW o \in Claim, api' = [api EXCEPT ![nc] = o], UNCHANGED used,
           nc \in used, Exists(o) => Exists(api[nc]) /\ (api[nc].drifted => o.drifted),
           \A k \in removed' : k \in removed \/ (k = nc /\ ~Exists(o))
    PROVE  ApiAges /\ \A k \in NodeClaims : Exists(api'[k]) => Exists(api[k])
<1>1. \A k \in NodeClaims : api'[k] = IF k = nc THEN o ELSE api[k]
  BY ZenonT(60) DEF TypeOK
<1> QED BY <1>1 DEF CountInv, Named, ApiAges

LEMMA DeleteAges ==
    ASSUME TypeOK, CountInv, NEW nc \in NodeClaims, Delete(nc), UNCHANGED <<used, removed>>
    PROVE  ApiAges /\ \A k \in NodeClaims : Exists(api'[k]) => Exists(api[k])
<1>1. CASE ~Exists(api[nc])
  BY <1>1, SameApi, SMTT(60) DEF Delete
<1>2. CASE Exists(api[nc])
  <2> DEFINE o == [api[nc] EXCEPT !.deleting = TRUE]
  <2>1. api[nc] \in Claim
    BY DEF TypeOK
  <2>2. o \in Claim /\ Exists(api[nc]) /\ (api[nc].drifted => o.drifted)
    <3>1. o \in Claim
      BY <2>1, Zenon DEF Claim
    <3>2. api[nc].drifted => o.drifted
      BY <2>1 DEF Claim
    <3> QED BY <1>2, <3>1, <3>2
  <2>3. api' = [api EXCEPT ![nc] = o]
    BY <1>2, ZenonT(60) DEF Delete, TypeOK
  <2>4. nc \in used
    BY <1>2 DEF CountInv, Named, Exists, Absent
  <2> HIDE DEF o
  <2> QED BY <2>2, <2>3, <2>4, ApiMoves, Zenon
<1> QED BY <1>1, <1>2

LEMMA SameCandidates ==
    ASSUME UNCHANGED <<cluster, drift, cmd>>, nps'.claims = nps.claims
    PROVE  CandidatesAge
BY ZenonT(60) DEF CandidatesAge

(* Commands go on; the others are started for candidates. *)
LEMMA CommandsMove ==
    ASSUME CountInv, UNCHANGED cluster, nps'.claims = nps.claims, drift' \subseteq drift,
           \A nc \in NodeClaims : cmd'[nc].phase # "none" => cmd[nc].phase # "none" \/ nc \in drift
    PROVE  CandidatesAge
BY ZenonT(60) DEF CandidatesAge, CountInv, Candidates

LEMMA SameFiles ==
    ASSUME UNCHANGED <<cluster, updating>>, nps'.claims = nps.claims
    PROVE  FilesAge
BY DEF FilesAge, Filed, InUse

LEMMA SameKnown ==
    ASSUME UNCHANGED <<cluster, hasSynced>>, Seeding \subseteq Seeding',
           \A nc \in NodeClaims : Exists(api'[nc]) => Exists(api[nc])
    PROVE  KnownAges
BY DEF KnownAges, Known

(* Steps that neither the accounting nor the API server notice. *)
LEMMA CountQuiet ==
    ASSUME TypeOK, TypeOK', CountInv, UNCHANGED <<used, api, removed, cluster, updating, hasSynced, drift, cmd>>,
           nps'.claims = nps.claims, prov'.seeding = prov.seeding
    PROVE  CountInv'
<1>1. Seeding' = Seeding
  BY DEF Seeding
<1> QED BY <1>1, CountFrame, SameApi, SameCandidates, SameFiles, SameKnown, ZenonT(60)

(* Steps of the API server that Cluster has yet to see. *)
LEMMA CountApi ==
    ASSUME TypeOK, TypeOK', CountInv, ApiAges, UNCHANGED <<cluster, updating, nps, hasSynced, prov, drift, cmd>>,
           \A nc \in NodeClaims : Exists(api'[nc]) => Exists(api[nc])
    PROVE  CountInv'
<1>1. Seeding' = Seeding
  BY ZenonT(60) DEF Seeding
<1> QED BY <1>1, CountFrame, SameCandidates, SameFiles, SameKnown, ZenonT(60)

(* Steps of commands that Cluster does not see. *)
LEMMA CountCommands ==
    ASSUME TypeOK, TypeOK', CountInv, UNCHANGED <<cluster, updating, hasSynced, prov>>, nps'.claims = nps.claims,
           ApiAges, \A nc \in NodeClaims : Exists(api'[nc]) => Exists(api[nc]), drift' \subseteq drift,
           \A nc \in NodeClaims : /\ cmd'[nc].phase # "none" => cmd[nc].phase # "none" \/ nc \in drift
                                  /\ cmd[nc].phase = "seed" => cmd'[nc] = cmd[nc]
    PROVE  CountInv'
<1>1. Seeding \subseteq Seeding'
  BY ZenonT(60) DEF Seeding
<1> QED BY <1>1, CountFrame, CommandsMove, SameFiles, SameKnown, ZenonT(60)

(* Cluster.UpdateNodeClaim files the claim, or is on its way to. *)
LEMMA BeginFiles ==
    ASSUME TypeOK, CountInv, LockFree, NEW nc \in NodeClaims, NEW o \in Claim, BeginUpdateNodeClaim(nc, o),
           o.drifted => Settled(nc)
    PROVE  /\ FilesAge
           /\ \A k \in NodeClaims : cluster'[k].drifted => cluster[k].drifted \/ Settled(k)
           /\ \A k \in NodeClaims : cluster'[k].pid # "none" <=> k = nc \/ cluster[k].pid # "none"
           /\ nps'.claims[Pool].pendingDisruption \subseteq nps.claims[Pool].pendingDisruption
<1>1. Pool \in NodePools /\ nps \in NodePoolStates /\ cluster \in [NodeClaims -> ClusterEntry] /\ cluster[nc] \in ClusterEntry
  BY StaticCapacityAssumption DEF TypeOK
<1>2. None \notin NodeClaims
  BY StaticCapacityAssumption, ZenonT(60)
<1>3. CASE Launched(o)
  <2> DEFINE e == [pid |-> "set", node |-> TRUE, drifted |-> o.drifted, deleting |-> o.deleting, marked |-> cluster[nc].marked]
  <2>1. cluster' = [cluster EXCEPT ![nc] = e] /\ updating' = nc
    BY <1>3 DEF BeginUpdateNodeClaim
  <2>2. e.pid = "set" /\ e.drifted = o.drifted
    OBVIOUS
  <2> HIDE DEF e
  <2>3. \A k \in NodeClaims : cluster'[k] = IF k = nc THEN e ELSE cluster[k]
    BY <1>1, <2>1
  <2>4. nps' = nps \/ nps' = Cleanup(nps, nc)
    BY <1>3, ZenonT(60) DEF BeginUpdateNodeClaim
  <2>5. /\ InUse(nps, Pool) \ {nc} \subseteq InUse(nps', Pool)
        /\ nps'.claims[Pool].pendingDisruption \subseteq nps.claims[Pool].pendingDisruption
    BY <1>1, <2>4, CleanupKeepsUse, ZenonT(60)
  <2>6. \A k \in NodeClaims : k # nc /\ Filed(k) => Filed(k)'
    BY <1>2, <2>5 DEF Filed, LockFree
  <2>7. Filed(nc)'
    BY <2>1, ZenonT(60) DEF Filed
  <2>8. FilesAge
    BY <2>3, <2>6, <2>7, ZenonT(60) DEF FilesAge
  <2> QED BY <2>2, <2>3, <2>5, <2>8
<1>4. CASE ~Launched(o)
  <2> DEFINE e == [cluster[nc] EXCEPT !.pid = "empty"]
  <2>1. cluster' = [cluster EXCEPT ![nc] = e] /\ nps' = UpdateNodeClaim(nps, Pool, nc, FALSE)
    BY <1>1, <1>4 DEF BeginUpdateNodeClaim
  <2>2. e.pid = "empty" /\ (e.drifted => cluster[nc].drifted)
    BY <1>1 DEF ClusterEntry
  <2> HIDE DEF e
  <2>3. \A k \in NodeClaims : cluster'[k] = IF k = nc THEN e ELSE cluster[k]
    BY <1>1, <2>1
  <2>5. /\ InUse(nps', Pool) = InUse(nps, Pool) \cup {nc}
        /\ nps'.claims[Pool].pendingDisruption \subseteq nps.claims[Pool].pendingDisruption
    <3>1. /\ InUse(UpdateNodeClaim(nps, Pool, nc, FALSE), Pool) = InUse(nps, Pool) \cup {nc}
          /\ UpdateNodeClaim(nps, Pool, nc, FALSE).claims[Pool].pendingDisruption \subseteq nps.claims[Pool].pendingDisruption
      BY <1>1, UpdateInUse, Zenon
    <3> QED BY <2>1, <3>1, Zenon
  <2>6. \A k \in NodeClaims : k = nc \/ Filed(k) => Filed(k)'
    BY <1>2, <2>5, ZenonT(60) DEF Filed, LockFree
  <2>8. FilesAge
    BY <2>3, <2>6 DEF FilesAge
  <2> QED BY <2>2, <2>3, <2>5, <2>8
<1> QED BY <1>3, <1>4

(* Cluster.DeleteNodeClaim of a claim that is gone. *)
LEMMA CountDelete ==
    ASSUME TypeOK, TypeOK', CountInv, NEW nc \in NodeClaims, ~Exists(api[nc]), DeleteNodeClaim(nc),
           removed' \subseteq removed, UNCHANGED <<used, api, updating, hasSynced, prov, drift, cmd>>
    PROVE  CountInv'
<1>1. Pool \in NodePools /\ nps \in NodePoolStates /\ cluster \in [NodeClaims -> ClusterEntry] /\ cluster[nc] \in ClusterEntry
  BY StaticCapacityAssumption DEF TypeOK
<1> DEFINE e == IF cluster[nc].pid = "set" THEN Unknown ELSE [cluster[nc] EXCEPT !.pid = "none"]
<1>2. cluster' = [cluster EXCEPT ![nc] = e] /\ nps' = Cleanup(nps, nc)
  BY <1>1 DEF DeleteNodeClaim
<1>3. e.pid = "none" /\ (e.drifted => cluster[nc].drifted)
  BY <1>1 DEF Unknown, ClusterEntry
<1> HIDE DEF e
<1>4. \A k \in NodeClaims : cluster'[k] = IF k = nc THEN e ELSE cluster[k]
  BY <1>1, <1>2, ZenonT(60)
<1>5. /\ InUse(nps, Pool) \ {nc} \subseteq InUse(nps', Pool)
      /\ nps'.claims[Pool].pendingDisruption \subseteq nps.claims[Pool].pendingDisruption
  BY <1>1, <1>2, CleanupKeepsUse, ZenonT(60)
<1>6. CandidatesAge
  BY <1>3, <1>4, <1>5, ZenonT(60) DEF CandidatesAge
<1>7. FilesAge
  BY <1>3, <1>4, <1>5, ZenonT(60) DEF FilesAge, Filed
<1>8. Seeding' = Seeding
  BY ZenonT(60) DEF Seeding
<1>9. KnownAges
  BY <1>4, <1>8, ZenonT(60) DEF KnownAges, Known
<1>10. ApiAges
  BY ZenonT(60) DEF CountInv, Named, ApiAges
<1> QED BY <1>6, <1>7, <1>9, <1>10, CountFrame, ZenonT(60)

(* Marks that leave the claim in use. *)
LEMMA MarksFiled ==
    ASSUME TypeOK, NEW nc \in NodeClaims, UNCHANGED updating,
           nps' \in {nps, MarkNodeClaimActive(nps, Pool, nc), MarkNodeClaimDeleting(nps, Pool, nc)},
           \A k \in NodeClaims : cluster'[k].pid = cluster[k].pid
    PROVE  /\ FilesAge
           /\ nps'.claims[Pool].pendingDisruption \subseteq nps.claims[Pool].pendingDisruption
<1>1. /\ InUse(nps, Pool) \subseteq InUse(nps', Pool)
      /\ nps'.claims[Pool].pendingDisruption \subseteq nps.claims[Pool].pendingDisruption
  <2>1. Pool \in NodePools /\ nps \in NodePoolStates
    BY StaticCapacityAssumption, ZenonT(60) DEF TypeOK
  <2>2. CASE nps' = nps
    BY <2>2, ZenonT(60)
  <2>3. CASE nps' = MarkNodeClaimActive(nps, Pool, nc) \/ nps' = MarkNodeClaimDeleting(nps, Pool, nc)
    BY <2>1, <2>3, MarksInUse, SMTT(60)
  <2> QED BY <2>2, <2>3, ZenonT(60)
<1> QED BY <1>1, ZenonT(60) DEF FilesAge, Filed

(* Cluster's marks of a claim change, and with them its filing. *)
LEMMA CountMarks ==
    ASSUME TypeOK, TypeOK', CountInv, NEW nc \in NodeClaims, NEW e \in ClusterEntry, cluster' = [cluster EXCEPT ![nc] = e],
           e.pid = cluster[nc].pid, e.drifted => cluster[nc].drifted,
           nps' \in {nps, MarkNodeClaimActive(nps, Pool, nc), MarkNodeClaimDeleting(nps, Pool, nc)},
           UNCHANGED <<used, api, removed, updating, hasSynced, prov, drift>>,
           \A k \in NodeClaims : /\ cmd'[k].phase # "none" => cmd[k].phase # "none"
                                 /\ cmd[k].phase = "seed" => cmd'[k] = cmd[k]
    PROVE  CountInv'
<1>1. \A k \in NodeClaims : cluster'[k] = IF k = nc THEN e ELSE cluster[k]
  BY ZenonT(60) DEF TypeOK
<1>2. \A k \in NodeClaims : cluster'[k].pid = cluster[k].pid /\ (cluster'[k].drifted => cluster[k].drifted)
  BY <1>1, ZenonT(60)
<1>3. FilesAge /\ nps'.claims[Pool].pendingDisruption \subseteq nps.claims[Pool].pendingDisruption
  BY <1>2, MarksFiled, ZenonT(60)
<1>4. CandidatesAge
  BY <1>2, <1>3, ZenonT(60) DEF CandidatesAge
<1>5. Seeding \subseteq Seeding'
  BY ZenonT(60) DEF Seeding
<1>6. KnownAges
  BY <1>2, <1>5, SMTT(60) DEF KnownAges, Known
<1> QED BY <1>3, <1>4, <1>6, SameApi, CountFrame, ZenonT(60)

(* A claim of a new name is created and is now to be seeded. *)
LEMMA CountCreate ==
    ASSUME TypeOK, TypeOK', CountInv, NEW nc \in NodeClaims, KubeCreate(nc),
           UNCHANGED <<removed, cluster, updating, nps, hasSynced, drift>>, Seeding \cup {nc} \subseteq Seeding',
           \A k \in NodeClaims : cmd'[k].phase # "none" => cmd[k].phase # "none"
    PROVE  CountInv'
<1>1. \A k \in NodeClaims : api'[k] = IF k = nc THEN Created ELSE api[k]
  BY ZenonT(60) DEF KubeCreate, TypeOK
<1>2. nc \notin used /\ used' = used \cup {nc}
  BY ZenonT(60) DEF KubeCreate, Fresh
<1>3. ApiAges
  BY <1>1, <1>2, ZenonT(60) DEF ApiAges, CountInv, Named
<1>4. CandidatesAge
  BY ZenonT(60) DEF CandidatesAge
<1>5. KnownAges
  BY <1>1, SMTT(60) DEF KnownAges, Known
<1> QED BY <1>3, <1>4, <1>5, SameFiles, CountFrame, ZenonT(60)

LEMMA CountSeed ==
    ASSUME TypeOK, TypeOK', CountInv, LockFree, NEW nc \in NodeClaims, BeginUpdateNodeClaim(nc, Created),
           UNCHANGED <<used, api, removed, hasSynced, drift>>, Seeding \ {nc} \subseteq Seeding',
           \A k \in NodeClaims : cmd'[k].phase # "none" => cmd[k].phase # "none"
    PROVE  CountInv'
<1>1. Created \in Claim /\ ~Created.drifted
  BY ZenonT(60) DEF Created, Claim
<1>2. /\ FilesAge
      /\ \A k \in NodeClaims : cluster'[k].drifted => cluster[k].drifted \/ Settled(k)
      /\ \A k \in NodeClaims : cluster'[k].pid # "none" <=> k = nc \/ cluster[k].pid # "none"
      /\ nps'.claims[Pool].pendingDisruption \subseteq nps.claims[Pool].pendingDisruption
  BY <1>1, BeginFiles, ZenonT(60)
<1>3. CandidatesAge
  BY <1>2, ZenonT(60) DEF CandidatesAge
<1>4. KnownAges
  BY <1>2, ZenonT(60) DEF KnownAges, Known
<1> QED BY <1>2, <1>3, <1>4, SameApi, CountFrame, ZenonT(60)

(* Every step keeps the count. *)
LEMMA CountStep ==
    ASSUME TypeOK, TypeOK', SeedNamed, Slots, CountInv, [Next]_vars
    PROVE  CountInv'
<1>t. /\ Pool \in NodePools /\ nps \in NodePoolStates /\ api \in [NodeClaims -> Claim]
      /\ cluster \in [NodeClaims -> ClusterEntry] /\ cmd \in [NodeClaims -> Command]
      /\ prov \in [wanted : Nat, todo : Nat, seeding : SUBSET NodeClaims, releasing : Nat]
  BY StaticCapacityAssumption, ZenonT(60) DEF TypeOK
<1>1. CASE Sync
  <2>1. KnownAges
    BY <1>1, ZenonT(60) DEF Sync, KnownAges, Known
  <2> QED BY <1>1, <2>1, SameApi, SameCandidates, SameFiles, CountFrame, ZenonT(60) DEF Sync
<1>2. CASE EndUpdateNodeClaim
  <2> DEFINE b == MarkedForDeletion(cluster[updating])
  <2>1. updating \in NodeClaims /\ nps' = UpdateNodeClaim(nps, Pool, updating, b) /\ updating' = None
    BY <1>2 DEF EndUpdateNodeClaim, TypeOK
  <2> HIDE DEF b
  <2>2. /\ InUse(nps', Pool) = InUse(nps, Pool) \cup {updating}
        /\ nps'.claims[Pool].pendingDisruption \subseteq nps.claims[Pool].pendingDisruption
    <3>1. Pool \in NodePools /\ nps \in NodePoolStates
      BY <1>t
    <3>2. /\ InUse(UpdateNodeClaim(nps, Pool, updating, b), Pool) = InUse(nps, Pool) \cup {updating}
          /\ UpdateNodeClaim(nps, Pool, updating, b).claims[Pool].pendingDisruption \subseteq nps.claims[Pool].pendingDisruption
      BY <2>1, <3>1, UpdateInUse, Zenon
    <3> QED BY <2>1, <3>2, Zenon
  <2>3. FilesAge
    BY <1>2, <2>1, <2>2, ZenonT(60) DEF EndUpdateNodeClaim, FilesAge, Filed
  <2>4. CandidatesAge
    BY <1>2, <2>2, ZenonT(60) DEF EndUpdateNodeClaim, CandidatesAge
  <2>5. Seeding' = Seeding
    BY <1>2, SMTT(60) DEF EndUpdateNodeClaim, Seeding
  <2> QED BY <1>2, <2>3, <2>4, <2>5, SameApi, SameKnown, CountFrame, ZenonT(60) DEF EndUpdateNodeClaim
<1>3. ASSUME NEW nc \in NodeClaims, InformerUpdate(nc) PROVE CountInv'
  <2>1. PICK o \in Claim : o.drifted \in {api[nc].drifted, cluster[nc].drifted} /\ BeginUpdateNodeClaim(nc, o)
    BY <1>3, SMTT(60) DEF InformerUpdate
  <2>2. o.drifted => Settled(nc)
    <3>1. nc \in used
      <4>1. Exists(api[nc])
        BY <1>3, ZenonT(60) DEF InformerUpdate
      <4>2. api[nc] # Absent
        BY <4>1, SMTT(60) DEF Exists, Absent
      <4> QED BY <4>2, ZenonT(60) DEF CountInv, Named
    <3> QED BY <2>1, <3>1, ZenonT(60) DEF CountInv, Candidates, Settled
  <2>3. LockFree
    BY <1>3, ZenonT(60) DEF InformerUpdate
  <2>4. /\ FilesAge
        /\ \A k \in NodeClaims : cluster'[k].drifted => cluster[k].drifted \/ Settled(k)
        /\ \A k \in NodeClaims : cluster'[k].pid # "none" <=> k = nc \/ cluster[k].pid # "none"
        /\ nps'.claims[Pool].pendingDisruption \subseteq nps.claims[Pool].pendingDisruption
    BY <2>1, <2>2, <2>3, BeginFiles, ZenonT(60)
  <2>5. CandidatesAge
    BY <1>3, <2>4, ZenonT(60) DEF InformerUpdate, CandidatesAge
  <2>6. Seeding' = Seeding
    BY <1>3, ZenonT(60) DEF InformerUpdate, Seeding
  <2>7. KnownAges
    BY <1>3, <2>4, <2>6, ZenonT(60) DEF InformerUpdate, KnownAges, Known
  <2> QED BY <1>3, <2>4, <2>5, <2>7, SameApi, CountFrame, ZenonT(60) DEF InformerUpdate
<1>4. ASSUME NEW nc \in NodeClaims, InformerDelete(nc) PROVE CountInv'
  <2>1. ~Exists(api[nc])
    BY <1>4, ZenonT(60) DEF InformerDelete, CountInv, Named
  <2> QED BY <1>4, <2>1, CountDelete, ZenonT(60) DEF InformerDelete
<1>5. ASSUME NEW nc \in NodeClaims, NodeClaimGC(nc) PROVE CountInv'
  BY <1>5, CountDelete DEF NodeClaimGC
<1>6. ASSUME NEW nc \in NodeClaims, Launch(nc) PROVE CountInv'
  <2> DEFINE o == [api[nc] EXCEPT !.phase = "launched"]
  <2>1. api[nc] \in Claim /\ api[nc].phase = "created"
    BY <1>t, <1>6 DEF Launch
  <2>2. o \in Claim
    BY <2>1 DEF Claim
  <2>3. api[nc].drifted => o.drifted
    BY <2>1, ZenonT(60) DEF Claim
  <2>4. Exists(api[nc]) /\ nc \in used
    BY <2>1 DEF Exists, Absent, CountInv, Named
  <2>5. api' = [api EXCEPT ![nc] = o] /\ UNCHANGED <<used, removed>>
    BY <1>6, SMTT(60) DEF Launch
  <2> HIDE DEF o
  <2>6. ApiAges /\ \A k \in NodeClaims : Exists(api'[k]) => Exists(api[k])
    BY <2>2, <2>3, <2>4, <2>5, ApiMoves, Zenon
  <2> QED BY <1>6, <2>6, CountApi DEF Launch
<1>7. ASSUME NEW nc \in NodeClaims, Finalize(nc) PROVE CountInv'
  <2>1. Absent \in Claim /\ ~Exists(Absent) /\ ~Absent.deleting
    BY ZenonT(60) DEF Absent, Claim, Exists
  <2>2. nc \in used
    BY <1>7, <2>1 DEF Finalize, CountInv, Named
  <2>3. ApiAges /\ \A k \in NodeClaims : Exists(api'[k]) => Exists(api[k])
    BY <1>7, <2>1, <2>2, ApiMoves, Zenon DEF Finalize
  <2> QED BY <1>7, <2>3, CountApi, ZenonT(60) DEF Finalize
<1>8. CASE ProvisionRead
  <2>1. prov'.seeding = prov.seeding
    BY <1>t, <1>8 DEF ProvisionRead
  <2> QED BY <1>8, <2>1, CountQuiet DEF ProvisionRead
<1>9. CASE ProvisionReserve
  <2>1. nps'.claims = nps.claims
    BY <1>t, <1>9 DEF ProvisionReserve, ReserveNodeCount, NodePoolStates
  <2>2. prov'.seeding = prov.seeding
    BY <1>t, <1>9 DEF ProvisionReserve
  <2> QED BY <1>9, <2>1, <2>2, CountQuiet DEF ProvisionReserve
<1>10. CASE ProvisionRelease
  <2>1. nps'.claims = nps.claims
    BY <1>t, <1>10, ReleasePreserves DEF ProvisionRelease
  <2>2. prov'.seeding = prov.seeding
    BY <1>t, <1>10 DEF ProvisionRelease
  <2> QED BY <1>10, <2>1, <2>2, CountQuiet, SMTT(60) DEF ProvisionRelease
<1>11. ASSUME NEW nc \in NodeClaims, ProvisionCreate(nc) PROVE CountInv'
  <2>1. prov'.seeding = prov.seeding \cup {nc}
    BY <1>t, <1>11 DEF ProvisionCreate
  <2>2. Seeding \cup {nc} \subseteq Seeding'
    BY <1>11, <2>1 DEF ProvisionCreate, Seeding
  <2> QED BY <1>11, <2>2, CountCreate DEF ProvisionCreate
<1>12. ASSUME NEW nc \in NodeClaims, ProvisionSeed(nc) PROVE CountInv'
  <2>1. prov'.seeding = prov.seeding \ {nc}
    BY <1>t, <1>12 DEF ProvisionSeed
  <2>2. Seeding \ {nc} \subseteq Seeding'
    BY <1>12, <2>1 DEF ProvisionSeed, Seeding
  <2> QED BY <1>12, <2>2, CountSeed DEF ProvisionSeed
<1>13. CASE DeprovisionRead
  BY <1>13, CountQuiet, ZenonT(60) DEF DeprovisionRead
<1>14. CASE DeprovisionSelect
  BY <1>14, CountQuiet DEF DeprovisionSelect
<1>15. ASSUME NEW nc \in NodeClaims, DeprovisionDelete(nc) PROVE CountInv'
  BY <1>15, DeleteAges, CountApi DEF DeprovisionDelete
<1>16. ASSUME NEW nc \in NodeClaims, DeprovisionMark(nc) PROVE CountInv'
  <2>1. cluster' = [cluster EXCEPT ![nc] = cluster[nc]] /\ cluster[nc] \in ClusterEntry
    BY <1>t, <1>16, SMTT(60) DEF DeprovisionMark
  <2> QED BY <1>16, <2>1, CountMarks, ZenonT(60) DEF DeprovisionMark
<1>17. CASE DriftCandidates
  <2>1. CandidatesAge
    BY <1>17, ZenonT(60) DEF DriftCandidates, CandidatesAge, CountInv, Candidates
  <2>2. Seeding' = Seeding
    BY <1>17, SMTT(60) DEF DriftCandidates, Seeding
  <2> QED BY <1>17, <2>1, <2>2, SameApi, SameFiles, SameKnown, CountFrame, ZenonT(60) DEF DriftCandidates
<1>18. CASE DriftReserve
  <2>1. nps'.claims = nps.claims
    <3> DEFINE w == SmallerOf(AllowedDisruptions, Cardinality(drift))
    <3>1. nps' = nps \/ nps' = ReserveNodeCount(nps, Pool, NodeLimit, w)
      BY <1>18, Zenon DEF DriftReserve
    <3> HIDE DEF w
    <3> QED BY <1>t, <3>1, SMTT(60) DEF ReserveNodeCount, NodePoolStates
  <2>2. PICK S \in SUBSET drift, b \in BOOLEAN : cmd' = cmd \/ StartCommands(S, b)
    BY <1>18, ZenonT(60) DEF DriftReserve
  <2>3. \A c \in S : cmd[c].phase = "none"
    BY <2>2, ZenonT(60) DEF Slots
  <2>4. \A nc \in NodeClaims : /\ cmd'[nc].phase # "none" => cmd[nc].phase # "none" \/ nc \in drift
                               /\ cmd[nc].phase = "seed" => cmd'[nc] = cmd[nc]
    BY <1>t, <2>2, <2>3, ZenonT(60) DEF StartCommands
  <2> QED BY <1>18, <2>1, <2>4, SameApi, CountCommands, ZenonT(60) DEF DriftReserve
<1>19. ASSUME NEW c \in NodeClaims, MarkDisrupted(c) PROVE CountInv'
  <2>1. \A k \in NodeClaims : /\ cmd'[k].phase # "none" => cmd[k].phase # "none"
                              /\ cmd[k].phase = "seed" => cmd'[k] = cmd[k]
    BY <1>t, <1>19, SMTT(60) DEF MarkDisrupted, SetPhase, Command
  <2> QED BY <1>19, <2>1, SameApi, CountCommands, ZenonT(60) DEF MarkDisrupted
<1>20. ASSUME NEW c \in NodeClaims, MarkPending(c) PROVE CountInv'
  <2>1. Settled(c)
    BY <1>20, Zenon DEF MarkPending, CountInv, Candidates
  <2>2. \A k \in NodeClaims : /\ cmd'[k].phase # "none" => cmd[k].phase # "none"
                              /\ cmd[k].phase = "seed" => cmd'[k] = cmd[k]
    BY <1>t, <1>20, ZenonT(60) DEF MarkPending, SetPhase, Command
  <2>3. /\ InUse(nps', Pool) = InUse(nps, Pool) \ {c}
        /\ nps'.claims[Pool].pendingDisruption = nps.claims[Pool].pendingDisruption \cup {c}
    <3>1. nps' = MarkNodeClaimPendingDisruption(nps, Pool, c)
      BY <1>20 DEF MarkPending
    <3>2. Pool \in NodePools /\ nps \in NodePoolStates
      BY <1>t, SMTT(60)
    <3> QED BY <3>1, <3>2, PendingLeavesUse, SMTT(60)
  <2>4. CandidatesAge
    BY <1>20, <2>1, <2>2, <2>3, ZenonT(60) DEF MarkPending, CandidatesAge
  <2>5. FilesAge
    <3>1. \A nc \in NodeClaims : Filed(nc) => nc = c \/ Filed(nc)'
      BY <1>20, <2>3, ZenonT(60) DEF MarkPending, Filed
    <3>2. cluster' = cluster
      BY <1>20 DEF MarkPending
    <3> QED BY <2>1, <3>1, <3>2, ZenonT(60) DEF FilesAge
  <2>6. Seeding \subseteq Seeding'
    BY <1>20, <2>2, ZenonT(60) DEF MarkPending, Seeding
  <2> QED BY <1>20, <2>4, <2>5, <2>6, SameApi, SameKnown, CountFrame, ZenonT(60) DEF MarkPending
<1>21. ASSUME NEW c \in NodeClaims, ReplacementSeed(c) PROVE CountInv'
  <2>1. cmd[c].repl \in NodeClaims
    BY <1>21 DEF ReplacementSeed, SeedNamed
  <2>2. \A k \in NodeClaims : /\ cmd'[k].phase # "none" => cmd[k].phase # "none"
                              /\ k # c => cmd'[k] = cmd[k]
    BY <1>t, <1>21, ZenonT(60) DEF ReplacementSeed, SetPhase, Command
  <2>3. Seeding \ {cmd[c].repl} \subseteq Seeding'
    BY <1>21, <2>2, SMTT(60) DEF ReplacementSeed, Seeding
  <2> QED BY <1>21, <2>1, <2>2, <2>3, CountSeed, ZenonT(60) DEF ReplacementSeed
<1>22. ASSUME NEW c \in NodeClaims, ReplacementRelease(c) PROVE CountInv'
  <2>1. nps'.claims = nps.claims
    BY <1>t, <1>22, ReleasePreserves DEF ReplacementRelease
  <2>2. \A k \in NodeClaims : /\ cmd'[k].phase # "none" => cmd[k].phase # "none"
                              /\ cmd[k].phase = "seed" => cmd'[k] = cmd[k]
    BY <1>t, <1>22, SMTT(60) DEF ReplacementRelease, Command, NoCmd
  <2> QED BY <1>22, <2>1, <2>2, SameApi, CountCommands DEF ReplacementRelease
<1>23. ASSUME NEW c \in NodeClaims, MarkForDeletion(c) PROVE CountInv'
  <2> DEFINE e == [cluster[c] EXCEPT !.marked = cluster[c].marked \/ cluster[c].node]
  <2>1. cluster[c] \in ClusterEntry
    BY <1>t
  <2>2. e \in ClusterEntry /\ e.pid = cluster[c].pid
    BY <2>1 DEF ClusterEntry
  <2>3. e.drifted => cluster[c].drifted
    BY <2>1 DEF ClusterEntry
  <2>4. cluster' = [cluster EXCEPT ![c] = e]
    BY <1>t, <1>23 DEF MarkForDeletion
  <2> HIDE DEF e
  <2>5. \A k \in NodeClaims : /\ cmd'[k].phase # "none" => cmd[k].phase # "none"
                              /\ cmd[k].phase = "seed" => cmd'[k] = cmd[k]
    BY <1>t, <1>23 DEF MarkForDeletion, SetPhase, Command
  <2>6. nps' \in {nps, MarkNodeClaimActive(nps, Pool, c), MarkNodeClaimDeleting(nps, Pool, c)}
    BY <1>23 DEF MarkForDeletion
  <2>7. UNCHANGED <<used, api, removed, updating, hasSynced, prov, drift>>
    BY <1>23 DEF MarkForDeletion
  <2> QED BY <2>2, <2>3, <2>4, <2>5, <2>6, <2>7, CountMarks, Zenon
<1>24. ASSUME NEW c \in NodeClaims, NEW nc \in NodeClaims, ReplacementCreate(c, nc) PROVE CountInv'
  <2>1. \A k \in NodeClaims : /\ cmd'[k].phase # "none" => cmd[k].phase # "none"
                              /\ k # c => cmd'[k] = cmd[k]
    BY <1>t, <1>24 DEF ReplacementCreate, Command
  <2>2. cmd'[c].phase = "seed" /\ cmd'[c].repl = nc /\ cmd[c].phase = "create"
    BY <1>t, <1>24 DEF ReplacementCreate, Command
  <2>3. Seeding \cup {nc} \subseteq Seeding'
    <3>1. prov' = prov
      BY <1>24 DEF ReplacementCreate
    <3>2. \A d \in NodeClaims : cmd[d].phase = "seed" => cmd'[d].phase = "seed" /\ cmd'[d].repl = cmd[d].repl
      BY <2>1, <2>2
    <3>3. nc \in Seeding'
      BY <2>2, Zenon DEF Seeding
    <3>4. ASSUME NEW x \in Seeding, x \notin prov.seeding PROVE x \in Seeding'
      <4>1. PICK d \in NodeClaims : cmd[d].phase = "seed" /\ x = cmd[d].repl
        BY <3>4, ZenonT(60) DEF Seeding
      <4>2. cmd'[d].phase = "seed" /\ x = cmd'[d].repl
        BY <3>2, <4>1
      <4> QED BY <4>2, Zenon DEF Seeding
    <3>5. prov.seeding \subseteq Seeding'
      BY <3>1, Zenon DEF Seeding
    <3> QED BY <3>3, <3>4, <3>5
  <2> QED BY <1>24, <2>1, <2>3, CountCreate, Zenon DEF ReplacementCreate
<1>25. ASSUME NEW c \in NodeClaims, QueueTerminate(c) PROVE CountInv'
  <2>1. \A k \in NodeClaims : /\ cmd'[k].phase # "none" => cmd[k].phase # "none"
                              /\ cmd[k].phase = "seed" => cmd'[k] = cmd[k]
    BY <1>t, <1>25 DEF QueueTerminate, SetPhase, Command
  <2> QED BY <1>25, <2>1, DeleteAges, CountCommands DEF QueueTerminate
<1>26. ASSUME NEW c \in NodeClaims, QueueGiveUp(c) PROVE CountInv'
  <2>1. \A k \in NodeClaims : /\ cmd'[k].phase # "none" => cmd[k].phase # "none"
                              /\ cmd[k].phase = "seed" => cmd'[k] = cmd[k]
    BY <1>t, <1>26, SMTT(60) DEF QueueGiveUp, SetPhase, Command
  <2> QED BY <1>26, <2>1, SameApi, CountCommands, ZenonT(60) DEF QueueGiveUp
<1>27. ASSUME NEW c \in NodeClaims, CompleteCommand(c) PROVE CountInv'
  <2>1. \A k \in NodeClaims : /\ cmd'[k].phase # "none" => cmd[k].phase # "none"
                              /\ cmd[k].phase = "seed" => cmd'[k] = cmd[k]
    BY <1>t, <1>27 DEF CompleteCommand, Command, NoCmd
  <2>2. PICK e \in ClusterEntry : /\ cluster' = [cluster EXCEPT ![c] = e]
                                  /\ e.pid = cluster[c].pid /\ (e.drifted => cluster[c].drifted)
    <3> DEFINE e == [cluster[c] EXCEPT !.marked = FALSE]
    <3>1. cluster[c] \in ClusterEntry
      BY <1>t
    <3>2. e \in ClusterEntry /\ e.pid = cluster[c].pid
      BY <3>1, Zenon DEF ClusterEntry
    <3>3. e.drifted => cluster[c].drifted
      BY <3>1 DEF ClusterEntry
    <3>4. cluster' = [cluster EXCEPT ![c] = e] \/ cluster' = [cluster EXCEPT ![c] = cluster[c]]
      BY <1>t, <1>27 DEF CompleteCommand
    <3> HIDE DEF e
    <3> QED BY <3>1, <3>2, <3>3, <3>4
  <2>3. nps' \in {nps, MarkNodeClaimActive(nps, Pool, c), MarkNodeClaimDeleting(nps, Pool, c)}
    BY <1>27 DEF CompleteCommand
  <2>4. UNCHANGED <<used, api, removed, updating, hasSynced, prov, drift>>
    BY <1>27 DEF CompleteCommand
  <2> QED BY <2>1, <2>2, <2>3, <2>4, CountMarks, Zenon
<1>28. CASE Restart
  <2>1. /\ \A nc \in NodeClaims : cluster'[nc].pid = "none" /\ ~cluster'[nc].drifted /\ cmd'[nc].phase = "none"
        /\ drift' = {} /\ removed' = {} /\ ~hasSynced' /\ UNCHANGED <<used, api>>
    BY <1>28 DEF Restart, Unknown, NoCmd
  <2>2. nps'.claims[Pool].pendingDisruption = {}
    BY <1>t, <1>28, ZenonT(60) DEF Restart, NewNodePoolState, EmptyClaims
  <2>3. CandidatesAge /\ FilesAge /\ KnownAges
    BY <2>1, <2>2, ZenonT(60) DEF CandidatesAge, FilesAge, KnownAges
  <2>4. ApiAges
    BY <2>1 DEF ApiAges, CountInv, Named
  <2> QED BY <2>3, <2>4, CountFrame
<1>29. CASE ProvisionCreateFails
  <2>1. prov'.seeding = prov.seeding
    BY <1>t, <1>29 DEF ProvisionCreateFails
  <2> QED BY <1>29, <2>1, CountQuiet, ZenonT(60) DEF ProvisionCreateFails
<1>30. ASSUME NEW nc \in NodeClaims, Drift(nc) PROVE CountInv'
  <2> DEFINE o == [api[nc] EXCEPT !.drifted = TRUE]
  <2>1. api[nc] \in Claim /\ api[nc].phase = "launched"
    BY <1>t, <1>30 DEF Drift, Launched
  <2>2. o \in Claim /\ o.drifted
    BY <2>1, Zenon DEF Claim
  <2>3. Exists(api[nc]) /\ nc \in used
    BY <2>1 DEF Exists, Absent, CountInv, Named
  <2>4. api' = [api EXCEPT ![nc] = o] /\ UNCHANGED <<used, removed>>
    BY <1>30, SMTT(60) DEF Drift
  <2> HIDE DEF o
  <2>5. ApiAges /\ \A k \in NodeClaims : Exists(api'[k]) => Exists(api[k])
    BY <2>2, <2>3, <2>4, ApiMoves, ZenonT(60)
  <2> QED BY <1>30, <2>5, CountApi, Zenon DEF Drift
<1>31. ASSUME NEW nc \in NodeClaims, ExternalDelete(nc) PROVE CountInv'
  BY <1>31, DeleteAges, CountApi DEF ExternalDelete
<1>32. ASSUME NEW nc \in NodeClaims, DeprovisionDeleteFails(nc) PROVE CountInv'
  BY <1>32, CountQuiet DEF DeprovisionDeleteFails
<1>33. ASSUME NEW c \in NodeClaims, MarkDisruptedFails(c) PROVE CountInv'
  <2>1. nps'.claims = nps.claims
    BY <1>t, <1>33, ReleasePreserves, SMTT(60) DEF MarkDisruptedFails
  <2>2. \A k \in NodeClaims : /\ cmd'[k].phase # "none" => cmd[k].phase # "none"
                              /\ cmd[k].phase = "seed" => cmd'[k] = cmd[k]
    BY <1>t, <1>33, ZenonT(60) DEF MarkDisruptedFails, Command, NoCmd
  <2> QED BY <1>33, <2>1, <2>2, SameApi, CountCommands, ZenonT(60) DEF MarkDisruptedFails
<1>34. ASSUME NEW c \in NodeClaims, ReplacementCreateFails(c) PROVE CountInv'
  <2>1. \A k \in NodeClaims : /\ cmd'[k].phase # "none" => cmd[k].phase # "none"
                              /\ cmd[k].phase = "seed" => cmd'[k] = cmd[k]
    BY <1>t, <1>34 DEF ReplacementCreateFails, SetPhase, Command
  <2> QED BY <1>34, <2>1, SameApi, CountCommands, ZenonT(60) DEF ReplacementCreateFails
<1>35. ASSUME NEW n \in Replicas, Scale(n) PROVE CountInv'
  BY <1>35, CountQuiet, ZenonT(60) DEF Scale
<1>36. CASE UNCHANGED vars
  BY <1>36, CountQuiet, SMTT(60) DEF vars
<1> QED BY <1>1, <1>2, <1>3, <1>4, <1>5, <1>6, <1>7, <1>8, <1>9, <1>10, <1>11, <1>12, <1>13, <1>14, <1>15, <1>16, <1>17, <1>18, <1>19, <1>20, <1>21, <1>22, <1>23, <1>24, <1>25, <1>26, <1>27, <1>28, <1>29, <1>30, <1>31, <1>32, <1>33, <1>34, <1>35, <1>36, NextCases, ZenonT(60)

(* Once Cluster has synced, every claim that exists is counted, unless its   *)
(* creator has yet to seed it, its update is under way, or it is drifted     *)
(* (static/provisioning/controller.go:83-88, cluster.go, statenodepool.go):  *)
(* after a restart too, static provisioning does not create what is there.   *)
THEOREM CountedOnceSyncedHolds == Spec => []CountedOnceSynced
<1>1. Init => CountInv
  <2> SUFFICES ASSUME Init PROVE CountInv
    OBVIOUS
  <2>1. \A nc \in NodeClaims : /\ api[nc] = Absent /\ cluster[nc].pid = "none" /\ ~cluster[nc].drifted
                               /\ cmd[nc].phase = "none"
    BY ZenonT(60) DEF Init, Unknown, NoCmd
  <2>2. nps.claims[Pool].pendingDisruption = {} /\ removed = {} /\ drift = {} /\ ~hasSynced
    BY StaticCapacityAssumption, SMTT(60) DEF Init, NewNodePoolState, EmptyClaims
  <2> QED BY <2>1, <2>2, ZenonT(60) DEF CountInv, Named, Candidates
<1>2. TypeOK /\ TypeOK' /\ SeedNamed /\ Slots /\ CountInv /\ [Next]_vars => CountInv'
  BY CountStep, ZenonT(60)
<1>3. TypeOK /\ CountInv => CountedOnceSynced
  <2> SUFFICES ASSUME TypeOK, CountInv, hasSynced, NEW nc \in NodeClaims, Exists(api[nc]), ~api[nc].drifted
               PROVE  nc \in Tracked(nps, Pool) \cup Seeding \cup {updating}
    BY ZenonT(60) DEF CountedOnceSynced
  <2>1. Known(nc) /\ (cluster[nc].pid # "none" => Filed(nc))
    BY DEF CountInv, Settled
  <2> QED BY <2>1, ZenonT(60) DEF Known, Filed, InUse, Tracked
<1> QED BY <1>1, <1>2, <1>3, TypeInvariant, SlotsHold, PTL DEF Spec
=============================================================================
