------------------------- MODULE ClusterStateLemmas -------------------------
(***************************************************************************)
(* The operations of the Cluster and the steps of the controllers keep     *)
(* ClusterInv and ConvergedInv.                                            *)
(***************************************************************************)
EXTENDS ClusterState, TLAPS

(* The methods of NodePoolState keep its type. *)
LEMMA PoolMarks ==
    ASSUME NEW s \in NodePoolStates, NEW np \in NodePools, NEW nc \in NodeClaims
    PROVE  /\ MarkNodeClaimActive(s, np, nc) \in NodePoolStates
           /\ MarkNodeClaimDeleting(s, np, nc) \in NodePoolStates
           /\ MarkNodeClaimPendingDisruption(s, np, nc) \in NodePoolStates
<1>1. MarkNodeClaimActive(s, np, nc) \in NodePoolStates
  BY ZenonT(60) DEF MarkNodeClaimActive, NodePoolStates, NodeClaimState
<1>2. MarkNodeClaimDeleting(s, np, nc) \in NodePoolStates
  BY ZenonT(60) DEF MarkNodeClaimDeleting, NodePoolStates, NodeClaimState
<1>3. MarkNodeClaimPendingDisruption(s, np, nc) \in NodePoolStates
  BY ZenonT(60) DEF MarkNodeClaimPendingDisruption, NodePoolStates, NodeClaimState
<1> QED BY <1>1, <1>2, <1>3

LEMMA PoolUpdate ==
    ASSUME NEW s \in NodePoolStates, NEW np \in NodePools, NEW nc \in NodeClaims, NEW b
    PROVE  UpdateNodeClaim(s, np, nc, b) \in NodePoolStates
<1>1. SetNodeClaimMapping(s, np, nc) \in NodePoolStates
  BY DEF SetNodeClaimMapping, NodePoolStates
<1> QED BY <1>1, PoolMarks, Zenon DEF UpdateNodeClaim

LEMMA PoolCleanup ==
    ASSUME NEW s \in NodePoolStates, NEW nc \in NodeClaims
    PROVE  Cleanup(s, nc) \in NodePoolStates
<1>1. CASE s.poolOf[nc] = NoPool
  BY <1>1 DEF Cleanup, NodePoolStates
<1>2. CASE s.poolOf[nc] # NoPool
  <2> DEFINE np == s.poolOf[nc]
             left == [active |-> s.claims[np].active \ {nc},
                      pendingDisruption |-> s.claims[np].pendingDisruption \ {nc},
                      deleting |-> s.claims[np].deleting \ {nc}]
             t == Cleanup(s, nc)
  <2>1. np \in NodePools
    BY <1>2, SMTT(60) DEF NodePoolStates
  <2>2. PICK b \in BOOLEAN :
           t = [claims   |-> [s.claims EXCEPT ![np] = IF b THEN EmptyClaims ELSE left],
                poolOf   |-> [s.poolOf EXCEPT ![nc] = NoPool],
                reserved |-> [s.reserved EXCEPT ![np] = IF b THEN 0 ELSE @]]
    BY <1>2, Zenon DEF Cleanup
  <2>3. EmptyClaims \in NodeClaimState /\ left \in NodeClaimState
    BY <2>1 DEF EmptyClaims, NodeClaimState, NodePoolStates
  <2> HIDE DEF t, left
  <2>4. t \in NodePoolStates
    BY <2>1, <2>2, <2>3 DEF NodePoolStates
  <2> QED BY <2>4 DEF t
<1> QED BY <1>1, <1>2

(* The parts of MappingsResolve and ResourcesExact as facts about a Cluster. *)
ClaimsResolve(d) == \A nc \in NodeClaims : d.claimPid[nc] \in PIDs => d.nodes[d.claimPid[nc]].claim = nc
NodesResolve(d) == \A n \in Nodes : d.nodePid[n] # None => d.nodes[d.nodePid[n]].node = n

CountedKeys(f) == {k \in Keys : Counted(f[k])}
ClaimKeys(f) == {k \in Keys : Counted(f[k]) /\ FromClaim(f[k])}
NodeKeys(f) == {k \in Keys : Counted(f[k]) /\ FromNode(f[k])}
CpuOf(f) == ClaimCap * Cardinality(ClaimKeys(f)) + NodeCap * Cardinality(NodeKeys(f))
Exact(d) ==
    /\ d.count = Cardinality(CountedKeys(d.nodes))
    /\ d.cpu = CpuOf(d.nodes)

(* What the proofs use of cardinalities; ClusterStateProofs shows it. *)
Counting ==
    /\ Cardinality({}) = 0
    /\ \A T \in SUBSET Keys : Cardinality(T) \in Nat
    /\ \A T, U \in SUBSET Keys : \A k \in Keys : T \ {k} = U \ {k} =>
          Cardinality(U) = Cardinality(T) - (IF k \in T THEN 1 ELSE 0) + (IF k \in U THEN 1 ELSE 0)

LEMMA KeySets ==
    ASSUME Counting, NEW f
    PROVE  /\ CountedKeys(f) \in SUBSET Keys /\ ClaimKeys(f) \in SUBSET Keys /\ NodeKeys(f) \in SUBSET Keys
           /\ Cardinality(CountedKeys(f)) \in Nat /\ Cardinality(ClaimKeys(f)) \in Nat
           /\ Cardinality(NodeKeys(f)) \in Nat
<1>1. CountedKeys(f) \in SUBSET Keys /\ ClaimKeys(f) \in SUBSET Keys /\ NodeKeys(f) \in SUBSET Keys
  BY Zenon DEF CountedKeys, ClaimKeys, NodeKeys
<1> QED BY <1>1, Zenon DEF Counting

LEMMA ExactIsResourcesExact == Exact(c) <=> ResourcesExact
<1> DEFINE S == {k \in Keys : Counted(c.nodes[k])}
<1>1. S = CountedKeys(c.nodes)
  BY DEF CountedKeys
<1>2. {k \in S : FromClaim(c.nodes[k])} = ClaimKeys(c.nodes)
  BY DEF ClaimKeys
<1>3. {k \in S : FromNode(c.nodes[k])} = NodeKeys(c.nodes)
  BY DEF NodeKeys
<1>4. ResourcesExact <=> c.count = Cardinality(S) /\ c.cpu = SumCpu(S)
  BY DEF ResourcesExact
<1> HIDE DEF S
<1> QED BY <1>1, <1>2, <1>3, <1>4, Zenon DEF Exact, SumCpu, CpuOf

(* Changing whether one element is in a set. *)
LEMMA SwapOne ==
    ASSUME Counting, NEW T \in SUBSET Keys, NEW U \in SUBSET Keys, NEW k \in Keys, T \ {k} = U \ {k}
    PROVE  Cardinality(U) = Cardinality(T) - (IF k \in T THEN 1 ELSE 0) + (IF k \in U THEN 1 ELSE 0)
BY Zenon DEF Counting

(* What the capacity of a node adds. *)
LEMMA CapacityClass ==
    ASSUME NEW s
    PROVE  Capacity(s) = ClaimCap * (IF FromClaim(s) THEN 1 ELSE 0) + NodeCap * (IF FromNode(s) THEN 1 ELSE 0)
BY ClusterStateAssumption DEF Capacity, FromClaim, FromNode

(* The totals follow the change of one StateNode. *)
LEMMA TotalsFollow ==
    ASSUME Counting, NEW f, NEW g, NEW k \in Keys, \A j \in Keys \ {k} : g[j] = f[j]
    PROVE  LET old == f[k]
               new == g[k]
           IN  /\ Cardinality(CountedKeys(g)) = Cardinality(CountedKeys(f)) - (IF Counted(old) THEN 1 ELSE 0)
                                                                           + (IF Counted(new) THEN 1 ELSE 0)
               /\ CpuOf(g) = CpuOf(f) - (IF Counted(old) THEN Capacity(old) ELSE 0) + (IF Counted(new) THEN Capacity(new) ELSE 0)
<1> DEFINE old == f[k]
           new == g[k]
           one(b) == IF b THEN 1 ELSE 0
<1>1. Cardinality(CountedKeys(g)) = Cardinality(CountedKeys(f)) - one(Counted(old)) + one(Counted(new))
  <2>1. CountedKeys(g) \ {k} = CountedKeys(f) \ {k}
    BY DEF CountedKeys
  <2>2. (k \in CountedKeys(f) <=> Counted(old)) /\ (k \in CountedKeys(g) <=> Counted(new))
    BY DEF CountedKeys
  <2> QED BY <2>1, <2>2, SwapOne, KeySets
<1>2. Cardinality(ClaimKeys(g)) = Cardinality(ClaimKeys(f)) - one(Counted(old) /\ FromClaim(old))
                                                           + one(Counted(new) /\ FromClaim(new))
  <2>1. ClaimKeys(g) \ {k} = ClaimKeys(f) \ {k}
    BY DEF ClaimKeys
  <2>2. (k \in ClaimKeys(f) <=> Counted(old) /\ FromClaim(old)) /\ (k \in ClaimKeys(g) <=> Counted(new) /\ FromClaim(new))
    BY DEF ClaimKeys
  <2> QED BY <2>1, <2>2, SwapOne, KeySets
<1>3. Cardinality(NodeKeys(g)) = Cardinality(NodeKeys(f)) - one(Counted(old) /\ FromNode(old))
                                                         + one(Counted(new) /\ FromNode(new))
  <2>1. NodeKeys(g) \ {k} = NodeKeys(f) \ {k}
    BY DEF NodeKeys
  <2>2. (k \in NodeKeys(f) <=> Counted(old) /\ FromNode(old)) /\ (k \in NodeKeys(g) <=> Counted(new) /\ FromNode(new))
    BY DEF NodeKeys
  <2> QED BY <2>1, <2>2, SwapOne, KeySets
<1> DEFINE a == Cardinality(ClaimKeys(f))
           b == Cardinality(NodeKeys(f))
           x == one(Counted(old) /\ FromClaim(old))
           y == one(Counted(new) /\ FromClaim(new))
           u == one(Counted(old) /\ FromNode(old))
           v == one(Counted(new) /\ FromNode(new))
           o == IF Counted(old) THEN Capacity(old) ELSE 0
           w == IF Counted(new) THEN Capacity(new) ELSE 0
           ox == ClaimCap * x + NodeCap * u
           wx == ClaimCap * y + NodeCap * v
           l == ClaimCap * (a - x + y) + NodeCap * (b - u + v)
           m == ClaimCap * a + NodeCap * b
<1>4. o = ox
  BY CapacityClass, ClusterStateAssumption
<1>5. w = wx
  BY CapacityClass, ClusterStateAssumption
<1>6. x \in Int /\ y \in Int /\ u \in Int /\ v \in Int /\ a \in Int /\ b \in Int
  BY KeySets
<1> HIDE DEF a, b, x, y, u, v
<1>7. l = m - ox + wx
  <2>1. \A i \in Nat : \A p, q, r \in Int : i * (p - q + r) = i * p - i * q + i * r
    OBVIOUS
  <2>2. ClaimCap * (a - x + y) = ClaimCap * a - ClaimCap * x + ClaimCap * y
    BY <1>6, <2>1, ClusterStateAssumption
  <2>3. NodeCap * (b - u + v) = NodeCap * b - NodeCap * u + NodeCap * v
    BY <1>6, <2>1, ClusterStateAssumption
  <2>4. /\ ClaimCap * a \in Int /\ ClaimCap * x \in Int /\ ClaimCap * y \in Int
        /\ NodeCap * b \in Int /\ NodeCap * u \in Int /\ NodeCap * v \in Int
    BY <1>6, ClusterStateAssumption
  <2> QED BY <2>2, <2>3, <2>4
<1>8. CpuOf(g) = l
  BY <1>2, <1>3 DEF a, b, x, y, u, v, CpuOf
<1>9. CpuOf(f) = m
  BY DEF a, b, CpuOf
<1>10. CpuOf(g) = CpuOf(f) - o + w
  <2> HIDE DEF o, w, ox, wx, l, m
  <2> QED BY <1>4, <1>5, <1>7, <1>8, <1>9
<1> QED BY <1>1, <1>10

-----------------------------------------------------------------------------
(* The operations of the Cluster *)

Maps(d, e) == e.nodePid = d.nodePid /\ e.claimPid = d.claimPid

LEMMA ClusterFields ==
    ASSUME NEW d \in Clusters
    PROVE  /\ d.nodes \in [Keys -> StateNodes] /\ d.nodePid \in [Nodes -> Keys \cup {None}]
           /\ d.claimPid \in [NodeClaims -> PIDs \cup {Empty, None}] /\ d.bindings \in [Pods -> Nodes \cup {None}]
           /\ d.count \in Nat /\ d.cpu \in Nat /\ d.nps \in NodePoolStates /\ d.consolidated \in BOOLEAN
BY DEF Clusters

LEMMA TotalsNat ==
    ASSUME Counting, NEW f
    PROVE  /\ Cardinality(CountedKeys(f)) \in Nat
           /\ CpuOf(f) \in Nat
BY KeySets, ClusterStateAssumption DEF CpuOf

(* A StateNode is replaced and the totals updated from what it was. *)
Put(d, k, old, new) == [updateNodePoolResources(d, old, new) EXCEPT !.nodes[k] = new]

LEMMA PutNode ==
    ASSUME Counting, NEW d \in Clusters, Exact(d), NEW k \in Keys, NEW new \in StateNodes, NEW old,
           Counted(old) <=> Counted(d.nodes[k]), Capacity(old) = Capacity(d.nodes[k]),
           NEW e, e = Put(d, k, old, new)
    PROVE  e \in Clusters /\ Exact(e) /\ Maps(d, e) /\ e.nodes = [d.nodes EXCEPT ![k] = new] /\ e.nps = d.nps
<1> DEFINE f == [d.nodes EXCEPT ![k] = new]
           x == d.count - (IF Counted(old) THEN 1 ELSE 0) + (IF Counted(new) THEN 1 ELSE 0)
           y == d.cpu - (IF Counted(old) THEN Capacity(old) ELSE 0) + (IF Counted(new) THEN Capacity(new) ELSE 0)
<1>1. e = [d EXCEPT !.nodes = f, !.count = x, !.cpu = y]
  BY Zenon DEF Put, updateNodePoolResources, Clusters
<1>2. f \in [Keys -> StateNodes] /\ f[k] = new /\ \A j \in Keys \ {k} : f[j] = d.nodes[j]
  BY ClusterFields
<1> HIDE DEF f
<1> DEFINE g == d.nodes
           s == d.nodes[k]
<1>3. /\ Cardinality(CountedKeys(f)) = Cardinality(CountedKeys(g)) - (IF Counted(s) THEN 1 ELSE 0)
                                                                   + (IF Counted(new) THEN 1 ELSE 0)
      /\ CpuOf(f) = CpuOf(g) - (IF Counted(s) THEN Capacity(s) ELSE 0) + (IF Counted(new) THEN Capacity(new) ELSE 0)
  <2> HIDE DEF g
  <2>1. s = g[k]
    BY DEF g
  <2> HIDE DEF s
  <2>2. \A j \in Keys \ {k} : f[j] = g[j]
    BY <1>2 DEF g
  <2> QED BY <1>2, <2>1, <2>2, TotalsFollow
<1>4. x = Cardinality(CountedKeys(f)) /\ y = CpuOf(f)
  <2> DEFINE n1 == IF Counted(s) THEN 1 ELSE 0
             n2 == IF Counted(new) THEN 1 ELSE 0
             m1 == IF Counted(s) THEN Capacity(s) ELSE 0
             m2 == IF Counted(new) THEN Capacity(new) ELSE 0
  <2>1. x = d.count - n1 + n2
    BY DEF x
  <2>2. y = d.cpu - m1 + m2
    BY DEF y
  <2>3. d.count = Cardinality(CountedKeys(g))
    BY DEF Exact
  <2>4. d.cpu = CpuOf(g)
    BY DEF Exact
  <2> HIDE DEF n1, n2, m1, m2, x, y, s, g
  <2>5. x = Cardinality(CountedKeys(f))
    BY <1>3, <2>1, <2>3 DEF n1, n2
  <2>6. y = CpuOf(f)
    BY <1>3, <2>2, <2>4 DEF m1, m2
  <2> QED BY <2>5, <2>6
<1>5. x \in Nat /\ y \in Nat
  BY <1>4, TotalsNat
<1> HIDE DEF x, y, s, g
<1>6. e \in Clusters /\ Maps(d, e) /\ e.nodes = f /\ e.count = x /\ e.cpu = y /\ e.nps = d.nps
  BY <1>1, <1>2, <1>5, Zenon DEF Clusters, Maps
<1>7. Exact(e)
  BY <1>4, <1>6 DEF Exact
<1> QED BY <1>6, <1>7 DEF f

LEMMA SetNodeExact ==
    ASSUME Counting, NEW d \in Clusters, Exact(d), NEW k \in Keys, NEW s \in StateNodes, NEW e, e = SetNode(d, k, s)
    PROVE  e \in Clusters /\ Exact(e) /\ Maps(d, e) /\ e.nodes = [d.nodes EXCEPT ![k] = s] /\ e.nps = d.nps
<1>1. e = Put(d, k, d.nodes[k], s)
  BY DEF SetNode, Put
<1> QED BY <1>1, PutNode

(* Updates that leave the nodes alone. *)
LEMMA Consolidated ==
    ASSUME NEW d \in Clusters, Exact(d), NEW old, NEW new
    PROVE  /\ LET e == MarkUnconsolidated(d)
              IN  e \in Clusters /\ Exact(e) /\ Maps(d, e) /\ e.nodes = d.nodes /\ e.nps = d.nps
           /\ LET e == triggerConsolidationOnChange(d, old, new)
              IN  e \in Clusters /\ Exact(e) /\ Maps(d, e) /\ e.nodes = d.nodes /\ e.nps = d.nps
<1>1. LET e == MarkUnconsolidated(d)
      IN  e \in Clusters /\ Exact(e) /\ Maps(d, e) /\ e.nodes = d.nodes /\ e.nps = d.nps
  BY Zenon DEF MarkUnconsolidated, Clusters, Exact, Maps
<1> QED BY <1>1 DEF triggerConsolidationOnChange, Maps

-----------------------------------------------------------------------------
(* What an operation on a claim, or on a Node, does to the maps. *)

SameNodes(d, e) == e.nodePid = d.nodePid /\ \A k \in Keys : e.nodes[k].node = d.nodes[k].node
SameClaims(d, e) == e.claimPid = d.claimPid /\ \A k \in Keys : e.nodes[k].claim = d.nodes[k].claim

ClaimMoved(d, e, nc, to) ==
    /\ e.claimPid = [d.claimPid EXCEPT ![nc] = to]
    /\ to \in PIDs => e.nodes[to].claim = nc
    /\ \A k \in Keys : k # to /\ k # d.claimPid[nc] => e.nodes[k].claim = d.nodes[k].claim

NodeMoved(d, e, n, to) ==
    /\ e.nodePid = [d.nodePid EXCEPT ![n] = to]
    /\ to # None => e.nodes[to].node = n
    /\ \A k \in Keys : k # to /\ k # d.nodePid[n] => e.nodes[k].node = d.nodes[k].node

LEMMA ClaimMovedResolves ==
    ASSUME NEW d \in Clusters, NEW e, NEW nc \in NodeClaims, NEW to, ClaimsResolve(d), ClaimMoved(d, e, nc, to),
           \A other \in NodeClaims \ {nc} : d.claimPid[other] \in PIDs => d.claimPid[other] # to
    PROVE  ClaimsResolve(e)
<1> SUFFICES ASSUME NEW x \in NodeClaims, e.claimPid[x] \in PIDs
             PROVE  e.nodes[e.claimPid[x]].claim = x
  BY DEF ClaimsResolve
<1>1. d.claimPid \in [NodeClaims -> PIDs \cup {Empty, None}] /\ PIDs \subseteq Keys
  BY ClusterFields DEF Keys
<1>2. CASE x = nc
  BY <1>1, <1>2 DEF ClaimMoved
<1>3. CASE x # nc
  BY <1>1, <1>3 DEF ClaimMoved, ClaimsResolve
<1> QED BY <1>2, <1>3

LEMMA NodeMovedResolves ==
    ASSUME NEW d \in Clusters, NEW e, NEW n \in Nodes, NEW to, NodesResolve(d), NodeMoved(d, e, n, to),
           \A other \in Nodes \ {n} : d.nodePid[other] # None => d.nodePid[other] # to
    PROVE  NodesResolve(e)
<1> SUFFICES ASSUME NEW x \in Nodes, e.nodePid[x] # None
             PROVE  e.nodes[e.nodePid[x]].node = x
  BY DEF NodesResolve
<1>1. d.nodePid \in [Nodes -> Keys \cup {None}]
  BY ClusterFields
<1>2. CASE x = n
  BY <1>1, <1>2 DEF NodeMoved
<1>3. CASE x # n
  BY <1>1, <1>3, SMTT(60) DEF NodeMoved, NodesResolve
<1> QED BY <1>2, <1>3, SMTT(60)

LEMMA SameResolves ==
    ASSUME NEW d \in Clusters, NEW e
    PROVE  /\ SameClaims(d, e) /\ ClaimsResolve(d) => ClaimsResolve(e)
           /\ SameNodes(d, e) /\ NodesResolve(d) => NodesResolve(e)
<1>1. PIDs \subseteq Keys /\ d.nodePid \in [Nodes -> Keys \cup {None}]
  BY ClusterFields, SMTT(60) DEF Keys
<1> QED BY <1>1 DEF SameClaims, SameNodes, ClaimsResolve, NodesResolve

LEMMA NewNodeTyped == NewNode \in StateNodes /\ NoNode \in NodeObj
BY DEF NewNode, NoNode, StateNodes, NodeObj

LEMMA WithoutTyped ==
    ASSUME NEW s \in StateNodes
    PROVE  /\ WithoutClaim(s) \in StateNodes /\ WithoutClaim(s).node = s.node
           /\ WithoutNode(s) \in StateNodes /\ WithoutNode(s).claim = s.claim
<1>1. WithoutClaim(s) \in StateNodes /\ WithoutClaim(s).node = s.node
  <2>1. CASE s.node = None
    BY <2>1, NewNodeTyped DEF WithoutClaim, NewNode
  <2>2. CASE s.node # None
    BY <2>2, Zenon DEF WithoutClaim, StateNodes
  <2> QED BY <2>1, <2>2
<1>2. WithoutNode(s) \in StateNodes /\ WithoutNode(s).claim = s.claim
  <2>1. CASE s.claim = None
    BY <2>1, NewNodeTyped DEF WithoutNode, NewNode
  <2>2. CASE s.claim # None
    BY <2>2, NewNodeTyped, ZenonT(60) DEF WithoutNode, StateNodes
  <2> QED BY <2>1, <2>2
<1> QED BY <1>1, <1>2

Kept(e) == e \in Clusters /\ Exact(e)

LEMMA CleanupNodeClaimKeeps ==
    ASSUME Counting, NEW d \in Clusters, Exact(d), NEW nc \in NodeClaims, NEW e, e = cleanupNodeClaim(d, nc)
    PROVE  Kept(e) /\ SameNodes(d, e) /\ ClaimMoved(d, e, nc, None)
           /\ \A k \in Keys : k # d.claimPid[nc] => e.nodes[k] = d.nodes[k]
<1> DEFINE id == d.claimPid[nc]
           t == SetNode(d, id, WithoutClaim(d.nodes[id]))
           x == IF id \in PIDs THEN MarkUnconsolidated(t) ELSE d
<1>1. e = [x EXCEPT !.claimPid[nc] = None, !.nps = Cleanup(@, nc)]
  BY DEF cleanupNodeClaim
<1>2. PIDs \subseteq Keys /\ d.nodes \in [Keys -> StateNodes] /\ None \notin PIDs
  BY ClusterFields, ClusterStateAssumption, ZenonT(60) DEF Keys
<1>3. ASSUME id \in PIDs
      PROVE  Kept(t) /\ Maps(d, t) /\ t.nodes = [d.nodes EXCEPT ![id] = WithoutClaim(d.nodes[id])]
  <2>1. WithoutClaim(d.nodes[id]) \in StateNodes
    BY <1>2, <1>3, WithoutTyped
  <2> DEFINE w == WithoutClaim(d.nodes[id])
  <2> HIDE DEF w
  <2>2. t = SetNode(d, id, w) /\ w \in StateNodes /\ id \in Keys
    BY <1>2, <1>3, <2>1 DEF w
  <2> HIDE DEF t
  <2>3. t \in Clusters /\ Exact(t) /\ Maps(d, t) /\ t.nodes = [d.nodes EXCEPT ![id] = w]
    BY <2>2, SetNodeExact
  <2> QED BY <2>3 DEF Kept, w
<1>4. Kept(x) /\ Maps(d, x)
  <2> HIDE DEF t
  <2> QED BY <1>3, Consolidated, SMTT(60) DEF Kept, Maps
<1>5. x.nodes = IF id \in PIDs THEN [d.nodes EXCEPT ![id] = WithoutClaim(d.nodes[id])] ELSE d.nodes
  <2> HIDE DEF t
  <2> QED BY <1>3, Consolidated, SMTT(60) DEF Kept
<1> HIDE DEF x
<1>6. Cleanup(x.nps, nc) \in NodePoolStates
  BY <1>4, ClusterFields, PoolCleanup, SMTT(60) DEF Kept
<1> DEFINE s == Cleanup(x.nps, nc)
<1>7. e = [x EXCEPT !.claimPid[nc] = None, !.nps = s]
  BY <1>1 DEF Kept, Clusters
<1>8. e \in Clusters /\ e.nodes = x.nodes /\ e.count = x.count /\ e.cpu = x.cpu /\ e.nodePid = x.nodePid
      /\ e.claimPid = [x.claimPid EXCEPT ![nc] = None]
  <2>1. s \in NodePoolStates /\ x \in Clusters
    BY <1>4, <1>6, SMTT(60) DEF Kept
  <2> DEFINE q == [x.claimPid EXCEPT ![nc] = None]
  <2>2. q \in [NodeClaims -> PIDs \cup {Empty, None}]
    BY <2>1, ClusterFields
  <2>3. e = [x EXCEPT !.claimPid = q, !.nps = s]
    BY <1>7, <2>1, SMTT(60) DEF Clusters
  <2> HIDE DEF s, q
  <2>4. e \in Clusters /\ e.nodes = x.nodes /\ e.count = x.count /\ e.cpu = x.cpu /\ e.nodePid = x.nodePid
        /\ e.claimPid = q
    BY <2>1, <2>2, <2>3, ZenonT(60) DEF Clusters
  <2> QED BY <2>4 DEF q
<1>9. Exact(e)
  BY <1>4, <1>8 DEF Exact, Kept
<1>10. \A k \in Keys : e.nodes[k].node = d.nodes[k].node /\ (k # id => e.nodes[k] = d.nodes[k])
  BY <1>2, <1>5, <1>8, WithoutTyped
<1> QED BY <1>2, <1>4, <1>8, <1>9, <1>10 DEF Kept, SameNodes, ClaimMoved, Maps

LEMMA CleanupNodeKeeps ==
    ASSUME Counting, NEW d \in Clusters, Exact(d), NEW n \in Nodes, NEW e, e = cleanupNode(d, n)
    PROVE  Kept(e) /\ SameClaims(d, e) /\ NodeMoved(d, e, n, None)
           /\ \A k \in Keys : k # d.nodePid[n] => e.nodes[k] = d.nodes[k]
<1> DEFINE id == d.nodePid[n]
           t == SetNode(d, id, WithoutNode(d.nodes[id]))
           x == MarkUnconsolidated(t)
<1>1. CASE id = None
  <2>1. e = d
    BY <1>1, SMTT(60) DEF cleanupNode
  <2> QED BY <1>1, <2>1, ClusterFields, SMTT(60) DEF Kept, SameClaims, NodeMoved
<1>2. CASE id # None
  <2>1. e = [x EXCEPT !.nodePid[n] = None] /\ id \in Keys
    BY <1>2, ClusterFields, SMTT(60) DEF cleanupNode
  <2>2. d.nodes \in [Keys -> StateNodes]
    BY ClusterFields
  <2>3. Kept(t) /\ Maps(d, t) /\ t.nodes = [d.nodes EXCEPT ![id] = WithoutNode(d.nodes[id])]
    <3>1. WithoutNode(d.nodes[id]) \in StateNodes
      BY <2>1, <2>2, WithoutTyped, SMTT(60)
    <3> DEFINE w == WithoutNode(d.nodes[id])
    <3> HIDE DEF w
    <3>2. t = SetNode(d, id, w) /\ w \in StateNodes
      BY <3>1, SMTT(60) DEF w
    <3> HIDE DEF t
    <3>3. t \in Clusters /\ Exact(t) /\ Maps(d, t) /\ t.nodes = [d.nodes EXCEPT ![id] = w]
      BY <2>1, <3>2, SetNodeExact, SMTT(60)
    <3> QED BY <3>3, SMTT(60) DEF Kept, w
  <2> HIDE DEF t
  <2>4. Kept(x) /\ Maps(d, x) /\ x.nodes = [d.nodes EXCEPT ![id] = WithoutNode(d.nodes[id])]
    BY <2>3, Consolidated, ZenonT(60) DEF Kept, Maps
  <2> HIDE DEF x
  <2>5. e \in Clusters /\ e.nodes = x.nodes /\ e.count = x.count /\ e.cpu = x.cpu /\ e.claimPid = x.claimPid
        /\ e.nodePid = [x.nodePid EXCEPT ![n] = None]
    BY <2>1, <2>4, SMTT(60) DEF Kept, Clusters
  <2>6. Exact(e)
    BY <2>4, <2>5 DEF Exact, Kept
  <2>7. \A k \in Keys : e.nodes[k].claim = d.nodes[k].claim /\ (k # id => e.nodes[k] = d.nodes[k])
    BY <2>1, <2>2, <2>4, <2>5, WithoutTyped, SMTT(60)
  <2> QED BY <2>4, <2>5, <2>6, <2>7, SMTT(60) DEF Kept, SameClaims, NodeMoved, Maps
<1> QED BY <1>1, <1>2

LEMMA NewStateFromNodeClaimKeeps ==
    ASSUME Counting, NEW d \in Clusters, Exact(d), NEW nc \in NodeClaims, NEW o \in ClaimObj, o.pid \in PIDs,
           NEW e, e = newStateFromNodeClaim(d, nc, o)
    PROVE  /\ Kept(e) /\ SameNodes(d, e) /\ e.nodes[o.pid].claim = nc
           /\ \A other \in NodeClaims : other # nc => e.claimPid[other] = d.claimPid[other]
           /\ \A k \in Keys : k # o.pid /\ k # d.claimPid[nc] => e.nodes[k].claim = d.nodes[k].claim
<1> DEFINE old == d.nodes[o.pid]
           new == [old EXCEPT !.claim = nc, !.claimDeleting = o.deleting, !.costs = {}]
           x == IF d.claimPid[nc] \notin {None, o.pid} THEN cleanupNodeClaim(d, nc) ELSE d
           y == Put(x, o.pid, old, new)
<1>1. o.pid \in Keys /\ d.nodes \in [Keys -> StateNodes] /\ d.claimPid \in [NodeClaims -> PIDs \cup {Empty, None}]
  BY ClusterFields, Zenon DEF Keys
<1>2. new \in StateNodes /\ new.claim = nc /\ new.node = old.node
  <2>1. old \in StateNodes /\ o.deleting \in BOOLEAN
    BY <1>1, SMTT(60) DEF ClaimObj
  <2> HIDE DEF old
  <2> QED BY <2>1, ZenonT(60) DEF StateNodes
<1>3. /\ Kept(x) /\ SameNodes(d, x)
      /\ \A other \in NodeClaims : other # nc => x.claimPid[other] = d.claimPid[other]
      /\ \A k \in Keys : k # d.claimPid[nc] => x.nodes[k].claim = d.nodes[k].claim
      /\ x.nodes[o.pid] = old
  <2>1. CASE d.claimPid[nc] \notin {None, o.pid}
    <3>1. x = cleanupNodeClaim(d, nc)
      BY <2>1, SMTT(60)
    <3> HIDE DEF x
    <3>2. Kept(x) /\ SameNodes(d, x) /\ ClaimMoved(d, x, nc, None)
          /\ \A k \in Keys : k # d.claimPid[nc] => x.nodes[k] = d.nodes[k]
      BY <3>1, CleanupNodeClaimKeeps, SMTT(60)
    <3> QED BY <1>1, <2>1, <3>2, SMTT(60) DEF ClaimMoved
  <2>2. CASE d.claimPid[nc] \in {None, o.pid}
    BY <1>1, <2>2, SMTT(60) DEF Kept, SameNodes
  <2> QED BY <2>1, <2>2, SMTT(60)
<1> HIDE DEF x, new, old
<1>4. Kept(y) /\ Maps(x, y) /\ y.nodes = [x.nodes EXCEPT ![o.pid] = new]
  <2>1. x \in Clusters /\ Exact(x)
    BY <1>3, SMTT(60) DEF Kept
  <2>2. y \in Clusters /\ Exact(y) /\ Maps(x, y) /\ y.nodes = [x.nodes EXCEPT ![o.pid] = new]
    BY <1>1, <1>2, <1>3, <2>1, PutNode, SMTT(60)
  <2> QED BY <2>2 DEF Kept
<1>5. e = triggerConsolidationOnChange(y, old, new)
  BY DEF newStateFromNodeClaim, old, new, x, Put
<1> HIDE DEF y
<1>6. Kept(e) /\ Maps(y, e) /\ e.nodes = y.nodes
  BY <1>4, <1>5, Consolidated, SMTT(60) DEF Kept
<1>7. x.nodes \in [Keys -> StateNodes]
  BY <1>3, ClusterFields DEF Kept
<1>8. e.nodes = [x.nodes EXCEPT ![o.pid] = new] /\ e.nodePid = x.nodePid /\ e.claimPid = x.claimPid
  BY <1>4, <1>6, SMTT(60) DEF Maps
<1>9. \A k \in Keys : e.nodes[k].node = d.nodes[k].node
  BY <1>1, <1>2, <1>3, <1>7, <1>8, SMTT(60) DEF SameNodes, old
<1> QED BY <1>1, <1>2, <1>3, <1>6, <1>7, <1>8, <1>9, SMTT(60) DEF SameNodes

LEMMA UpdateNodeClaimKeeps ==
    ASSUME Counting, NEW d \in Clusters, Exact(d), NEW nc \in NodeClaims, NEW o \in ClaimObj,
           NEW e, e = UpdateNodeClaimOp(d, nc, o)
    PROVE  Kept(e) /\ SameNodes(d, e) /\ ClaimMoved(d, e, nc, o.pid)
<1> DEFINE x == IF o.pid = Empty THEN d ELSE newStateFromNodeClaim(d, nc, o)
           b == o.pid # Empty /\ MarkedForDeletion(x.nodes[o.pid])
           s == UpdateNodeClaim(x.nps, Pool, nc, b)
           q == [x.claimPid EXCEPT ![nc] = o.pid]
<1>1. o.pid \in PIDs \cup {Empty} /\ Empty \notin PIDs
  BY ClusterStateAssumption, SMTT(60) DEF ClaimObj
<1>2. /\ Kept(x) /\ SameNodes(d, x) /\ (o.pid \in PIDs => x.nodes[o.pid].claim = nc)
      /\ \A other \in NodeClaims : other # nc => x.claimPid[other] = d.claimPid[other]
      /\ \A k \in Keys : k # o.pid /\ k # d.claimPid[nc] => x.nodes[k].claim = d.nodes[k].claim
  <2>1. CASE o.pid = Empty
    BY <1>1, <2>1, SMTT(60) DEF Kept, SameNodes
  <2>2. CASE o.pid # Empty
    <3>1. x = newStateFromNodeClaim(d, nc, o) /\ o.pid \in PIDs
      BY <1>1, <2>2
    <3> HIDE DEF x
    <3> QED BY <3>1, NewStateFromNodeClaimKeeps
  <2> QED BY <2>1, <2>2
<1>3. e = [x EXCEPT !.nps = UpdateNodeClaim(@, Pool, nc, b), !.claimPid[nc] = o.pid]
  BY DEF UpdateNodeClaimOp
<1> HIDE DEF x, b
<1>4. x \in Clusters /\ x.claimPid \in [NodeClaims -> PIDs \cup {Empty, None}] /\ x.nps \in NodePoolStates
  BY <1>2, ClusterFields, SMTT(60) DEF Kept
<1>5. s \in NodePoolStates /\ q \in [NodeClaims -> PIDs \cup {Empty, None}]
  BY <1>1, <1>4, PoolUpdate, ClusterStateAssumption
<1>6. e = [x EXCEPT !.nps = s, !.claimPid = q]
  BY <1>3, <1>4 DEF Clusters
<1> HIDE DEF s, q
<1>7. e \in Clusters /\ e.nodes = x.nodes /\ e.count = x.count /\ e.cpu = x.cpu /\ e.nodePid = x.nodePid
      /\ e.claimPid = q
  BY <1>4, <1>5, <1>6, Zenon DEF Clusters
<1>8. Exact(e)
  BY <1>2, <1>7, SMTT(60) DEF Exact, Kept
<1>9. e.claimPid = [d.claimPid EXCEPT ![nc] = o.pid]
  <2>1. d.claimPid \in [NodeClaims -> PIDs \cup {Empty, None}]
    BY ClusterFields
  <2> QED BY <1>2, <1>4, <1>7, <2>1, SMTT(60) DEF q
<1> QED BY <1>2, <1>7, <1>8, <1>9 DEF Kept, SameNodes, ClaimMoved

(* Operations on pods change no more of a StateNode than its pods. *)
PodsOnly(s, t) == /\ t.claim = s.claim /\ t.claimDeleting = s.claimDeleting /\ t.node = s.node
                  /\ t.obj = s.obj /\ t.marked = s.marked

LEMMA PodsOnlyCounts ==
    ASSUME NEW s, NEW t, PodsOnly(s, t)
    PROVE  /\ Counted(s) <=> Counted(t)
           /\ FromClaim(s) <=> FromClaim(t)
           /\ FromNode(s) <=> FromNode(t)
           /\ Capacity(s) = Capacity(t)
<1>1. /\ Tracks(s) <=> Tracks(t)
      /\ Registered(s) <=> Registered(t)
      /\ Initialized(s) <=> Initialized(t)
      /\ MarkedForDeletion(s) <=> MarkedForDeletion(t)
      /\ Managed(s) <=> Managed(t)
  BY DEF PodsOnly, Tracks, Registered, Initialized, MarkedForDeletion, Deleted, Managed
<1>2. s.node = t.node /\ s.obj = t.obj
  BY DEF PodsOnly
<1> QED BY <1>1, <1>2 DEF Counted, InPool, FromClaim, FromNode, Capacity

LEMMA PodsOnlyExact ==
    ASSUME NEW d, Exact(d), NEW e, e.count = d.count, e.cpu = d.cpu,
           \A k \in Keys : PodsOnly(d.nodes[k], e.nodes[k])
    PROVE  Exact(e)
<1>1. CountedKeys(e.nodes) = CountedKeys(d.nodes)
  BY PodsOnlyCounts DEF CountedKeys
<1>2. ClaimKeys(e.nodes) = ClaimKeys(d.nodes)
  BY PodsOnlyCounts DEF ClaimKeys
<1>3. NodeKeys(e.nodes) = NodeKeys(d.nodes)
  BY PodsOnlyCounts DEF NodeKeys
<1> QED BY <1>1, <1>2, <1>3, SMTT(60) DEF Exact, CpuOf

PodsMoved(d, e) == Kept(e) /\ Maps(d, e) /\ \A k \in Keys : PodsOnly(d.nodes[k], e.nodes[k])

LEMMA PodsMovedSame ==
    ASSUME NEW d, NEW e, PodsMoved(d, e)
    PROVE  Kept(e) /\ SameNodes(d, e) /\ SameClaims(d, e)
BY DEF PodsMoved, SameNodes, SameClaims, PodsOnly, Maps

LEMMA BindKeeps ==
    ASSUME NEW d \in Clusters, Exact(d), NEW P \in SUBSET Pods, NEW n \in Nodes, NEW e, e = Bind(d, P, n)
    PROVE  PodsMoved(d, e)
<1> DEFINE moved(k) == {p \in P : d.bindings[p] \notin {None, n} /\ d.nodePid[d.bindings[p]] = k}
           f == [k \in Keys |-> [d.nodes[k] EXCEPT !.pods = @ \ moved(k), !.costs = @ \ moved(k)]]
           q == [p \in Pods |-> IF p \in P THEN n ELSE d.bindings[p]]
           b == d.consolidated /\ \A p \in P : d.bindings[p] = n
<1>1. e = [d EXCEPT !.nodes = f, !.bindings = q, !.consolidated = b]
  BY DEF Bind, Clusters
<1>2. ASSUME NEW k \in Keys PROVE f[k] \in StateNodes /\ PodsOnly(d.nodes[k], f[k])
  <2> DEFINE s == d.nodes[k]
             A == s.pods \ moved(k)
             B == s.costs \ moved(k)
  <2>1. s \in StateNodes
    BY ClusterFields
  <2>2. A \in SUBSET Pods /\ B \in SUBSET Pods
    BY <2>1 DEF StateNodes
  <2>3. f[k] = [s EXCEPT !.pods = A, !.costs = B]
    BY <2>1 DEF StateNodes
  <2> HIDE DEF s, A, B, f
  <2>4. f[k] \in StateNodes /\ PodsOnly(s, f[k])
    BY <2>1, <2>2, <2>3, Zenon DEF StateNodes, PodsOnly
  <2> QED BY <2>4 DEF s
<1>3. f = [k \in Keys |-> f[k]]
  OBVIOUS
<1>4. q \in [Pods -> Nodes \cup {None}] /\ b \in BOOLEAN
  BY ClusterFields
<1> HIDE DEF f, q, b
<1>5. f \in [Keys -> StateNodes]
  BY <1>2, <1>3
<1>6. e \in Clusters /\ Maps(d, e) /\ e.nodes = f /\ e.count = d.count /\ e.cpu = d.cpu
  BY <1>1, <1>4, <1>5, Zenon DEF Clusters, Maps
<1>7. Exact(e)
  BY <1>2, <1>6, PodsOnlyExact, SMTT(60)
<1> QED BY <1>2, <1>6, <1>7 DEF PodsMoved, Kept

LEMMA PodsMovedTwice ==
    ASSUME NEW d, NEW e, NEW g, PodsMoved(d, e), PodsMoved(e, g)
    PROVE  PodsMoved(d, g)
BY DEF PodsMoved, Maps, PodsOnly

LEMMA PodsOfOne ==
    ASSUME NEW d \in Clusters, Exact(d), NEW k \in Keys, NEW A \in SUBSET Pods, NEW B \in SUBSET Pods,
           NEW e, e = [d EXCEPT !.nodes = [d.nodes EXCEPT ![k] = [d.nodes[k] EXCEPT !.pods = A, !.costs = B]]]
    PROVE  PodsMoved(d, e)
<1> DEFINE s == d.nodes[k]
           t == [s EXCEPT !.pods = A, !.costs = B]
           f == [d.nodes EXCEPT ![k] = t]
<1>1. s \in StateNodes /\ d.nodes \in [Keys -> StateNodes]
  BY ClusterFields
<1>2. t \in StateNodes /\ PodsOnly(s, t)
  <2> HIDE DEF s
  <2> QED BY <1>1, Zenon DEF StateNodes, PodsOnly
<1>3. \A j \in Keys : f[j] = IF j = k THEN t ELSE d.nodes[j]
  BY <1>1
<1>4. f \in [Keys -> StateNodes] /\ e = [d EXCEPT !.nodes = f]
  BY <1>1, <1>2
<1> HIDE DEF f, t
<1>5. \A j \in Keys : PodsOnly(d.nodes[j], f[j])
  BY <1>2, <1>3, SMTT(60) DEF PodsOnly
<1>6. e \in Clusters /\ Maps(d, e) /\ e.nodes = f /\ e.count = d.count /\ e.cpu = d.cpu
  BY <1>4 DEF Clusters, Maps
<1>7. Exact(e)
  BY <1>5, <1>6, PodsOnlyExact, Zenon
<1> QED BY <1>5, <1>6, <1>7, Zenon DEF PodsMoved, Kept

LEMMA ForgetPodKeeps ==
    ASSUME NEW d \in Clusters, Exact(d), NEW p \in Pods, NEW e, e = ForgetPod(d, p)
    PROVE  PodsMoved(d, e)
<1> DEFINE id == IF d.bindings[p] = None THEN None ELSE d.nodePid[d.bindings[p]]
           x == [d EXCEPT !.bindings[p] = None]
<1>1. d.bindings \in [Pods -> Nodes \cup {None}] /\ d.nodePid \in [Nodes -> Keys \cup {None}]
      /\ d.nodes \in [Keys -> StateNodes]
  BY ClusterFields
<1>2. PodsMoved(d, x) /\ x.nodes = d.nodes /\ x \in Clusters
  <2> DEFINE q == [d.bindings EXCEPT ![p] = None]
  <2>1. q \in [Pods -> Nodes \cup {None}] /\ x = [d EXCEPT !.bindings = q]
    BY <1>1 DEF Clusters
  <2> HIDE DEF q, x
  <2>2. x \in Clusters /\ Maps(d, x) /\ x.nodes = d.nodes /\ x.count = d.count /\ x.cpu = d.cpu
    BY <2>1, SMTT(60) DEF Clusters, Maps
  <2> QED BY <2>2 DEF Exact, PodsMoved, Kept, PodsOnly
<1>3. CASE id = None
  BY <1>2, <1>3, SMTT(60) DEF ForgetPod
<1>4. CASE id # None
  <2>1. id \in Keys
    BY <1>1, <1>4, SMTT(60)
  <2> DEFINE A == x.nodes[id].pods \ {p}
             B == x.nodes[id].costs \ {p}
  <2>2. e = [x EXCEPT !.nodes[id].pods = @ \ {p}, !.nodes[id].costs = @ \ {p}]
    BY <1>4, Zenon DEF ForgetPod
  <2> HIDE DEF x, id
  <2>3. x.nodes[id] \in StateNodes
    BY <1>1, <1>2, <2>1, SMTT(60)
  <2>4. A \in SUBSET Pods /\ B \in SUBSET Pods
    BY <2>3, SMTT(60) DEF StateNodes
  <2>5. e = [x EXCEPT !.nodes = [x.nodes EXCEPT ![id] = [x.nodes[id] EXCEPT !.pods = A, !.costs = B]]]
    BY <1>1, <1>2, <2>1, <2>2, <2>3, ZenonT(60) DEF StateNodes, Clusters
  <2> HIDE DEF A, B
  <2>6. PodsMoved(x, e)
    <3>1. x \in Clusters /\ Exact(x)
      BY <1>2, SMTT(60) DEF PodsMoved, Kept
    <3> QED BY <2>1, <2>4, <2>5, <3>1, PodsOfOne, Zenon
  <2> QED BY <1>2, <2>6, PodsMovedTwice, SMTT(60)
<1> QED BY <1>3, <1>4

LEMMA MovedUnconsolidated ==
    ASSUME NEW d, NEW e, PodsMoved(d, e)
    PROVE  PodsMoved(d, MarkUnconsolidated(e))
BY Consolidated, SMTT(60) DEF PodsMoved, Kept, Maps

LEMMA UpdatePodKeeps ==
    ASSUME NEW d \in Clusters, Exact(d), NEW p \in Pods, NEW o \in PodObj, o.exists,
           NEW e, e = UpdatePodOp(d, p, o)
    PROVE  PodsMoved(d, e)
<1> DEFINE id == d.nodePid[o.node]
           x == [d EXCEPT !.nodes[id].pods = @ \cup {p}, !.nodes[id].costs = @ \cup {p}]
           A == d.nodes[id].pods \cup {p}
           B == d.nodes[id].costs \cup {p}
<1>1. d.nodePid \in [Nodes -> Keys \cup {None}] /\ d.nodes \in [Keys -> StateNodes] /\ o.node \in Nodes \cup {None}
  BY ClusterFields DEF PodObj
<1>2. CASE o.terminal
  BY <1>2, ForgetPodKeeps, SMTT(60) DEF UpdatePodOp
<1>3. CASE ~o.terminal /\ (o.node = None \/ Unknown(d, o))
  BY <1>3, Zenon DEF UpdatePodOp, PodsMoved, Kept, Maps, PodsOnly
<1>4. CASE ~o.terminal /\ o.node # None /\ ~Unknown(d, o)
  <2>1. id \in Keys /\ o.node \in Nodes
    BY <1>1, <1>4, SMTT(60) DEF Unknown
  <2>2. e = Bind(x, {p}, o.node)
    BY <1>4, SMTT(60) DEF UpdatePodOp
  <2> HIDE DEF id
  <2>3. d.nodes[id] \in StateNodes
    BY <1>1, <2>1, SMTT(60)
  <2>4. A \in SUBSET Pods /\ B \in SUBSET Pods
    BY <2>3 DEF StateNodes
  <2>5. x = [d EXCEPT !.nodes = [d.nodes EXCEPT ![id] = [d.nodes[id] EXCEPT !.pods = A, !.costs = B]]]
    BY <1>1, <2>1, <2>3, ZenonT(60) DEF StateNodes, Clusters
  <2> HIDE DEF A, B, x
  <2>6. PodsMoved(d, x)
    BY <2>1, <2>4, <2>5, PodsOfOne, Zenon
  <2>7. PodsMoved(x, e)
    BY <2>1, <2>2, <2>6, BindKeeps, SMTT(60) DEF PodsMoved, Kept
  <2> QED BY <2>6, <2>7, PodsMovedTwice, SMTT(60)
<1> QED BY <1>2, <1>3, <1>4, SMTT(60)

LEMMA UpdateNodeKeeps ==
    ASSUME Counting, NEW d \in Clusters, Exact(d), NEW n \in Nodes, NEW o \in NodeObj, ~Ignored(o),
           NEW e, e = UpdateNodeOp(d, n, o)
    PROVE  Kept(e) /\ SameClaims(d, e) /\ NodeMoved(d, e, n, NodeKey(n, o)) /\ NodeKey(n, o) \in Keys
<1> DEFINE id == NodeKey(n, o)
           P == BoundTo(n)
           b == Bind(d, P, n)
           old == d.nodes[id]
           new == [old EXCEPT !.node = n, !.obj = o, !.pods = P, !.costs = P]
           x == IF b.nodePid[n] \notin {None, id} THEN cleanupNode(b, n) ELSE b
           y == Put(x, id, old, new)
           z == triggerConsolidationOnChange(y, old, new)
<1>1. id \in Keys /\ P \in SUBSET Pods
  BY SMTT(60) DEF NodeKey, Keys, NodeObj, BoundTo
<1>2. /\ d.nodes \in [Keys -> StateNodes] /\ d.nodePid \in [Nodes -> Keys \cup {None}]
      /\ None \notin Keys
  BY ClusterFields, ClusterStateAssumption, Zenon DEF Keys
<1>3. e = [z EXCEPT !.nodePid[n] = id]
  BY Zenon DEF UpdateNodeOp, Put
<1> HIDE DEF id, P
<1>4. PodsMoved(d, b)
  BY <1>1, BindKeeps
<1>5. new \in StateNodes /\ new.node = n /\ new.claim = old.claim
  <2>1. old \in StateNodes
    BY <1>1, <1>2, ZenonT(60)
  <2> HIDE DEF old
  <2> QED BY <1>1, <2>1, ZenonT(60) DEF StateNodes
<1>6. /\ Kept(x) /\ SameClaims(d, x)
      /\ \A m \in Nodes : m # n => x.nodePid[m] = d.nodePid[m]
      /\ \A k \in Keys : k # d.nodePid[n] => x.nodes[k].node = d.nodes[k].node
      /\ PodsOnly(old, x.nodes[id])
  <2> HIDE DEF b
  <2>1. Kept(b) /\ b.nodePid = d.nodePid /\ b.claimPid = d.claimPid
        /\ \A k \in Keys : PodsOnly(d.nodes[k], b.nodes[k])
    BY <1>4, SMTT(60) DEF PodsMoved, Maps
  <2>2. CASE b.nodePid[n] \notin {None, id}
    <3>1. x = cleanupNode(b, n)
      BY <2>2, SMTT(60)
    <3> HIDE DEF x
    <3>2. Kept(x) /\ SameClaims(b, x) /\ NodeMoved(b, x, n, None)
          /\ \A k \in Keys : k # b.nodePid[n] => x.nodes[k] = b.nodes[k]
      BY <2>1, <3>1, CleanupNodeKeeps, SMTT(60) DEF Kept
    <3>3. SameClaims(d, x)
      BY <2>1, <3>2, SMTT(60) DEF SameClaims, PodsOnly
    <3>4. \A m \in Nodes : m # n => x.nodePid[m] = d.nodePid[m]
      BY <1>2, <2>1, <3>2, SMTT(60) DEF NodeMoved
    <3>5. \A k \in Keys : k # d.nodePid[n] => x.nodes[k].node = d.nodes[k].node
      BY <2>1, <3>2, SMTT(60) DEF PodsOnly
    <3>6. PodsOnly(old, x.nodes[id])
      BY <1>1, <2>1, <2>2, <3>2, SMTT(60)
    <3> QED BY <3>2, <3>3, <3>4, <3>5, <3>6, SMTT(60)
  <2>3. CASE b.nodePid[n] \in {None, id}
    <3>1. x = b
      BY <2>3, SMTT(60)
    <3> QED BY <1>1, <2>1, <3>1 DEF SameClaims, PodsOnly
  <2> QED BY <2>2, <2>3
<1> HIDE DEF x, old, new
<1>7. Kept(y) /\ Maps(x, y) /\ y.nodes = [x.nodes EXCEPT ![id] = new]
  <2>1. (Counted(old) <=> Counted(x.nodes[id])) /\ Capacity(old) = Capacity(x.nodes[id])
    BY <1>6, PodsOnlyCounts, SMTT(60)
  <2>2. x \in Clusters /\ Exact(x)
    BY <1>6, SMTT(60) DEF Kept
  <2>3. y \in Clusters /\ Exact(y) /\ Maps(x, y) /\ y.nodes = [x.nodes EXCEPT ![id] = new]
    BY <1>1, <1>5, <2>1, <2>2, PutNode, SMTT(60)
  <2> QED BY <2>3, SMTT(60) DEF Kept
<1> HIDE DEF y
<1>8. Kept(z) /\ Maps(y, z) /\ z.nodes = y.nodes
  BY <1>7, Consolidated, SMTT(60) DEF Kept
<1> HIDE DEF z
<1>9. z \in Clusters /\ z.nodes = [x.nodes EXCEPT ![id] = new] /\ z.nodePid = x.nodePid /\ z.claimPid = x.claimPid
  BY <1>7, <1>8 DEF Maps, Kept
<1> DEFINE q == [z.nodePid EXCEPT ![n] = id]
<1>10. q \in [Nodes -> Keys \cup {None}] /\ e = [z EXCEPT !.nodePid = q]
  BY <1>1, <1>3, <1>9, ClusterFields, SMTT(60) DEF Clusters
<1>11. x.nodePid \in [Nodes -> Keys \cup {None}] /\ x.nodes \in [Keys -> StateNodes]
  BY <1>6, ClusterFields, SMTT(60) DEF Kept
<1>12. q = [d.nodePid EXCEPT ![n] = id]
  BY <1>2, <1>6, <1>9, <1>11
<1> HIDE DEF q
<1>13. e \in Clusters /\ e.nodes = z.nodes /\ e.count = z.count /\ e.cpu = z.cpu /\ e.claimPid = z.claimPid
       /\ e.nodePid = q
  BY <1>9, <1>10, SMTT(60) DEF Clusters
<1>14. Exact(e)
  BY <1>8, <1>13, SMTT(60) DEF Exact, Kept
<1>15. \A k \in Keys : e.nodes[k] = IF k = id THEN new ELSE x.nodes[k]
  BY <1>9, <1>11, <1>13, SMTT(60)
<1>16. SameClaims(d, e)
  <2>1. \A k \in Keys : k # id => e.nodes[k].claim = d.nodes[k].claim
    BY <1>6, <1>15, SMTT(60) DEF SameClaims
  <2>2. e.nodes[id].claim = d.nodes[id].claim
    BY <1>1, <1>5, <1>15, SMTT(60) DEF old
  <2> QED BY <1>6, <1>9, <1>13, <2>1, <2>2, SMTT(60) DEF SameClaims
<1>17. NodeMoved(d, e, n, id)
  BY <1>1, <1>5, <1>6, <1>12, <1>13, <1>15, SMTT(60) DEF NodeMoved
<1> QED BY <1>1, <1>13, <1>14, <1>16, <1>17, SMTT(60) DEF Kept, id

LEMMA MarkKeeps ==
    ASSUME Counting, NEW d \in Clusters, Exact(d), NEW k \in Keys, NEW e, e \in {MarkOp(d, k), UnmarkOp(d, k)}
    PROVE  Kept(e) /\ SameNodes(d, e) /\ SameClaims(d, e)
<1>1. PICK b \in BOOLEAN : LET s == [d.nodes[k] EXCEPT !.marked = b]
                               x == SetNode(d, k, s)
                           IN  \/ e = x
                               \/ /\ s.claim # None
                                  /\ \E f \in {MarkNodeClaimDeleting(x.nps, Pool, s.claim),
                                               MarkNodeClaimActive(x.nps, Pool, s.claim)} :
                                        e = [x EXCEPT !.nps = f]
  <2>1. CASE e = MarkOp(d, k)
    BY <2>1, Zenon DEF MarkOp
  <2>2. CASE e = UnmarkOp(d, k)
    BY <2>2, ZenonT(60) DEF UnmarkOp
  <2> QED BY <2>1, <2>2, SMTT(60)
<1> DEFINE s == [d.nodes[k] EXCEPT !.marked = b]
           x == SetNode(d, k, s)
<1>2. d.nodes \in [Keys -> StateNodes] /\ d.nodes[k] \in StateNodes
  BY ClusterFields
<1>3. s \in StateNodes /\ s.node = d.nodes[k].node /\ s.claim = d.nodes[k].claim /\ s.claim \in NodeClaims \cup {None}
  BY <1>2, SMTT(60) DEF StateNodes
<1> HIDE DEF s
<1>4. Kept(x) /\ Maps(d, x) /\ x.nodes = [d.nodes EXCEPT ![k] = s]
  BY <1>3, SetNodeExact, SMTT(60) DEF Kept
<1> HIDE DEF x
<1>5. SameNodes(d, x) /\ SameClaims(d, x)
  BY <1>2, <1>3, <1>4, SMTT(60) DEF SameNodes, SameClaims, Maps
<1>6. CASE e = x
  BY <1>4, <1>5, <1>6, SMTT(60)
<1>7. ASSUME s.claim # None, NEW f \in {MarkNodeClaimDeleting(x.nps, Pool, s.claim), MarkNodeClaimActive(x.nps, Pool, s.claim)},
             e = [x EXCEPT !.nps = f]
      PROVE  Kept(e) /\ SameNodes(d, e) /\ SameClaims(d, e)
  <2>1. x \in Clusters /\ x.nps \in NodePoolStates
    BY <1>4, ClusterFields DEF Kept
  <2>2. f \in NodePoolStates
    BY <1>3, <1>7, <2>1, PoolMarks, ClusterStateAssumption, SMTT(60)
  <2>3. e \in Clusters /\ e.nodes = x.nodes /\ e.count = x.count /\ e.cpu = x.cpu /\ Maps(x, e)
    BY <1>7, <2>1, <2>2, SMTT(60) DEF Clusters, Maps
  <2> QED BY <1>4, <1>5, <2>3, SMTT(60) DEF Kept, Exact, Maps, SameNodes, SameClaims
<1> QED BY <1>1, <1>6, <1>7, SMTT(60) DEF s, x

-----------------------------------------------------------------------------
(* The inductive invariant.  A provider ID is given once and to one object,  *)
(* so what a reconcile has read, and what the Cluster maps a name to, is     *)
(* either the ID the object has or what it had before.                       *)

PidsUnique ==
    /\ \A a, b \in NodeClaims : claims[a].pid = claims[b].pid /\ claims[a].pid # Empty => a = b
    /\ \A a, b \in Nodes : nodes[a].pid = nodes[b].pid /\ nodes[a].pid # Empty => a = b

ReadsPast ==
    /\ \A nc \in NodeClaims : reading[nc] # None => reading[nc].pid \in {Empty, claims[nc].pid}
    /\ \A n \in Nodes : reading[n] # None => reading[n].pid \in {Empty, nodes[n].pid}

MapsPast ==
    /\ \A nc \in NodeClaims : c.claimPid[nc] \in {None, Empty, claims[nc].pid}
    /\ \A n \in Nodes : c.nodePid[n] \in {None, n, nodes[n].pid}

ClusterInv == TypeOK /\ PidsUnique /\ ReadsPast /\ MapsPast /\ MappingsResolve /\ Exact(c)

LEMMA Resolve == MappingsResolve <=> ClaimsResolve(c) /\ NodesResolve(c)
BY DEF MappingsResolve, ClaimsResolve, NodesResolve

LEMMA Kinds ==
    /\ NodeClaims \cap Nodes = {} /\ NodeClaims \cap Pods = {} /\ Nodes \cap Pods = {}
    /\ None \notin PIDs /\ None \notin Keys /\ Empty \notin PIDs /\ Empty \notin Keys /\ Empty # None
    /\ PIDs \subseteq Keys /\ Nodes \subseteq Keys /\ PIDs \cap Nodes = {}
BY ClusterStateAssumption DEF Keys

(* The Cluster is left alone, and no object loses its provider ID. *)
LEMMA WorldStep ==
    ASSUME ClusterInv, UNCHANGED <<reading, c>>,
           claims' \in [NodeClaims -> ClaimObj], nodes' \in [Nodes -> NodeObj], pods' \in [Pods -> PodObj],
           PidsUnique',
           \A nc \in NodeClaims : claims[nc].pid \in {Empty, claims'[nc].pid},
           \A n \in Nodes : nodes[n].pid \in {Empty, nodes'[n].pid}
    PROVE  ClusterInv'
<1>1. TypeOK'
  BY SMTT(60) DEF ClusterInv, TypeOK
<1>2. ReadsPast'
  BY DEF ClusterInv, ReadsPast
<1>3. MapsPast'
  <2>1. \A n \in Nodes : c.nodePid[n] # Empty
    BY Kinds, ClusterFields, SMTT(60) DEF ClusterInv, TypeOK
  <2> QED BY <2>1, SMTT(60) DEF ClusterInv, MapsPast
<1>4. MappingsResolve' /\ Exact(c)'
  BY DEF ClusterInv, MappingsResolve, Exact
<1> QED BY <1>1, <1>2, <1>3, <1>4, SMTT(60) DEF ClusterInv

(* The same for a change of one claim, one Node or one pod. *)
LEMMA ClaimObjects ==
    ASSUME ClusterInv, UNCHANGED <<nodes, pods, reading, c>>, NEW nc \in NodeClaims, NEW o \in ClaimObj,
           claims' = [claims EXCEPT ![nc] = o],
           \/ o.pid = claims[nc].pid
           \/ claims[nc].pid = Empty /\ \A other \in NodeClaims : claims[other].pid # o.pid
    PROVE  ClusterInv'
<1>1. claims \in [NodeClaims -> ClaimObj] /\ nodes \in [Nodes -> NodeObj] /\ pods \in [Pods -> PodObj] /\ PidsUnique
  BY DEF ClusterInv, TypeOK
<1>2. claims' \in [NodeClaims -> ClaimObj]
  BY <1>1, SMTT(60)
<1>3. PidsUnique'
  BY <1>1 DEF PidsUnique
<1>4. \A x \in NodeClaims : claims[x].pid \in {Empty, claims'[x].pid}
  BY <1>1, SMTT(60)
<1> QED BY <1>1, <1>2, <1>3, <1>4, WorldStep, SMTT(60)

LEMMA NodeObjects ==
    ASSUME ClusterInv, UNCHANGED <<claims, pods, reading, c>>, NEW n \in Nodes, NEW o \in NodeObj,
           nodes' = [nodes EXCEPT ![n] = o],
           \/ o.pid = nodes[n].pid
           \/ nodes[n].pid = Empty /\ \A other \in Nodes : nodes[other].pid # o.pid
    PROVE  ClusterInv'
<1>1. claims \in [NodeClaims -> ClaimObj] /\ nodes \in [Nodes -> NodeObj] /\ pods \in [Pods -> PodObj] /\ PidsUnique
  BY DEF ClusterInv, TypeOK
<1>2. nodes' \in [Nodes -> NodeObj]
  BY <1>1, SMTT(60)
<1>3. PidsUnique'
  BY <1>1 DEF PidsUnique
<1>4. \A x \in Nodes : nodes[x].pid \in {Empty, nodes'[x].pid}
  BY <1>1, SMTT(60)
<1> QED BY <1>1, <1>2, <1>3, <1>4, WorldStep, SMTT(60)

LEMMA PodObjects ==
    ASSUME ClusterInv, UNCHANGED <<claims, nodes, reading, c>>, NEW p \in Pods, NEW o \in PodObj,
           pods' = [pods EXCEPT ![p] = o]
    PROVE  ClusterInv'
<1>1. claims \in [NodeClaims -> ClaimObj] /\ nodes \in [Nodes -> NodeObj] /\ pods \in [Pods -> PodObj] /\ PidsUnique
  BY SMTT(60) DEF ClusterInv, TypeOK
<1> QED BY <1>1, WorldStep DEF PidsUnique

(* A reconcile reads an object. *)
LEMMA ReadStep ==
    ASSUME ClusterInv, NEW k, Read(k, IF k \in NodeClaims THEN claims[k] ELSE IF k \in Nodes THEN nodes[k] ELSE pods[k]),
           k \in NodeClaims \cup Nodes \cup Pods
    PROVE  ClusterInv'
<1> DEFINE o == IF k \in NodeClaims THEN claims[k] ELSE IF k \in Nodes THEN nodes[k] ELSE pods[k]
<1>1. UNCHANGED <<claims, nodes, pods, c>> /\ reading' = [reading EXCEPT ![k] = o]
  BY DEF Read
<1>2. TypeOK /\ PidsUnique /\ ReadsPast /\ MapsPast /\ MappingsResolve /\ Exact(c)
  BY SMTT(60) DEF ClusterInv
<1>3. TypeOK'
  BY <1>1, <1>2, Kinds, SMTT(60) DEF TypeOK
<1>4. ReadsPast'
  BY <1>1, <1>2, Kinds, ZenonT(60) DEF TypeOK, ReadsPast
<1>5. PidsUnique' /\ MapsPast' /\ MappingsResolve' /\ Exact(c)'
  BY <1>1, <1>2 DEF PidsUnique, MapsPast, MappingsResolve, Exact
<1> QED BY <1>3, <1>4, <1>5, SMTT(60) DEF ClusterInv

(* The Cluster changes, and at most one reconcile ends. *)
ReadsEnd == /\ DOMAIN reading' = DOMAIN reading
            /\ \A x \in NodeClaims \cup Nodes \cup Pods : reading'[x] \in {reading[x], None}

LEMMA ReadEnds ==
    ASSUME TypeOK, NEW k, Done(k) \/ UNCHANGED reading
    PROVE  ReadsEnd
BY DEF TypeOK, Done, ReadsEnd

LEMMA ClusterStep ==
    ASSUME ClusterInv, UNCHANGED <<claims, nodes, pods>>, ReadsEnd,
           Kept(c'), ClaimsResolve(c'), NodesResolve(c'), MapsPast'
    PROVE  ClusterInv'
<1>1. TypeOK /\ PidsUnique /\ ReadsPast
  BY DEF ClusterInv
<1>2. TypeOK'
  BY <1>1, SMTT(60) DEF TypeOK, ReadsEnd, Kept
<1>3. ReadsPast'
  BY <1>1, SMTT(60) DEF ReadsPast, ReadsEnd
<1>4. PidsUnique' /\ Exact(c)'
  BY <1>1, SMTT(60) DEF PidsUnique, Kept, Exact
<1>5. MappingsResolve'
  BY DEF MappingsResolve, ClaimsResolve, NodesResolve
<1> QED BY <1>2, <1>3, <1>4, <1>5 DEF ClusterInv

LEMMA SameStep ==
    ASSUME ClusterInv, UNCHANGED <<claims, nodes, pods>>, ReadsEnd,
           Kept(c'), SameNodes(c, c'), SameClaims(c, c')
    PROVE  ClusterInv'
<1>1. c \in Clusters /\ MapsPast /\ ClaimsResolve(c) /\ NodesResolve(c)
  BY Resolve DEF ClusterInv, TypeOK
<1>2. ClaimsResolve(c') /\ NodesResolve(c')
  BY <1>1, SameResolves, SMTT(60)
<1>3. MapsPast'
  BY <1>1 DEF MapsPast, SameNodes, SameClaims
<1> QED BY <1>2, <1>3, ClusterStep, SMTT(60)

(* A claim moves to nothing, or to the provider ID it has. *)
LEMMA ClaimStepKeeps ==
    ASSUME ClusterInv, UNCHANGED <<claims, nodes, pods>>, ReadsEnd, NEW nc \in NodeClaims,
           NEW to \in {None, Empty, claims[nc].pid},
           Kept(c'), SameNodes(c, c'), ClaimMoved(c, c', nc, to)
    PROVE  ClusterInv'
<1>1. c \in Clusters /\ MapsPast /\ PidsUnique /\ ClaimsResolve(c) /\ NodesResolve(c)
  BY Resolve, SMTT(60) DEF ClusterInv, TypeOK
<1>2. c.claimPid \in [NodeClaims -> PIDs \cup {Empty, None}]
  BY <1>1, ClusterFields, SMTT(60)
<1>3. \A other \in NodeClaims \ {nc} : c.claimPid[other] \in PIDs => c.claimPid[other] # to
  <2> SUFFICES ASSUME NEW x \in NodeClaims \ {nc}, c.claimPid[x] \in PIDs, c.claimPid[x] = to
               PROVE  FALSE
    BY SMTT(60)
  <2>1. to = claims[x].pid /\ to = claims[nc].pid /\ to # Empty
    <3>1. to # None /\ to # Empty
      BY Kinds, SMTT(60)
    <3> QED BY <1>1, <3>1, SMTT(60) DEF MapsPast
  <2> QED BY <1>1, <2>1, ZenonT(60) DEF PidsUnique
<1>4. ClaimsResolve(c')
  BY <1>1, <1>3, ClaimMovedResolves, SMTT(60)
<1>5. NodesResolve(c')
  BY <1>1, SameResolves, SMTT(60)
<1>6. MapsPast'
  BY <1>1, <1>2, SMTT(60) DEF MapsPast, SameNodes, ClaimMoved
<1> QED BY <1>4, <1>5, <1>6, ClusterStep, SMTT(60)

(* A Node moves to nothing, to its name or to the provider ID it has. *)
LEMMA NodeStepKeeps ==
    ASSUME ClusterInv, UNCHANGED <<claims, nodes, pods>>, ReadsEnd, NEW n \in Nodes,
           NEW to \in {None, n, nodes[n].pid}, to # Empty,
           Kept(c'), SameClaims(c, c'), NodeMoved(c, c', n, to)
    PROVE  ClusterInv'
<1>1. c \in Clusters /\ MapsPast /\ PidsUnique /\ ClaimsResolve(c) /\ NodesResolve(c) /\ nodes \in [Nodes -> NodeObj]
  BY Resolve, SMTT(60) DEF ClusterInv, TypeOK
<1>2. c.nodePid \in [Nodes -> Keys \cup {None}]
  BY <1>1, ClusterFields, SMTT(60)
<1>3. \A other \in Nodes \ {n} : c.nodePid[other] # None => c.nodePid[other] # to
  <2> SUFFICES ASSUME NEW x \in Nodes \ {n}, c.nodePid[x] = to, to # None
               PROVE  FALSE
    BY SMTT(60)
  <2>1. to \in {x, nodes[x].pid}
    BY <1>1, SMTT(60) DEF MapsPast
  <2>2. nodes[x].pid \in PIDs \cup {Empty} /\ nodes[n].pid \in PIDs \cup {Empty}
    BY <1>1, SMTT(60) DEF NodeObj
  <2> QED BY <1>1, <2>1, <2>2, Kinds, SMTT(60) DEF PidsUnique
<1>4. NodesResolve(c')
  BY <1>1, <1>3, NodeMovedResolves, SMTT(60)
<1>5. ClaimsResolve(c')
  BY <1>1, SameResolves, SMTT(60)
<1>6. MapsPast'
  BY <1>1, <1>2 DEF MapsPast, SameClaims, NodeMoved
<1> QED BY <1>4, <1>5, <1>6, ClusterStep, SMTT(60)

-----------------------------------------------------------------------------
(* Every step keeps the invariant. *)

LEMMA InitInv == ASSUME Counting PROVE Init => ClusterInv
<1> SUFFICES ASSUME Init PROVE ClusterInv
  BY SMTT(60)
<1>1. NewCluster \in Clusters
  <2>1. [k \in Keys |-> NewNode] \in [Keys -> StateNodes]
    BY NewNodeTyped, SMTT(60)
  <2>2. NewNodePoolState \in NodePoolStates
    BY DEF NewNodePoolState, NodePoolStates, NodeClaimState, EmptyClaims
  <2> QED BY <2>1, <2>2 DEF NewCluster, Clusters
<1>2. TypeOK
  <2>1. claims \in [NodeClaims -> ClaimObj]
    BY DEF Init, ClaimObj
  <2>2. nodes \in [Nodes -> NodeObj]
    BY NewNodeTyped, SMTT(60) DEF Init
  <2>3. pods \in [Pods -> PodObj]
    BY SMTT(60) DEF Init, PodObj
  <2> QED BY <1>1, <2>1, <2>2, <2>3, ZenonT(60) DEF TypeOK, Init
<1>3. PidsUnique /\ ReadsPast /\ MapsPast /\ MappingsResolve
  BY Kinds DEF Init, PidsUnique, ReadsPast, MapsPast, MappingsResolve, NewCluster, NoNode
<1>4. Exact(c)
  <2>1. \A k \in Keys : ~Counted(c.nodes[k])
    BY DEF Init, NewCluster, NewNode, Counted, InPool, Tracks
  <2>2. CountedKeys(c.nodes) = {} /\ ClaimKeys(c.nodes) = {} /\ NodeKeys(c.nodes) = {}
    BY <2>1, SMTT(60) DEF CountedKeys, ClaimKeys, NodeKeys
  <2>3. c.count = 0 /\ c.cpu = 0
    BY DEF Init, NewCluster
  <2>4. Cardinality({}) = 0
    BY Zenon DEF Counting
  <2> QED BY <2>2, <2>3, <2>4, ClusterStateAssumption, SMTT(60) DEF Exact, CpuOf
<1> QED BY <1>2, <1>3, <1>4 DEF ClusterInv

LEMMA ClaimsKeep == ASSUME Counting, ClusterInv, ClaimStep PROVE ClusterInv'
<1>0. PICK nc \in NodeClaims : \/ CreateClaim(nc) \/ Seed(nc) \/ DeleteClaim(nc) \/ RemoveClaim(nc)
                               \/ ReadClaim(nc) \/ ApplyClaim(nc) \/ NodeClaimGC(nc)
                               \/ \E p \in PIDs : LaunchClaim(nc, p)
  BY SMTT(60) DEF ClaimStep
<1> DEFINE r == claims[nc]
<1>1. /\ TypeOK /\ c \in Clusters /\ Exact(c) /\ r \in ClaimObj /\ claims \in [NodeClaims -> ClaimObj] /\ ReadsPast
      /\ reading[nc] \in ClaimObj \cup {None}
  BY DEF ClusterInv, TypeOK
<1>2. CASE CreateClaim(nc)
  <2> DEFINE o == [r EXCEPT !.phase = "exists"]
  <2>1. o \in ClaimObj /\ o.pid = r.pid
    BY <1>1 DEF ClaimObj
  <2>2. claims' = [claims EXCEPT ![nc] = o] /\ UNCHANGED <<nodes, pods, reading, c>>
    BY <1>1, <1>2, SMTT(60) DEF CreateClaim
  <2> HIDE DEF o
  <2> QED BY <2>1, <2>2, ClaimObjects, Zenon
<1>3. CASE DeleteClaim(nc)
  <2> DEFINE o == [r EXCEPT !.deleting = TRUE]
  <2>1. o \in ClaimObj /\ o.pid = r.pid
    BY <1>1, ZenonT(60) DEF ClaimObj
  <2>2. claims' = [claims EXCEPT ![nc] = o] /\ UNCHANGED <<nodes, pods, reading, c>>
    BY <1>1, <1>3, SMTT(60) DEF DeleteClaim
  <2> HIDE DEF o
  <2> QED BY <2>1, <2>2, ClaimObjects, Zenon
<1>4. CASE RemoveClaim(nc)
  <2> DEFINE o == [r EXCEPT !.phase = "gone"]
  <2>1. o \in ClaimObj /\ o.pid = r.pid
    BY <1>1 DEF ClaimObj
  <2>2. claims' = [claims EXCEPT ![nc] = o] /\ UNCHANGED <<nodes, pods, reading, c>>
    BY <1>1, <1>4, SMTT(60) DEF RemoveClaim
  <2> HIDE DEF o
  <2> QED BY <2>1, <2>2, ClaimObjects, Zenon
<1>5. ASSUME NEW p \in PIDs, LaunchClaim(nc, p) PROVE ClusterInv'
  <2> DEFINE o == [r EXCEPT !.pid = p]
  <2>1. o \in ClaimObj /\ o.pid = p
    BY <1>1 DEF ClaimObj
  <2>2. claims' = [claims EXCEPT ![nc] = o] /\ UNCHANGED <<nodes, pods, reading, c>>
        /\ r.pid = Empty /\ \A other \in NodeClaims : claims[other].pid # p
    BY <1>1, <1>5, SMTT(60) DEF LaunchClaim
  <2> HIDE DEF o
  <2> QED BY <2>1, <2>2, ClaimObjects, ZenonT(60)
<1>6. CASE ReadClaim(nc)
  BY <1>6, ReadStep, SMTT(60) DEF ReadClaim
<1>7. CASE Seed(nc)
  <2> DEFINE o == [phase |-> "exists", pid |-> Empty, deleting |-> FALSE]
  <2>1. o \in ClaimObj /\ o.pid = Empty
    BY SMTT(60) DEF ClaimObj
  <2>2. c' = UpdateNodeClaimOp(c, nc, o) /\ UNCHANGED <<claims, nodes, pods, reading>>
    BY <1>7, SMTT(60) DEF Seed
  <2> HIDE DEF o
  <2>3. Kept(c') /\ SameNodes(c, c') /\ ClaimMoved(c, c', nc, Empty)
    BY <1>1, <2>1, <2>2, UpdateNodeClaimKeeps, SMTT(60)
  <2> QED BY <1>1, <2>2, <2>3, ReadEnds, ClaimStepKeeps, SMTT(60)
<1>8. ASSUME c' = cleanupNodeClaim(c, nc), UNCHANGED <<claims, nodes, pods>>, ReadsEnd PROVE ClusterInv'
  <2>1. Kept(c') /\ SameNodes(c, c') /\ ClaimMoved(c, c', nc, None)
    BY <1>1, <1>8, CleanupNodeClaimKeeps, SMTT(60)
  <2> QED BY <1>8, <2>1, ClaimStepKeeps, SMTT(60)
<1>9. CASE ApplyClaim(nc)
  <2> DEFINE o == reading[nc]
  <2>1. o \in ClaimObj /\ o.pid \in {Empty, r.pid} /\ UNCHANGED <<claims, nodes, pods>> /\ ReadsEnd
    BY <1>1, <1>9, ReadEnds, SMTT(60) DEF ApplyClaim, ReadsPast
  <2>2. CASE c' = cleanupNodeClaim(c, nc)
    BY <1>8, <2>1, <2>2, SMTT(60)
  <2>3. CASE c' = UpdateNodeClaimOp(c, nc, o)
    <3> HIDE DEF o
    <3>1. Kept(c') /\ SameNodes(c, c') /\ ClaimMoved(c, c', nc, o.pid)
      BY <1>1, <2>1, <2>3, UpdateNodeClaimKeeps, SMTT(60)
    <3> QED BY <2>1, <3>1, ClaimStepKeeps, SMTT(60)
  <2> QED BY <1>9, <2>2, <2>3, SMTT(60) DEF ApplyClaim
<1>10. CASE NodeClaimGC(nc)
  BY <1>1, <1>8, <1>10, ReadEnds, SMTT(60) DEF NodeClaimGC
<1> QED BY <1>0, <1>2, <1>3, <1>4, <1>5, <1>6, <1>7, <1>9, <1>10, SMTT(60)

LEMMA NodesKeep == ASSUME Counting, ClusterInv, NodeStep PROVE ClusterInv'
<1>0. PICK n \in Nodes : \/ JoinNode(n) \/ SetInstanceType(n) \/ RegisterNode(n) \/ InitializeNode(n)
                         \/ DeleteNodeObj(n) \/ RemoveNode(n)
                         \/ ReadNode(n) \/ ApplyNode(n) \/ ApplyNodeFails(n)
                         \/ \E p \in PIDs : SetProviderID(n, p)
  BY SMTT(60) DEF NodeStep
<1> DEFINE r == nodes[n]
<1>1. /\ TypeOK /\ c \in Clusters /\ Exact(c) /\ r \in NodeObj /\ nodes \in [Nodes -> NodeObj] /\ ReadsPast
      /\ reading[n] \in NodeObj \cup {None}
  BY SMTT(60) DEF ClusterInv, TypeOK
<1>2. CASE JoinNode(n)
  <2>1. PICK b \in BOOLEAN : nodes' = [nodes EXCEPT ![n] = [NoNode EXCEPT !.exists = TRUE, !.pool = b]]
    BY <1>2, Zenon DEF JoinNode
  <2> DEFINE o == [NoNode EXCEPT !.exists = TRUE, !.pool = b]
  <2>2. o \in NodeObj /\ o.pid = r.pid
    BY <1>2, Zenon DEF NodeObj, NoNode, JoinNode
  <2>3. nodes' = [nodes EXCEPT ![n] = o] /\ UNCHANGED <<claims, pods, reading, c>>
    BY <1>2, <2>1, ZenonT(60) DEF JoinNode
  <2> HIDE DEF o
  <2> QED BY <2>2, <2>3, NodeObjects, Zenon
<1>3. \A p \in PIDs : [r EXCEPT !.pid = p] \in NodeObj /\ [r EXCEPT !.pid = p].pid = p
  BY <1>1 DEF NodeObj
<1>4. /\ [r EXCEPT !.typed = TRUE] \in NodeObj /\ [r EXCEPT !.typed = TRUE].pid = r.pid
      /\ [r EXCEPT !.pool = TRUE, !.typed = TRUE, !.reg = TRUE] \in NodeObj
      /\ [r EXCEPT !.pool = TRUE, !.typed = TRUE, !.reg = TRUE].pid = r.pid
      /\ [r EXCEPT !.init = TRUE] \in NodeObj /\ [r EXCEPT !.init = TRUE].pid = r.pid
      /\ [r EXCEPT !.deleting = TRUE] \in NodeObj /\ [r EXCEPT !.deleting = TRUE].pid = r.pid
      /\ [r EXCEPT !.exists = FALSE] \in NodeObj /\ [r EXCEPT !.exists = FALSE].pid = r.pid
  BY <1>1, Zenon DEF NodeObj
<1>5. ASSUME NEW o \in NodeObj, o.pid = r.pid, SetNodeObj(n, o) PROVE ClusterInv'
  BY <1>5, NodeObjects, Zenon DEF SetNodeObj
<1>6. ASSUME NEW p \in PIDs, SetProviderID(n, p) PROVE ClusterInv'
  <2> DEFINE o == [r EXCEPT !.pid = p]
  <2>1. o \in NodeObj /\ o.pid = p
    BY <1>3
  <2>2. SetNodeObj(n, o) /\ r.pid = Empty /\ \A m \in Nodes : nodes[m].pid # p
    BY <1>6 DEF SetProviderID
  <2> HIDE DEF o
  <2> QED BY <2>1, <2>2, NodeObjects, Zenon DEF SetNodeObj
<1>7. CASE SetInstanceType(n)
  BY <1>4, <1>5, <1>7, Zenon DEF SetInstanceType
<1>8. CASE RegisterNode(n)
  BY <1>4, <1>5, <1>8, Zenon DEF RegisterNode
<1>9. CASE InitializeNode(n)
  BY <1>4, <1>5, <1>9, Zenon DEF InitializeNode
<1>10. CASE DeleteNodeObj(n)
  BY <1>4, <1>5, <1>10, Zenon DEF DeleteNodeObj
<1>11. CASE RemoveNode(n)
  BY <1>4, <1>5, <1>11, ZenonT(60) DEF RemoveNode
<1>12. CASE ReadNode(n)
  BY <1>12, ReadStep, Kinds, SMTT(60) DEF ReadNode
<1>13. CASE ApplyNode(n)
  <2> DEFINE o == reading[n]
  <2>1. o \in NodeObj /\ o.pid \in {Empty, r.pid} /\ UNCHANGED <<claims, nodes, pods>> /\ ReadsEnd
    BY <1>1, <1>13, ReadEnds, ZenonT(60) DEF ApplyNode, ReadsPast
  <2>2. CASE c' = cleanupNode(c, n)
    <3>1. Kept(c') /\ SameClaims(c, c') /\ NodeMoved(c, c', n, None)
      BY <1>1, <2>2, CleanupNodeKeeps, ZenonT(60)
    <3> QED BY <2>1, <3>1, NodeStepKeeps, Kinds, ZenonT(60)
  <2>3. CASE c' = UpdateNodeOp(c, n, o) /\ Ignored(o)
    <3>1. c' = c
      BY <2>3, SMTT(60) DEF UpdateNodeOp
    <3>2. Kept(c') /\ SameNodes(c, c') /\ SameClaims(c, c')
      BY <1>1, <3>1, SMTT(60) DEF Kept, SameNodes, SameClaims
    <3> QED BY <2>1, <3>2, SameStep, SMTT(60)
  <2>4. CASE c' = UpdateNodeOp(c, n, o) /\ ~Ignored(o)
    <3> HIDE DEF o
    <3>1. Kept(c') /\ SameClaims(c, c') /\ NodeMoved(c, c', n, NodeKey(n, o)) /\ NodeKey(n, o) \in Keys
      BY <1>1, <2>1, <2>4, UpdateNodeKeeps, SMTT(60)
    <3>2. NodeKey(n, o) \in {None, n, nodes[n].pid} /\ NodeKey(n, o) # Empty
      BY <2>1, <3>1, Kinds, SMTT(60) DEF NodeKey
    <3> QED BY <2>1, <3>1, <3>2, NodeStepKeeps, SMTT(60)
  <2> QED BY <1>13, <2>2, <2>3, <2>4, SMTT(60) DEF ApplyNode
<1>14. CASE ApplyNodeFails(n)
  <2>1. PICK P \in SUBSET BoundTo(n) : c' = Bind(c, P, n)
    BY <1>14 DEF ApplyNodeFails
  <2>2. P \in SUBSET Pods /\ UNCHANGED <<claims, nodes, pods>> /\ ReadsEnd
    BY <1>1, <1>14, ReadEnds, SMTT(60) DEF ApplyNodeFails, BoundTo
  <2>3. Kept(c') /\ SameNodes(c, c') /\ SameClaims(c, c')
    BY <1>1, <2>1, <2>2, BindKeeps, PodsMovedSame, SMTT(60)
  <2> QED BY <2>2, <2>3, SameStep
<1> QED BY <1>0, <1>2, <1>6, <1>7, <1>8, <1>9, <1>10, <1>11, <1>12, <1>13, <1>14, SMTT(60)

LEMMA PodsKeep == ASSUME ClusterInv, PodStep PROVE ClusterInv'
<1>0. PICK p \in Pods : \/ FinishPod(p) \/ RemovePod(p) \/ ReadPod(p) \/ ApplyPod(p)
                        \/ \E n \in Nodes : BindPod(p, n)
  BY SMTT(60) DEF PodStep
<1>1. /\ TypeOK /\ c \in Clusters /\ Exact(c) /\ pods[p] \in PodObj /\ pods \in [Pods -> PodObj]
      /\ reading[p] \in PodObj \cup {None}
  BY DEF ClusterInv, TypeOK
<1>2. ASSUME NEW o \in PodObj, SetPod(p, o) PROVE ClusterInv'
  BY <1>2, PodObjects, Zenon DEF SetPod
<1>3. CASE FinishPod(p)
  <2>1. [pods[p] EXCEPT !.terminal = TRUE] \in PodObj
    BY <1>1, ZenonT(60) DEF PodObj
  <2> QED BY <1>2, <1>3, <2>1 DEF FinishPod
<1>4. CASE RemovePod(p)
  <2>1. [exists |-> FALSE, node |-> None, terminal |-> FALSE] \in PodObj
    BY DEF PodObj
  <2> QED BY <1>2, <1>4, <2>1, SMTT(60) DEF RemovePod
<1>5. ASSUME NEW n \in Nodes, BindPod(p, n) PROVE ClusterInv'
  <2>1. [exists |-> TRUE, node |-> n, terminal |-> FALSE] \in PodObj
    BY SMTT(60) DEF PodObj
  <2> QED BY <1>2, <1>5, <2>1, SMTT(60) DEF BindPod
<1>6. CASE ReadPod(p)
  BY <1>6, ReadStep, Kinds, SMTT(60) DEF ReadPod
<1>7. CASE ApplyPod(p)
  <2> DEFINE o == reading[p]
  <2>1. o \in PodObj /\ UNCHANGED <<claims, nodes, pods>> /\ ReadsEnd
    BY <1>1, <1>7, ReadEnds, SMTT(60) DEF ApplyPod
  <2>2. PodsMoved(c, c')
    <3>1. CASE o.exists
      <4>1. c' = UpdatePodOp(c, p, o)
        BY <1>7, <3>1, SMTT(60) DEF ApplyPod
      <4> HIDE DEF o
      <4> QED BY <1>1, <2>1, <3>1, <4>1, UpdatePodKeeps, SMTT(60)
    <3>2. CASE ~o.exists
      <4>1. c' = MarkUnconsolidated(ForgetPod(c, p))
        BY <1>7, <3>2 DEF ApplyPod, DeletePodOp
      <4> QED BY <1>1, <4>1, ForgetPodKeeps, MovedUnconsolidated, SMTT(60)
    <3> QED BY <3>1, <3>2, SMTT(60)
  <2>3. Kept(c') /\ SameNodes(c, c') /\ SameClaims(c, c')
    BY <2>2, PodsMovedSame, SMTT(60)
  <2> QED BY <2>1, <2>3, SameStep, SMTT(60)
<1> QED BY <1>0, <1>3, <1>4, <1>5, <1>6, <1>7, SMTT(60)

LEMMA MarksKeep == ASSUME Counting, ClusterInv, MarkStep PROVE ClusterInv'
<1>1. TypeOK /\ c \in Clusters /\ Exact(c)
  BY DEF ClusterInv, TypeOK
<1>2. UNCHANGED <<claims, nodes, pods, reading>>
  BY DEF MarkStep, MarkForDeletion, UnmarkForDeletion, Consolidate, ConsolidationExpires
<1>3. ReadsEnd
  BY <1>1, <1>2, ReadEnds, SMTT(60)
<1>4. Kept(c') /\ SameNodes(c, c') /\ SameClaims(c, c')
  <2>1. ASSUME NEW k \in Keys, MarkForDeletion(k) \/ UnmarkForDeletion(k)
        PROVE  Kept(c') /\ SameNodes(c, c') /\ SameClaims(c, c')
    <3>1. c' \in {MarkOp(c, k), UnmarkOp(c, k)}
      BY <2>1, SMTT(60) DEF MarkForDeletion, UnmarkForDeletion
    <3> QED BY <1>1, <3>1, MarkKeeps
  <2>2. ASSUME Consolidate \/ ConsolidationExpires
        PROVE  Kept(c') /\ SameNodes(c, c') /\ SameClaims(c, c')
    <3>1. PICK b \in BOOLEAN : c' = [c EXCEPT !.consolidated = b]
      BY <2>2, Zenon DEF Consolidate, ConsolidationExpires, MarkUnconsolidated
    <3>2. c' \in Clusters /\ c'.nodes = c.nodes /\ c'.count = c.count /\ c'.cpu = c.cpu /\ Maps(c, c')
      BY <1>1, <3>1 DEF Clusters, Maps
    <3> QED BY <1>1, <3>2 DEF Kept, Exact, SameNodes, SameClaims, Maps
  <2> QED BY <2>1, <2>2, SMTT(60) DEF MarkStep
<1> QED BY <1>2, <1>3, <1>4, SameStep, SMTT(60)

LEMMA StepInv == ASSUME Counting PROVE ClusterInv /\ [Next]_vars => ClusterInv'
<1> SUFFICES ASSUME ClusterInv, [Next]_vars PROVE ClusterInv'
  BY ZenonT(60)
<1>1. CASE UNCHANGED vars
  BY <1>1 DEF vars, ClusterInv, TypeOK, PidsUnique, ReadsPast, MapsPast, MappingsResolve, Exact
<1>2. CASE Next
  BY <1>2, ClaimsKeep, NodesKeep, PodsKeep, MarksKeep, SMTT(60) DEF Next
<1> QED BY <1>1, <1>2

-----------------------------------------------------------------------------
(* Convergence.  What the maps of the Cluster, the pods of its StateNodes    *)
(* and NodePoolState agree on after every operation.                         *)

Linked(d) ==
    /\ \A k \in Keys : d.nodes[k].claim # None => d.claimPid[d.nodes[k].claim] = k
    /\ \A k \in Keys : d.nodes[k].node # None => d.nodePid[d.nodes[k].node] = k

PodsFiled(d) ==
    \A k \in Keys : d.nodes[k].node # None => \A p \in d.nodes[k].pods : d.bindings[p] = d.nodes[k].node

Doomed(s) == s.marked \/ s.claimDeleting

Entry(d, nc) ==
    LET st == d.nps.claims[Pool]
    IN  /\ d.nps.poolOf[nc] = IF d.claimPid[nc] = None THEN NoPool ELSE Pool
        /\ nc \in st.deleting <=> (d.claimPid[nc] \in PIDs /\ Doomed(d.nodes[d.claimPid[nc]]))
        /\ nc \in st.active <=> (d.claimPid[nc] # None /\ nc \notin st.deleting)

Filed(d) == d.nps.claims[Pool].pendingDisruption = {} /\ \A nc \in NodeClaims : Entry(d, nc)

Tidy(d) == d \in Clusters /\ Exact(d) /\ ClaimsResolve(d) /\ NodesResolve(d) /\ Linked(d) /\ PodsFiled(d) /\ Filed(d)

(* What the Cluster knows of a claim, a Node or a pod once the object o has  *)
(* been applied, and what an operation must keep of it.                      *)
ClaimSynced(d, nc, o) ==
    IF o.phase = "exists" THEN d.claimPid[nc] = o.pid /\ (o.pid # Empty => d.nodes[o.pid].claimDeleting = o.deleting)
                          ELSE d.claimPid[nc] \in {None, Empty}
NodeSynced(d, n, o) ==
    IF o.exists /\ ~Ignored(o) THEN d.nodePid[n] = NodeKey(n, o) /\ d.nodes[NodeKey(n, o)].obj = o
                               ELSE d.nodePid[n] = None
PodSynced(d, p, o) ==
    IF o.exists /\ ~o.terminal
    THEN d.bindings[p] = o.node /\ (d.nodePid[o.node] # None => p \in d.nodes[d.nodePid[o.node]].pods)
    ELSE d.bindings[p] = None

ClaimKept(d, e, nc) ==
    /\ e.claimPid[nc] = d.claimPid[nc]
    /\ d.claimPid[nc] \in PIDs => e.nodes[d.claimPid[nc]].claimDeleting = d.nodes[d.claimPid[nc]].claimDeleting
NodeKept(d, e, n) ==
    /\ e.nodePid[n] = d.nodePid[n]
    /\ d.nodePid[n] # None => e.nodes[d.nodePid[n]].obj = d.nodes[d.nodePid[n]].obj
PodKept(d, e, p, n) ==
    /\ e.bindings[p] = d.bindings[p]
    /\ e.nodePid[n] # None => /\ e.nodePid[n] = d.nodePid[n]
                              /\ p \in d.nodes[d.nodePid[n]].pods => p \in e.nodes[d.nodePid[n]].pods

LEMMA ClaimKeptSynced ==
    ASSUME NEW d, NEW e, NEW nc \in NodeClaims, NEW o \in ClaimObj, ClaimKept(d, e, nc), ClaimSynced(d, nc, o)
    PROVE  ClaimSynced(e, nc, o)
<1>1. o.pid # Empty => o.pid \in PIDs
  BY DEF ClaimObj
<1> QED BY <1>1, Zenon DEF ClaimKept, ClaimSynced

LEMMA NodeKeptSynced ==
    ASSUME NEW d, NEW e, NEW n \in Nodes, NEW o \in NodeObj, NodeKept(d, e, n), NodeSynced(d, n, o)
    PROVE  NodeSynced(e, n, o)
<1>1. NodeKey(n, o) # None
  BY Kinds DEF NodeObj, NodeKey, Keys
<1> QED BY <1>1, Zenon DEF NodeKept, NodeSynced

LEMMA PodKeptSynced ==
    ASSUME NEW d, NEW e, NEW p \in Pods, NEW o \in PodObj, o.exists => o.node \in Nodes,
           \A n \in Nodes : o.exists /\ ~o.terminal /\ o.node = n => PodKept(d, e, p, n),
           e.bindings[p] = d.bindings[p], PodSynced(d, p, o)
    PROVE  PodSynced(e, p, o)
BY Zenon DEF PodKept, PodSynced

-----------------------------------------------------------------------------
(* NodePoolState *)

LEMMA BooksCleanup ==
    ASSUME NEW s \in NodePoolStates, NEW nc \in NodeClaims, s.poolOf[nc] \in {Pool, NoPool},
           s.claims[Pool].pendingDisruption = {},
           s.poolOf[nc] = NoPool => nc \notin s.claims[Pool].active \cup s.claims[Pool].deleting,
           NEW t, t = Cleanup(s, nc)
    PROVE  /\ t \in NodePoolStates
           /\ t.claims[Pool].pendingDisruption = {}
           /\ t.claims[Pool].active = s.claims[Pool].active \ {nc}
           /\ t.claims[Pool].deleting = s.claims[Pool].deleting \ {nc}
           /\ t.poolOf = [s.poolOf EXCEPT ![nc] = NoPool]
<1>1. t \in NodePoolStates
  BY PoolCleanup, Zenon
<1>2. Pool # NoPool /\ Pool \in NodePools /\ s.poolOf \in [NodeClaims -> NodePools \cup {NoPool}]
      /\ s.claims \in [NodePools -> NodeClaimState]
  BY NodePoolStateAssumption, ClusterStateAssumption, Zenon DEF NodePoolStates
<1>3. CASE s.poolOf[nc] = NoPool
  <2>1. t = s
    BY <1>3, Zenon DEF Cleanup
  <2> QED BY <1>1, <1>2, <1>3, <2>1, SMTT(60)
<1>4. CASE s.poolOf[nc] = Pool
  <2> DEFINE st == s.claims[Pool]
             left == [active |-> st.active \ {nc}, pendingDisruption |-> st.pendingDisruption \ {nc},
                      deleting |-> st.deleting \ {nc}]
             gone == left.active = {} /\ left.deleting = {}
             f == [s.claims EXCEPT ![Pool] = IF gone THEN EmptyClaims ELSE left]
  <2>1. t.claims = f /\ t.poolOf = [s.poolOf EXCEPT ![nc] = NoPool]
    BY <1>2, <1>4, Zenon DEF Cleanup
  <2>2. f[Pool] = IF gone THEN EmptyClaims ELSE left
    BY <1>2, Zenon
  <2>3. left.active = st.active \ {nc} /\ left.deleting = st.deleting \ {nc} /\ left.pendingDisruption = {}
    BY Zenon
  <2>4. EmptyClaims.active = {} /\ EmptyClaims.deleting = {} /\ EmptyClaims.pendingDisruption = {}
    BY Zenon DEF EmptyClaims
  <2> HIDE DEF left, f
  <2> QED BY <1>1, <2>1, <2>2, <2>3, <2>4, Zenon
<1> QED BY <1>3, <1>4, Zenon

Marked(s, t, nc, b) ==
    /\ t \in NodePoolStates
    /\ t.claims[Pool].pendingDisruption = {}
    /\ t.claims[Pool].active = IF b THEN s.claims[Pool].active \ {nc} ELSE s.claims[Pool].active \cup {nc}
    /\ t.claims[Pool].deleting = IF b THEN s.claims[Pool].deleting \cup {nc} ELSE s.claims[Pool].deleting \ {nc}

Booked(s, t, nc, b) == Marked(s, t, nc, b) /\ t.poolOf = [s.poolOf EXCEPT ![nc] = Pool]

MarkAs(s, nc, b) == IF b THEN MarkNodeClaimDeleting(s, Pool, nc) ELSE MarkNodeClaimActive(s, Pool, nc)

LEMMA BooksMark ==
    ASSUME NEW s \in NodePoolStates, NEW nc \in NodeClaims, s.claims[Pool].pendingDisruption = {},
           NEW b \in BOOLEAN, NEW t, t = MarkAs(s, nc, b)
    PROVE  Marked(s, t, nc, b) /\ t.poolOf = s.poolOf
<1>1. Pool \in NodePools /\ s.claims \in [NodePools -> NodeClaimState]
  BY ClusterStateAssumption, Zenon DEF NodePoolStates
<1>2. t \in NodePoolStates
  BY <1>1, PoolMarks, Zenon DEF MarkAs
<1>3. CASE b
  <2> DEFINE r == [active |-> s.claims[Pool].active \ {nc},
                   pendingDisruption |-> s.claims[Pool].pendingDisruption \ {nc},
                   deleting |-> s.claims[Pool].deleting \cup {nc}]
  <2>1. t = [s EXCEPT !.claims[Pool] = r]
    BY <1>3, Zenon DEF MarkAs, MarkNodeClaimDeleting
  <2>2. /\ r.active = s.claims[Pool].active \ {nc} /\ r.deleting = s.claims[Pool].deleting \cup {nc}
        /\ r.pendingDisruption = {}
    BY Zenon
  <2> HIDE DEF r
  <2>3. t.claims[Pool] = r /\ t.poolOf = s.poolOf
    BY <1>1, <2>1, Zenon DEF NodePoolStates
  <2> QED BY <1>2, <1>3, <2>2, <2>3, Zenon DEF Marked
<1>4. CASE ~b
  <2> DEFINE r == [active |-> s.claims[Pool].active \cup {nc},
                   pendingDisruption |-> s.claims[Pool].pendingDisruption \ {nc},
                   deleting |-> s.claims[Pool].deleting \ {nc}]
  <2>1. t = [s EXCEPT !.claims[Pool] = r]
    BY <1>4, Zenon DEF MarkAs, MarkNodeClaimActive
  <2>2. /\ r.active = s.claims[Pool].active \cup {nc} /\ r.deleting = s.claims[Pool].deleting \ {nc}
        /\ r.pendingDisruption = {}
    BY Zenon
  <2> HIDE DEF r
  <2>3. t.claims[Pool] = r /\ t.poolOf = s.poolOf
    BY <1>1, <2>1, Zenon DEF NodePoolStates
  <2> QED BY <1>2, <1>4, <2>2, <2>3, Zenon DEF Marked
<1> QED BY <1>3, <1>4, Zenon

LEMMA BooksUpdate ==
    ASSUME NEW s \in NodePoolStates, NEW nc \in NodeClaims, s.claims[Pool].pendingDisruption = {},
           NEW b \in BOOLEAN, NEW t, t = UpdateNodeClaim(s, Pool, nc, b)
    PROVE  Booked(s, t, nc, b)
<1> DEFINE m == SetNodeClaimMapping(s, Pool, nc)
<1>1. m \in NodePoolStates /\ m.claims = s.claims /\ m.poolOf = [s.poolOf EXCEPT ![nc] = Pool]
  BY ClusterStateAssumption, Zenon DEF SetNodeClaimMapping, NodePoolStates
<1>2. t = MarkAs(m, nc, b)
  BY Zenon DEF UpdateNodeClaim, MarkAs
<1> HIDE DEF m
<1>3. m \in NodePoolStates /\ m.claims[Pool].pendingDisruption = {}
  BY <1>1, Zenon
<1>4. Marked(m, t, nc, b) /\ t.poolOf = m.poolOf
  BY <1>2, <1>3, BooksMark, SMTT(60)
<1> QED BY <1>1, <1>4, Zenon DEF Marked, Booked

-----------------------------------------------------------------------------
(* What the operations on claims and Nodes compute. *)

Beside(d, e) == e.nodePid = d.nodePid /\ e.bindings = d.bindings

LEMMA SetNodeIs ==
    ASSUME NEW d \in Clusters, NEW k \in Keys, NEW s, NEW e, e = SetNode(d, k, s)
    PROVE  /\ e.nodes = [d.nodes EXCEPT ![k] = s] /\ e.claimPid = d.claimPid /\ e.nps = d.nps
           /\ Beside(d, e)
BY Zenon DEF SetNode, updateNodePoolResources, Clusters, Beside

LEMMA UnconsolidatedIs ==
    ASSUME NEW d \in Clusters, NEW old, NEW new,
           NEW e, e = MarkUnconsolidated(d) \/ e = triggerConsolidationOnChange(d, old, new)
    PROVE  e.nodes = d.nodes /\ e.claimPid = d.claimPid /\ e.nps = d.nps /\ Beside(d, e)
BY Zenon DEF MarkUnconsolidated, triggerConsolidationOnChange, Clusters, Beside

LEMMA WithoutFields ==
    ASSUME NEW s \in StateNodes
    PROVE  /\ WithoutClaim(s).claim = None /\ WithoutClaim(s).node = s.node
           /\ s.node # None => /\ WithoutClaim(s).obj = s.obj /\ WithoutClaim(s).pods = s.pods
           /\ WithoutNode(s).node = None /\ WithoutNode(s).claim = s.claim
           /\ s.claim # None => /\ WithoutNode(s).claimDeleting = s.claimDeleting /\ WithoutNode(s).marked = s.marked
BY Zenon DEF WithoutClaim, WithoutNode, NewNode, StateNodes

ClaimCleaned(d, e, nc, id) ==
    /\ e \in Clusters /\ Exact(e) /\ Beside(d, e)
    /\ e.claimPid = [d.claimPid EXCEPT ![nc] = None] /\ e.nps = Cleanup(d.nps, nc)
    /\ id \in PIDs => e.nodes = [d.nodes EXCEPT ![id] = WithoutClaim(d.nodes[id])]
    /\ id \notin PIDs => e.nodes = d.nodes

LEMMA CleanupClaimIs ==
    ASSUME Counting, NEW d \in Clusters, Exact(d), NEW nc \in NodeClaims, NEW id, id = d.claimPid[nc],
           NEW e, e = cleanupNodeClaim(d, nc)
    PROVE  ClaimCleaned(d, e, nc, id)
<1> DEFINE t == SetNode(d, id, WithoutClaim(d.nodes[id]))
           x == IF id \in PIDs THEN MarkUnconsolidated(t) ELSE d
<1>1. e = [x EXCEPT !.claimPid[nc] = None, !.nps = Cleanup(@, nc)]
  BY Zenon DEF cleanupNodeClaim
<1>2. e \in Clusters /\ Exact(e)
  BY CleanupNodeClaimKeeps, Zenon DEF Kept
<1>3. CASE id \in PIDs
  <2>1. id \in Keys /\ WithoutClaim(d.nodes[id]) \in StateNodes
    BY <1>3, Kinds, ClusterFields, WithoutTyped, SMTT(60)
  <2> DEFINE w == WithoutClaim(d.nodes[id])
  <2> HIDE DEF w
  <2>2. t = SetNode(d, id, w) /\ w \in StateNodes
    BY <2>1 DEF w
  <2> HIDE DEF t
  <2>3. t \in Clusters
    BY <2>1, <2>2, SetNodeExact, ZenonT(60)
  <2>4. t.nodes = [d.nodes EXCEPT ![id] = w] /\ t.claimPid = d.claimPid /\ t.nps = d.nps /\ Beside(d, t)
    BY <2>1, <2>2, SetNodeIs, SMTT(60)
  <2>5. x = MarkUnconsolidated(t)
    BY <1>3, Zenon
  <2> HIDE DEF x
  <2>6. x.nodes = t.nodes /\ x.claimPid = t.claimPid /\ x.nps = t.nps /\ Beside(t, x)
    BY <2>3, <2>5, UnconsolidatedIs, Zenon
  <2>7. x \in Clusters
    BY <2>3, <2>5, Zenon DEF MarkUnconsolidated, Clusters
  <2>8. /\ e.nodes = x.nodes /\ e.claimPid = [x.claimPid EXCEPT ![nc] = None] /\ e.nps = Cleanup(x.nps, nc)
        /\ Beside(x, e)
    BY <1>1, <2>7, Zenon DEF Clusters, Beside
  <2> QED BY <1>2, <1>3, <2>4, <2>6, <2>8, ZenonT(60) DEF Beside, w, ClaimCleaned
<1>4. CASE id \notin PIDs
  <2>1. x = d
    BY <1>4, Zenon
  <2>2. e.nodes = d.nodes /\ e.claimPid = [d.claimPid EXCEPT ![nc] = None] /\ e.nps = Cleanup(d.nps, nc) /\ Beside(d, e)
    BY <1>1, <2>1, Zenon DEF Clusters, Beside
  <2> QED BY <1>2, <1>4, <2>2, Zenon DEF ClaimCleaned
<1> QED BY <1>3, <1>4, Zenon

NodeCleaned(d, e, n, id) ==
    /\ e \in Clusters /\ Exact(e) /\ e.claimPid = d.claimPid /\ e.nps = d.nps /\ e.bindings = d.bindings
    /\ e.nodePid = [d.nodePid EXCEPT ![n] = None]
    /\ id = None => e.nodes = d.nodes
    /\ id # None => e.nodes = [d.nodes EXCEPT ![id] = WithoutNode(d.nodes[id])]

LEMMA CleanupNodeIs ==
    ASSUME Counting, NEW d \in Clusters, Exact(d), NEW n \in Nodes, NEW id, id = d.nodePid[n],
           NEW e, e = cleanupNode(d, n)
    PROVE  NodeCleaned(d, e, n, id)
<1>1. e \in Clusters /\ Exact(e)
  BY CleanupNodeKeeps, Zenon DEF Kept
<1>2. d.nodePid \in [Nodes -> Keys \cup {None}] /\ d.nodes \in [Keys -> StateNodes]
  BY ClusterFields, Zenon
<1>3. CASE id = None
  <2>1. e = d
    BY <1>3, Zenon DEF cleanupNode
  <2>2. d.nodePid = [d.nodePid EXCEPT ![n] = None]
    BY <1>2, <1>3, Zenon
  <2> QED BY <1>1, <1>3, <2>1, <2>2, Zenon DEF NodeCleaned
<1>4. CASE id # None
  <2> DEFINE w == WithoutNode(d.nodes[id])
             t == SetNode(d, id, w)
             x == MarkUnconsolidated(t)
  <2>1. id \in Keys /\ w \in StateNodes
    BY <1>2, <1>4, WithoutTyped, Zenon
  <2>2. e = [x EXCEPT !.nodePid[n] = None]
    BY <1>4, ZenonT(60) DEF cleanupNode
  <2> HIDE DEF w
  <2>3. t.nodes = [d.nodes EXCEPT ![id] = w] /\ t.claimPid = d.claimPid /\ t.nps = d.nps /\ Beside(d, t)
    BY <2>1, SetNodeIs, SMTT(60)
  <2>4. t \in Clusters
    BY <2>1, SetNodeExact, Zenon
  <2> HIDE DEF t
  <2>5. x.nodes = t.nodes /\ x.claimPid = t.claimPid /\ x.nps = t.nps /\ Beside(t, x)
    BY <2>4, UnconsolidatedIs, Zenon
  <2>6. x \in Clusters
    BY <2>4, Zenon DEF MarkUnconsolidated, Clusters
  <2> HIDE DEF x
  <2>7. /\ e.nodes = x.nodes /\ e.claimPid = x.claimPid /\ e.nps = x.nps /\ e.bindings = x.bindings
        /\ e.nodePid = [x.nodePid EXCEPT ![n] = None]
    BY <2>2, <2>6, Zenon DEF Clusters
  <2> QED BY <1>1, <1>4, <2>3, <2>5, <2>7, Zenon DEF Beside, w, NodeCleaned
<1> QED BY <1>3, <1>4, Zenon

(* The StateNode of an instance with its claim. *)
WithClaim(s, nc, o) == [s EXCEPT !.claim = nc, !.claimDeleting = o.deleting, !.costs = {}]

LEMMA WithClaimFields ==
    ASSUME NEW s \in StateNodes, NEW nc \in NodeClaims, NEW o \in ClaimObj, NEW t, t = WithClaim(s, nc, o)
    PROVE  /\ t \in StateNodes /\ t.claim = nc /\ t.claimDeleting = o.deleting
           /\ t.node = s.node /\ t.obj = s.obj /\ t.pods = s.pods /\ t.marked = s.marked
<1>1. o.deleting \in BOOLEAN
  BY DEF ClaimObj
<1> QED BY <1>1, ZenonT(60) DEF WithClaim, StateNodes

LEMMA NewStateIs ==
    ASSUME Counting, NEW d \in Clusters, Exact(d), NEW nc \in NodeClaims, NEW o \in ClaimObj, o.pid \in PIDs,
           d.claimPid[nc] \in {None, Empty, o.pid}, NEW e, e = newStateFromNodeClaim(d, nc, o)
    PROVE  /\ e \in Clusters /\ Beside(d, e)
           /\ \A x \in NodeClaims : x # nc => e.claimPid[x] = d.claimPid[x]
           /\ e.nodes = [d.nodes EXCEPT ![o.pid] = WithClaim(d.nodes[o.pid], nc, o)]
           /\ e.nps = IF d.claimPid[nc] = Empty THEN Cleanup(d.nps, nc) ELSE d.nps
<1> DEFINE old == d.nodes[o.pid]
           new == WithClaim(old, nc, o)
           x == IF d.claimPid[nc] \notin {None, o.pid} THEN cleanupNodeClaim(d, nc) ELSE d
           y == Put(x, o.pid, old, new)
<1>1. e = triggerConsolidationOnChange(y, old, new)
  BY Zenon DEF newStateFromNodeClaim, Put, WithClaim
<1>2. o.pid \in Keys /\ d.nodes \in [Keys -> StateNodes] /\ d.claimPid \in [NodeClaims -> PIDs \cup {Empty, None}]
      /\ Empty \notin PIDs /\ Empty # None /\ old \in StateNodes
  BY ClusterFields, Kinds, Zenon
<1>3. /\ x \in Clusters /\ Exact(x) /\ Beside(d, x) /\ x.nodes = d.nodes
      /\ \A z \in NodeClaims : z # nc => x.claimPid[z] = d.claimPid[z]
      /\ x.nps = IF d.claimPid[nc] = Empty THEN Cleanup(d.nps, nc) ELSE d.nps
  <2>1. CASE d.claimPid[nc] = Empty
    <3>1. x = cleanupNodeClaim(d, nc)
      BY <1>2, <2>1, Zenon
    <3> HIDE DEF x
    <3>2. ClaimCleaned(d, x, nc, d.claimPid[nc])
      BY <3>1, CleanupClaimIs, Zenon
    <3> QED BY <1>2, <2>1, <3>2, Zenon DEF ClaimCleaned
  <2>2. CASE d.claimPid[nc] # Empty
    <3>1. x = d
      BY <2>2, Zenon
    <3> QED BY <2>2, <3>1, Zenon DEF Beside
  <2> QED BY <2>1, <2>2, Zenon
<1> HIDE DEF x
<1>4. new \in StateNodes
  BY <1>2, WithClaimFields, SMTT(60)
<1> HIDE DEF new
<1>5. y \in Clusters
  BY <1>2, <1>3, <1>4, PutNode, Zenon
<1>6. y.nodes = [x.nodes EXCEPT ![o.pid] = new] /\ y.claimPid = x.claimPid /\ y.nps = x.nps /\ Beside(x, y)
  BY <1>3, Zenon DEF Put, updateNodePoolResources, Clusters, Beside
<1> HIDE DEF y
<1>7. e.nodes = y.nodes /\ e.claimPid = y.claimPid /\ e.nps = y.nps /\ Beside(y, e)
  BY <1>1, <1>5, UnconsolidatedIs, ZenonT(60)
<1>8. e \in Clusters
  BY NewStateFromNodeClaimKeeps, Zenon DEF Kept
<1> QED BY <1>3, <1>6, <1>7, <1>8, ZenonT(60) DEF Beside, new

ClaimUpdated(d, e, nc, o) ==
    /\ e \in Clusters /\ Exact(e) /\ Beside(d, e)
    /\ e.claimPid = [d.claimPid EXCEPT ![nc] = o.pid]
    /\ o.pid = Empty => e.nodes = d.nodes /\ e.nps = UpdateNodeClaim(d.nps, Pool, nc, FALSE)
    /\ o.pid # Empty =>
         LET new == WithClaim(d.nodes[o.pid], nc, o)
             s == IF d.claimPid[nc] = Empty THEN Cleanup(d.nps, nc) ELSE d.nps
         IN  e.nodes = [d.nodes EXCEPT ![o.pid] = new] /\ e.nps = UpdateNodeClaim(s, Pool, nc, Doomed(new))

LEMMA UpdateClaimIs ==
    ASSUME Counting, NEW d \in Clusters, Exact(d), NEW nc \in NodeClaims, NEW o \in ClaimObj,
           d.claimPid[nc] \in {None, Empty, o.pid}, NEW e, e = UpdateNodeClaimOp(d, nc, o)
    PROVE  ClaimUpdated(d, e, nc, o)
<1> DEFINE x == IF o.pid = Empty THEN d ELSE newStateFromNodeClaim(d, nc, o)
           b == o.pid # Empty /\ MarkedForDeletion(x.nodes[o.pid])
<1>1. e \in Clusters /\ Exact(e) /\ e.claimPid = [d.claimPid EXCEPT ![nc] = o.pid] /\ e.nodePid = d.nodePid
  <2>1. Kept(e) /\ SameNodes(d, e) /\ ClaimMoved(d, e, nc, o.pid)
    BY UpdateNodeClaimKeeps, Zenon
  <2> QED BY <2>1, Zenon DEF Kept, ClaimMoved, SameNodes
<1>2. e = [x EXCEPT !.nps = UpdateNodeClaim(@, Pool, nc, b), !.claimPid[nc] = o.pid]
  BY Zenon DEF UpdateNodeClaimOp
<1>3. CASE o.pid = Empty
  <2>1. x = d /\ b = FALSE
    BY <1>3, Zenon
  <2> HIDE DEF x, b
  <2>2. e.nodes = d.nodes /\ e.nps = UpdateNodeClaim(d.nps, Pool, nc, FALSE) /\ e.bindings = d.bindings
    BY <1>2, <2>1, Zenon DEF Clusters
  <2> QED BY <1>1, <1>3, <2>2, Zenon DEF Beside, ClaimUpdated
<1>4. CASE o.pid # Empty
  <2> DEFINE new == WithClaim(d.nodes[o.pid], nc, o)
             s == IF d.claimPid[nc] = Empty THEN Cleanup(d.nps, nc) ELSE d.nps
  <2>1. x = newStateFromNodeClaim(d, nc, o) /\ o.pid \in PIDs /\ (b <=> MarkedForDeletion(x.nodes[o.pid]))
    BY <1>4, ZenonT(60) DEF ClaimObj
  <2> HIDE DEF x, b
  <2>2. x \in Clusters /\ Beside(d, x) /\ x.nodes = [d.nodes EXCEPT ![o.pid] = new] /\ x.nps = s
    BY <2>1, NewStateIs, SMTT(60)
  <2>3. o.pid \in Keys /\ d.nodes \in [Keys -> StateNodes]
    BY <2>1, Kinds, ClusterFields, ZenonT(60)
  <2>4. new.claim = nc /\ x.nodes[o.pid] = new
    BY <2>2, <2>3, WithClaimFields, SMTT(60)
  <2> HIDE DEF s, new
  <2>5. b <=> Doomed(new)
    <3>1. nc # None
      BY ClusterStateAssumption, Zenon
    <3> QED BY <2>1, <2>4, <3>1, Zenon DEF Doomed, MarkedForDeletion, Deleted, Managed
  <2>6. e.nodes = x.nodes /\ e.nps = UpdateNodeClaim(x.nps, Pool, nc, b) /\ e.bindings = x.bindings
    BY <1>2, <2>2, Zenon DEF Clusters
  <2>7. UpdateNodeClaim(x.nps, Pool, nc, b) = UpdateNodeClaim(x.nps, Pool, nc, Doomed(new))
    BY <2>5, Zenon DEF UpdateNodeClaim
  <2> QED BY <1>1, <1>4, <2>2, <2>6, <2>7, Zenon DEF Beside, s, new, ClaimUpdated
<1> QED BY <1>3, <1>4, Zenon


-----------------------------------------------------------------------------
(* What the operations keep *)

ClaimsKept(d, e, S) == \A nc \in NodeClaims \ S : ClaimKept(d, e, nc)
NodesKept(d, e, S)  == \A n \in Nodes \ S : NodeKept(d, e, n)
PodsKept(d, e)      == \A p \in Pods : \A n \in Nodes : PodKept(d, e, p, n)

(* In a tidy Cluster no two claims and no two nodes share a key, and what a    *)
(* StateNode is built from is mapped to its key.                               *)
LEMMA TidyTyped ==
    ASSUME NEW d, Tidy(d)
    PROVE  d \in Clusters /\ Exact(d)
BY Zenon DEF Tidy

LEMMA OneClaim ==
    ASSUME NEW d, Tidy(d), NEW x \in NodeClaims, NEW y \in NodeClaims, x # y, d.claimPid[x] \in PIDs
    PROVE  d.claimPid[x] # d.claimPid[y]
<1>1. ClaimsResolve(d)
  BY Zenon DEF Tidy
<1> QED BY <1>1, Zenon DEF ClaimsResolve

LEMMA OneNode ==
    ASSUME NEW d, Tidy(d), NEW m \in Nodes, NEW n \in Nodes, m # n, d.nodePid[m] # None
    PROVE  d.nodePid[m] # d.nodePid[n]
<1>1. NodesResolve(d)
  BY Zenon DEF Tidy
<1> QED BY <1>1, Zenon DEF NodesResolve

LEMMA ClaimAt ==
    ASSUME NEW d, Tidy(d), NEW k \in Keys, d.nodes[k].claim # None
    PROVE  d.nodes[k].claim \in NodeClaims /\ d.claimPid[d.nodes[k].claim] = k /\ k \in PIDs
<1>1. d \in Clusters /\ Linked(d)
  BY Zenon DEF Tidy
<1>2. d.nodes \in [Keys -> StateNodes] /\ d.claimPid \in [NodeClaims -> PIDs \cup {Empty, None}]
  BY <1>1, ClusterFields, Zenon
<1>3. \A s \in StateNodes : s.claim \in NodeClaims \cup {None}
  BY Zenon DEF StateNodes
<1>4. k \in PIDs \/ (k # Empty /\ k # None)
  BY ClusterStateAssumption, Zenon DEF Keys
<1>5. d.nodes[k].claim \in NodeClaims /\ d.claimPid[d.nodes[k].claim] = k
  BY <1>1, <1>2, <1>3, Zenon DEF Linked
<1>6. d.claimPid[d.nodes[k].claim] \in PIDs \cup {Empty, None}
  BY <1>2, <1>5, Zenon
<1> QED BY <1>4, <1>5, <1>6, Zenon

LEMMA NodeAt ==
    ASSUME NEW d, Tidy(d), NEW k \in Keys, d.nodes[k].node # None
    PROVE  d.nodes[k].node \in Nodes /\ d.nodePid[d.nodes[k].node] = k
<1>1. d \in Clusters /\ Linked(d)
  BY Zenon DEF Tidy
<1>2. d.nodes \in [Keys -> StateNodes]
  BY <1>1, ClusterFields, Zenon
<1>3. \A s \in StateNodes : s.node \in Nodes \cup {None}
  BY Zenon DEF StateNodes
<1> QED BY <1>1, <1>2, <1>3, Zenon DEF Linked

(* An operation on a claim leaves the Nodes and the pods as they were. *)
SameBeside(d, e) ==
    /\ Beside(d, e)
    /\ \A k \in Keys : /\ e.nodes[k].node = d.nodes[k].node
                       /\ d.nodes[k].node # None => e.nodes[k].obj = d.nodes[k].obj /\ e.nodes[k].pods = d.nodes[k].pods

LEMMA BesideKept ==
    ASSUME NEW d, Tidy(d), NEW e, SameBeside(d, e)
    PROVE  /\ NodesKept(d, e, {}) /\ PodsKept(d, e) /\ NodesResolve(e) /\ PodsFiled(e)
           /\ \A k \in Keys : e.nodes[k].node # None => e.nodePid[e.nodes[k].node] = k
<1>1. /\ d \in Clusters /\ d.nodes \in [Keys -> StateNodes] /\ d.nodePid \in [Nodes -> Keys \cup {None}]
      /\ e.nodePid = d.nodePid /\ e.bindings = d.bindings
  BY TidyTyped, ClusterFields, ZenonT(60) DEF Beside, SameBeside
<1>2. ASSUME NEW n \in Nodes, d.nodePid[n] # None
      PROVE  LET k == d.nodePid[n] IN e.nodes[k].obj = d.nodes[k].obj /\ e.nodes[k].pods = d.nodes[k].pods
  <2>1. d.nodePid[n] \in Keys /\ d.nodes[d.nodePid[n]].node # None
    BY <1>1, <1>2, ClusterStateAssumption, Zenon DEF Tidy, NodesResolve
  <2> QED BY <2>1, Zenon DEF SameBeside
<1>3. NodesKept(d, e, {}) /\ PodsKept(d, e)
  BY <1>1, <1>2, ZenonT(60) DEF NodesKept, NodeKept, PodsKept, PodKept
<1>4. NodesResolve(e)
  BY <1>1, SMTT(60) DEF Tidy, NodesResolve, SameBeside
<1>5. PodsFiled(e)
  <2>1. PodsFiled(d)
    BY Zenon DEF Tidy
  <2> QED BY <1>1, <2>1, ZenonT(60) DEF PodsFiled, SameBeside
<1>6. \A k \in Keys : e.nodes[k].node # None => e.nodePid[e.nodes[k].node] = k
  BY <1>1, Zenon DEF Tidy, Linked, SameBeside
<1> QED BY <1>3, <1>4, <1>5, <1>6, Zenon

(* The entries of the other claims stay as they were. *)
OthersSame(d, e, nc) ==
    \A x \in NodeClaims : x # nc => /\ e.claimPid[x] = d.claimPid[x]
                                    /\ d.claimPid[x] \in PIDs =>
                                         (Doomed(e.nodes[d.claimPid[x]]) <=> Doomed(d.nodes[d.claimPid[x]]))
Rebooked(s, t, nc) ==
    /\ t.claims[Pool].pendingDisruption = {}
    /\ \A x \in NodeClaims \ {nc} : /\ x \in t.claims[Pool].active <=> x \in s.claims[Pool].active
                                    /\ x \in t.claims[Pool].deleting <=> x \in s.claims[Pool].deleting
                                    /\ t.poolOf[x] = s.poolOf[x]

LEMMA OthersFiled ==
    ASSUME NEW d, Tidy(d), NEW e, NEW nc \in NodeClaims, OthersSame(d, e, nc), Rebooked(d.nps, e.nps, nc), Entry(e, nc)
    PROVE  Filed(e)
<1>1. ASSUME NEW x \in NodeClaims, x # nc PROVE Entry(e, x)
  <2>1. Entry(d, x)
    BY Zenon DEF Tidy, Filed
  <2> QED BY <1>1, <2>1, Zenon DEF Entry, OthersSame, Rebooked
<1> QED BY <1>1, Zenon DEF Filed, Rebooked

LEMMA CleanupClaimTidy ==
    ASSUME NEW d, Tidy(d), NEW nc \in NodeClaims, NEW e, ClaimCleaned(d, e, nc, d.claimPid[nc])
    PROVE  Tidy(e) /\ ClaimsKept(d, e, {nc}) /\ NodesKept(d, e, {}) /\ PodsKept(d, e) /\ e.claimPid[nc] = None
<1> DEFINE id == d.claimPid[nc]
<1>1. /\ d \in Clusters /\ d.nodes \in [Keys -> StateNodes] /\ d.claimPid \in [NodeClaims -> PIDs \cup {Empty, None}]
      /\ d.nodePid \in [Nodes -> Keys \cup {None}] /\ PIDs \subseteq Keys /\ None \notin PIDs /\ Empty \notin PIDs /\ d.nps \in NodePoolStates
  BY TidyTyped, ClusterFields, Kinds, ClusterStateAssumption, ZenonT(60)
<1>2. /\ e \in Clusters /\ Exact(e) /\ e.nodePid = d.nodePid /\ e.bindings = d.bindings
      /\ \A x \in NodeClaims : x # nc => e.claimPid[x] = d.claimPid[x]
      /\ e.claimPid[nc] = None
      /\ e.nps = Cleanup(d.nps, nc)
  BY <1>1, Zenon DEF ClaimCleaned, Beside
<1>3. \A k \in Keys : k # id => e.nodes[k] = d.nodes[k]
  BY <1>1, Zenon DEF ClaimCleaned
<1>4. id \in PIDs => e.nodes[id] = WithoutClaim(d.nodes[id])
  BY <1>1, Zenon DEF ClaimCleaned
<1>5. id \notin PIDs => e.nodes = d.nodes
  BY Zenon DEF ClaimCleaned
<1>6. \A k \in Keys : /\ e.nodes[k].node = d.nodes[k].node
                      /\ d.nodes[k].node # None => e.nodes[k].obj = d.nodes[k].obj /\ e.nodes[k].pods = d.nodes[k].pods
  <2>1. ASSUME NEW k \in Keys, e.nodes[k] = d.nodes[k] \/ e.nodes[k] = WithoutClaim(d.nodes[k])
        PROVE  /\ e.nodes[k].node = d.nodes[k].node
               /\ d.nodes[k].node # None => e.nodes[k].obj = d.nodes[k].obj /\ e.nodes[k].pods = d.nodes[k].pods
    BY <1>1, <2>1, WithoutFields, SMTT(60)
  <2> QED BY <1>3, <1>4, <1>5, <2>1, ZenonT(60)
<1>7. \A x \in NodeClaims : x # nc /\ d.claimPid[x] \in PIDs => e.nodes[d.claimPid[x]] = d.nodes[d.claimPid[x]]
  BY <1>1, <1>3, OneClaim, ZenonT(60)
<1>8. /\ NodesKept(d, e, {}) /\ PodsKept(d, e) /\ NodesResolve(e) /\ PodsFiled(e)
      /\ \A k \in Keys : e.nodes[k].node # None => e.nodePid[e.nodes[k].node] = k
  <2>1. SameBeside(d, e)
    BY <1>2, <1>6, Zenon DEF Beside, SameBeside
  <2> QED BY <2>1, BesideKept, Zenon
<1>10. ClaimsKept(d, e, {nc})
  BY <1>2, <1>7, ZenonT(60) DEF ClaimsKept, ClaimKept
<1>11. ClaimsResolve(e)
  BY <1>1, <1>2, <1>7, SMTT(60) DEF Tidy, ClaimsResolve
<1>12. Linked(e)
  <2>1. ASSUME NEW k \in Keys, e.nodes[k].claim # None PROVE e.claimPid[e.nodes[k].claim] = k
    <3>1. k # id \/ id \notin PIDs
      BY <1>1, <1>4, <2>1, WithoutFields, SMTT(60)
    <3>2. e.nodes[k] = d.nodes[k]
      BY <1>3, <1>5, <3>1, Zenon
    <3>3. d.nodes[k].claim \in NodeClaims /\ d.claimPid[d.nodes[k].claim] = k /\ k \in PIDs
      BY <2>1, <3>2, ClaimAt, ZenonT(60)
    <3>4. d.nodes[k].claim # nc
      BY <3>1, <3>3, Zenon
    <3> QED BY <1>2, <3>2, <3>3, <3>4, ZenonT(60)
  <2> QED BY <1>8, <2>1, Zenon DEF Linked
<1>13. Filed(e)
  <2> DEFINE s == d.nps
             t == e.nps
  <2>1. s.claims[Pool].pendingDisruption = {} /\ \A x \in NodeClaims : Entry(d, x)
    BY Zenon DEF Tidy, Filed
  <2>2. /\ s.poolOf[nc] \in {Pool, NoPool}
        /\ s.poolOf[nc] = NoPool => nc \notin s.claims[Pool].active \cup s.claims[Pool].deleting
    <3>1. Pool # NoPool
      BY ClusterStateAssumption, NodePoolStateAssumption, Zenon
    <3> QED BY <1>1, <2>1, <3>1, Zenon DEF Entry
  <2>3. s \in NodePoolStates /\ t = Cleanup(s, nc)
    BY <1>1, <1>2, ZenonT(60)
  <2> HIDE DEF s, t
  <2>4. /\ t.claims[Pool].pendingDisruption = {}
        /\ t.claims[Pool].active = s.claims[Pool].active \ {nc}
        /\ t.claims[Pool].deleting = s.claims[Pool].deleting \ {nc}
        /\ t.poolOf = [s.poolOf EXCEPT ![nc] = NoPool]
    BY <2>1, <2>2, <2>3, BooksCleanup, SMTT(60)
  <2>5. s.poolOf \in [NodeClaims -> NodePools \cup {NoPool}]
    BY <2>3, Zenon DEF NodePoolStates
  <2>6. Entry(e, nc)
    BY <1>1, <1>2, <2>4, <2>5, Zenon DEF Entry, t
  <2>7. OthersSame(d, e, nc)
    BY <1>2, <1>7, Zenon DEF OthersSame
  <2>8. Rebooked(d.nps, e.nps, nc)
    BY <2>4, <2>5, Zenon DEF Rebooked, s, t
  <2> QED BY <2>6, <2>7, <2>8, OthersFiled, Zenon
<1> QED BY <1>2, <1>8, <1>10, <1>11, <1>12, <1>13, Zenon DEF Tidy


LEMMA UpdateClaimTidy ==
    ASSUME NEW d, Tidy(d), NEW nc \in NodeClaims, NEW o \in ClaimObj, d.claimPid[nc] \in {None, Empty, o.pid},
           \A x \in NodeClaims : x # nc /\ o.pid \in PIDs => d.claimPid[x] # o.pid,
           NEW e, ClaimUpdated(d, e, nc, o)
    PROVE  /\ Tidy(e) /\ ClaimsKept(d, e, {nc}) /\ NodesKept(d, e, {}) /\ PodsKept(d, e)
           /\ e.claimPid[nc] = o.pid /\ (o.pid # Empty => e.nodes[o.pid].claimDeleting = o.deleting)
<1> DEFINE id == o.pid
           new == WithClaim(d.nodes[id], nc, o)
<1>1. /\ d \in Clusters /\ d.nodes \in [Keys -> StateNodes] /\ d.claimPid \in [NodeClaims -> PIDs \cup {Empty, None}]
      /\ PIDs \subseteq Keys /\ None \notin PIDs /\ Empty \notin PIDs /\ Empty # None /\ d.nps \in NodePoolStates
  BY TidyTyped, ClusterFields, Kinds, ClusterStateAssumption, ZenonT(60)
<1>2. id \in PIDs \cup {Empty} /\ nc # None
  BY ClusterStateAssumption, Zenon DEF ClaimObj
<1>3. /\ e \in Clusters /\ Exact(e) /\ Beside(d, e) /\ e.claimPid[nc] = id
      /\ \A x \in NodeClaims : x # nc => e.claimPid[x] = d.claimPid[x]
  BY <1>1, ZenonT(60) DEF ClaimUpdated
<1>4. id \in PIDs => /\ new \in StateNodes /\ new.claim = nc /\ new.claimDeleting = o.deleting
                     /\ new.node = d.nodes[id].node /\ new.obj = d.nodes[id].obj /\ new.pods = d.nodes[id].pods
  BY <1>1, WithClaimFields, SMTT(60)
<1>5. \A k \in Keys : k # id \/ id \notin PIDs => e.nodes[k] = d.nodes[k]
  BY <1>1, <1>2, Zenon DEF ClaimUpdated
<1>6. id \in PIDs => e.nodes[id] = new
  BY <1>1, <1>2, Zenon DEF ClaimUpdated
<1> HIDE DEF new
<1>7. /\ NodesKept(d, e, {}) /\ PodsKept(d, e) /\ NodesResolve(e) /\ PodsFiled(e)
      /\ \A k \in Keys : e.nodes[k].node # None => e.nodePid[e.nodes[k].node] = k
  <2>1. SameBeside(d, e)
    BY <1>3, <1>4, <1>5, <1>6, Zenon DEF SameBeside
  <2> QED BY <2>1, BesideKept, Zenon
<1>8. \A x \in NodeClaims : x # nc /\ d.claimPid[x] \in PIDs => e.nodes[d.claimPid[x]] = d.nodes[d.claimPid[x]]
  BY <1>1, <1>2, <1>5, Zenon
<1>9. ClaimsKept(d, e, {nc})
  BY <1>3, <1>8, Zenon DEF ClaimsKept, ClaimKept
<1>10. ClaimsResolve(e)
  <2>1. ASSUME NEW x \in NodeClaims, e.claimPid[x] \in PIDs PROVE e.nodes[e.claimPid[x]].claim = x
    <3>1. CASE x = nc
      BY <1>3, <1>4, <1>6, <2>1, <3>1, Zenon
    <3>2. CASE x # nc
      BY <1>3, <1>8, <2>1, <3>2, Zenon DEF Tidy, ClaimsResolve
    <3> QED BY <3>1, <3>2, Zenon
  <2> QED BY <2>1, Zenon DEF ClaimsResolve
<1>11. Linked(e)
  <2>1. ASSUME NEW k \in Keys, e.nodes[k].claim # None PROVE e.claimPid[e.nodes[k].claim] = k
    <3>1. CASE k = id /\ id \in PIDs
      BY <1>3, <1>4, <1>6, <3>1, Zenon
    <3>2. CASE k # id \/ id \notin PIDs
      <4>1. e.nodes[k] = d.nodes[k]
        BY <1>5, <3>2, Zenon
      <4>2. d.nodes[k].claim \in NodeClaims /\ d.claimPid[d.nodes[k].claim] = k /\ k \in PIDs
        BY <2>1, <4>1, ClaimAt, ZenonT(60)
      <4>3. d.nodes[k].claim # nc
        BY <1>1, <3>2, <4>2, Zenon
      <4> QED BY <1>3, <4>1, <4>2, <4>3, Zenon
    <3> QED BY <3>1, <3>2, Zenon
  <2> QED BY <1>7, <2>1, Zenon DEF Linked
<1>12. Filed(e)
  <2> DEFINE a == d.nps
             s == IF id # Empty /\ d.claimPid[nc] = Empty THEN Cleanup(a, nc) ELSE a
             t == e.nps
             b == id \in PIDs /\ Doomed(new)
  <2>1. a.claims[Pool].pendingDisruption = {} /\ Entry(d, nc) /\ a \in NodePoolStates
    BY <1>1, Zenon DEF Tidy, Filed
  <2>2. t = UpdateNodeClaim(s, Pool, nc, b)
    <3>1. CASE id = Empty
      <4>1. b = FALSE /\ s = a /\ t = UpdateNodeClaim(a, Pool, nc, FALSE)
        BY <1>1, <3>1, Zenon DEF ClaimUpdated
      <4> QED BY <4>1, Zenon
    <3>2. CASE id # Empty
      <4>1. t = UpdateNodeClaim(s, Pool, nc, Doomed(new)) /\ (b <=> Doomed(new))
        BY <1>2, <3>2, Zenon DEF ClaimUpdated, new
      <4> QED BY <4>1, Zenon DEF UpdateNodeClaim
    <3> QED BY <3>1, <3>2, Zenon
  <2>3. /\ s \in NodePoolStates /\ s.claims[Pool].pendingDisruption = {}
        /\ \A x \in NodeClaims : x # nc => /\ (x \in s.claims[Pool].active <=> x \in a.claims[Pool].active)
                                           /\ (x \in s.claims[Pool].deleting <=> x \in a.claims[Pool].deleting)
                                           /\ s.poolOf[x] = a.poolOf[x]
    <3>1. /\ a.poolOf[nc] \in {Pool, NoPool}
          /\ a.poolOf[nc] = NoPool => nc \notin a.claims[Pool].active \cup a.claims[Pool].deleting
      <4>1. Pool # NoPool
        BY ClusterStateAssumption, NodePoolStateAssumption, Zenon
      <4> QED BY <1>1, <2>1, <4>1, Zenon DEF Entry
    <3>2. a.poolOf \in [NodeClaims -> NodePools \cup {NoPool}]
      BY <2>1, Zenon DEF NodePoolStates
    <3> DEFINE u == Cleanup(a, nc)
    <3> HIDE DEF a
    <3>3. u = Cleanup(a, nc)
      BY DEF u
    <3> HIDE DEF u
    <3>4. /\ u \in NodePoolStates
          /\ u.claims[Pool].pendingDisruption = {}
          /\ u.claims[Pool].active = a.claims[Pool].active \ {nc}
          /\ u.claims[Pool].deleting = a.claims[Pool].deleting \ {nc}
          /\ u.poolOf = [a.poolOf EXCEPT ![nc] = NoPool]
      BY <2>1, <3>1, <3>3, BooksCleanup, SMTT(60)
    <3>5. s = u \/ s = a
      BY <3>3, Zenon
    <3> HIDE DEF s
    <3> QED BY <2>1, <3>2, <3>4, <3>5, ZenonT(60)
  <2> HIDE DEF s, t
  <2>4. b \in BOOLEAN
    BY Zenon DEF Doomed
  <2> HIDE DEF b
  <2>5. /\ t.claims[Pool].pendingDisruption = {}
        /\ t.claims[Pool].active = IF b THEN s.claims[Pool].active \ {nc} ELSE s.claims[Pool].active \cup {nc}
        /\ t.claims[Pool].deleting = IF b THEN s.claims[Pool].deleting \cup {nc} ELSE s.claims[Pool].deleting \ {nc}
        /\ t.poolOf = [s.poolOf EXCEPT ![nc] = Pool]
    <3>1. Booked(s, t, nc, b)
      BY <2>2, <2>3, <2>4, BooksUpdate, Zenon
    <3> QED BY <3>1, Zenon DEF Marked, Booked
  <2>6. s.poolOf \in [NodeClaims -> NodePools \cup {NoPool}]
    BY <2>3, Zenon DEF NodePoolStates
  <2>7. Rebooked(a, t, nc)
    BY <2>3, <2>5, <2>6, ZenonT(60) DEF Rebooked
  <2>8. OthersSame(d, e, nc)
    BY <1>3, <1>8, Zenon DEF OthersSame
  <2>9. Entry(e, nc)
    <3>1. t.poolOf[nc] = Pool /\ (nc \in t.claims[Pool].deleting <=> b) /\ (nc \in t.claims[Pool].active <=> ~b)
      BY <2>5, <2>6, Zenon
    <3>2. b <=> (e.claimPid[nc] \in PIDs /\ Doomed(e.nodes[e.claimPid[nc]]))
      BY <1>3, <1>6, Zenon DEF b
    <3>3. e.claimPid[nc] # None
      BY <1>1, <1>2, <1>3, Zenon
    <3> QED BY <3>1, <3>2, <3>3, Zenon DEF Entry, t
  <2> QED BY <2>7, <2>8, <2>9, OthersFiled, Zenon DEF t
<1>13. id # Empty => e.nodes[id].claimDeleting = o.deleting
  BY <1>2, <1>4, <1>6, Zenon
<1> QED BY <1>3, <1>7, <1>9, <1>10, <1>11, <1>12, <1>13, Zenon DEF Tidy


(* An operation on a Node or a pod leaves the claims as they were. *)
SameClaimSide(d, e) ==
    /\ e.claimPid = d.claimPid /\ e.nps = d.nps
    /\ \A k \in Keys : /\ e.nodes[k].claim = d.nodes[k].claim
                       /\ d.nodes[k].claim # None => /\ e.nodes[k].claimDeleting = d.nodes[k].claimDeleting
                                                     /\ e.nodes[k].marked = d.nodes[k].marked

LEMMA ClaimSideKept ==
    ASSUME NEW d, Tidy(d), NEW e, SameClaimSide(d, e)
    PROVE  /\ ClaimsKept(d, e, {}) /\ ClaimsResolve(e) /\ Filed(e)
           /\ \A k \in Keys : e.nodes[k].claim # None => e.claimPid[e.nodes[k].claim] = k
<1>1. d \in Clusters /\ PIDs \subseteq Keys /\ e.claimPid = d.claimPid /\ e.nps = d.nps
  BY TidyTyped, Kinds, Zenon DEF SameClaimSide
<1>2. ASSUME NEW nc \in NodeClaims, d.claimPid[nc] \in PIDs
      PROVE  LET k == d.claimPid[nc]
             IN  /\ e.nodes[k].claim = nc /\ e.nodes[k].claimDeleting = d.nodes[k].claimDeleting
                 /\ Doomed(e.nodes[k]) <=> Doomed(d.nodes[k])
  <2>1. d.nodes[d.claimPid[nc]].claim = nc /\ d.claimPid[nc] \in Keys /\ nc # None
    BY <1>1, <1>2, ClusterStateAssumption, Zenon DEF Tidy, ClaimsResolve
  <2> QED BY <2>1, Zenon DEF SameClaimSide, Doomed
<1>3. ClaimsKept(d, e, {}) /\ ClaimsResolve(e)
  BY <1>1, <1>2, Zenon DEF ClaimsKept, ClaimKept, ClaimsResolve
<1>4. Filed(e)
  <2>1. ASSUME NEW nc \in NodeClaims PROVE Entry(e, nc)
    <3>1. Entry(d, nc)
      BY Zenon DEF Tidy, Filed
    <3> QED BY <1>1, <1>2, <3>1, Zenon DEF Entry
  <2> QED BY <1>1, <2>1, Zenon DEF Tidy, Filed
<1>5. \A k \in Keys : e.nodes[k].claim # None => e.claimPid[e.nodes[k].claim] = k
  BY <1>1, Zenon DEF SameClaimSide, Tidy, Linked
<1> QED BY <1>3, <1>4, <1>5, Zenon

LEMMA CleanupNodeTidy ==
    ASSUME NEW d, Tidy(d), NEW n \in Nodes, NEW e, NodeCleaned(d, e, n, d.nodePid[n])
    PROVE  Tidy(e) /\ ClaimsKept(d, e, {}) /\ NodesKept(d, e, {n}) /\ PodsKept(d, e) /\ e.nodePid[n] = None
<1> DEFINE id == d.nodePid[n]
<1>1. /\ d \in Clusters /\ d.nodes \in [Keys -> StateNodes] /\ d.nodePid \in [Nodes -> Keys \cup {None}]
      /\ None \notin Keys /\ id \in Keys \cup {None}
  BY TidyTyped, ClusterFields, Kinds, ZenonT(60)
<1>2. /\ e \in Clusters /\ Exact(e) /\ e.claimPid = d.claimPid /\ e.nps = d.nps /\ e.bindings = d.bindings
      /\ e.nodePid[n] = None
      /\ \A m \in Nodes : m # n => e.nodePid[m] = d.nodePid[m]
  BY <1>1, Zenon DEF NodeCleaned
<1>3. \A k \in Keys : k # id => e.nodes[k] = d.nodes[k]
  BY <1>1, Zenon DEF NodeCleaned
<1>4. id # None => e.nodes[id] = WithoutNode(d.nodes[id])
  BY <1>1, Zenon DEF NodeCleaned
<1>5. SameClaimSide(d, e)
  <2>1. ASSUME NEW k \in Keys
        PROVE  /\ e.nodes[k].claim = d.nodes[k].claim
               /\ d.nodes[k].claim # None => /\ e.nodes[k].claimDeleting = d.nodes[k].claimDeleting
                                             /\ e.nodes[k].marked = d.nodes[k].marked
    <3>1. CASE k # id
      BY <1>3, <3>1, Zenon
    <3>2. CASE k = id
      BY <1>1, <1>4, <3>2, WithoutFields, SMTT(60)
    <3> QED BY <3>1, <3>2, Zenon
  <2> QED BY <1>2, <2>1, Zenon DEF SameClaimSide
<1>6. /\ ClaimsKept(d, e, {}) /\ ClaimsResolve(e) /\ Filed(e)
      /\ \A k \in Keys : e.nodes[k].claim # None => e.claimPid[e.nodes[k].claim] = k
  BY <1>5, ClaimSideKept, Zenon
<1>7. ASSUME NEW m \in Nodes, e.nodePid[m] # None
      PROVE  m # n /\ e.nodePid[m] = d.nodePid[m] /\ e.nodes[e.nodePid[m]] = d.nodes[e.nodePid[m]]
  <2>1. m # n /\ e.nodePid[m] = d.nodePid[m]
    BY <1>2, <1>7, Zenon
  <2>2. d.nodePid[m] # id
    BY <1>7, <2>1, OneNode, ZenonT(60)
  <2>3. d.nodePid[m] \in Keys
    BY <1>1, <1>7, <2>1, Zenon
  <2> QED BY <1>3, <2>1, <2>2, <2>3, Zenon
<1>8. NodesKept(d, e, {n}) /\ PodsKept(d, e) /\ NodesResolve(e)
  BY <1>2, <1>7, ZenonT(60) DEF NodesKept, NodeKept, PodsKept, PodKept, NodesResolve, Tidy
<1>9. ASSUME NEW k \in Keys, e.nodes[k].node # None
      PROVE  e.nodes[k] = d.nodes[k] /\ e.nodePid[e.nodes[k].node] = k
  <2>1. k # id
    BY <1>1, <1>4, <1>9, WithoutFields, SMTT(60)
  <2>2. e.nodes[k] = d.nodes[k]
    BY <1>3, <2>1, Zenon
  <2>3. d.nodes[k].node \in Nodes /\ d.nodePid[d.nodes[k].node] = k
    BY <1>9, <2>2, NodeAt, ZenonT(60)
  <2> QED BY <1>2, <2>1, <2>2, <2>3, Zenon
<1>10. Linked(e) /\ PodsFiled(e)
  <2>1. PodsFiled(d)
    BY ZenonT(60) DEF Tidy
  <2>2. PodsFiled(e)
    BY <1>2, <1>9, <2>1, SMTT(60) DEF PodsFiled
  <2> QED BY <1>6, <1>9, <2>2, Zenon DEF Linked
<1> QED BY <1>2, <1>6, <1>8, <1>10, Zenon DEF Tidy


-----------------------------------------------------------------------------
(* Binding pods *)

Moves(d, P, n, p, k) == p \in P /\ d.bindings[p] \notin {None, n} /\ d.nodePid[d.bindings[p]] = k

Bound(d, e, P, n) ==
    /\ e \in Clusters /\ Exact(e) /\ e.nodePid = d.nodePid /\ e.claimPid = d.claimPid /\ e.nps = d.nps
    /\ \A p \in Pods : e.bindings[p] = IF p \in P THEN n ELSE d.bindings[p]
    /\ \A k \in Keys : /\ PodsOnly(d.nodes[k], e.nodes[k])
                       /\ \A p \in Pods : p \in e.nodes[k].pods <=> p \in d.nodes[k].pods /\ ~Moves(d, P, n, p, k)

LEMMA BindIs ==
    ASSUME NEW d \in Clusters, Exact(d), NEW P \in SUBSET Pods, NEW n \in Nodes, NEW e, e = Bind(d, P, n)
    PROVE  Bound(d, e, P, n)
<1> DEFINE moved(k) == {p \in P : d.bindings[p] \notin {None, n} /\ d.nodePid[d.bindings[p]] = k}
           f == [k \in Keys |-> [d.nodes[k] EXCEPT !.pods = @ \ moved(k), !.costs = @ \ moved(k)]]
           q == [p \in Pods |-> IF p \in P THEN n ELSE d.bindings[p]]
           b == d.consolidated /\ \A p \in P : d.bindings[p] = n
<1>1. PodsMoved(d, e)
  BY BindKeeps, ZenonT(60)
<1>2. e = [d EXCEPT !.nodes = f, !.bindings = q, !.consolidated = b]
  BY DEF Bind, Clusters
<1>3. ASSUME NEW k \in Keys PROVE f[k].pods = d.nodes[k].pods \ moved(k)
  <2> DEFINE s == d.nodes[k]
             A == s.pods \ moved(k)
             B == s.costs \ moved(k)
  <2>1. s \in StateNodes
    BY ClusterFields
  <2>2. f[k] = [s EXCEPT !.pods = A, !.costs = B]
    BY <2>1 DEF StateNodes
  <2> HIDE DEF s, A, B, f
  <2>3. f[k].pods = A
    BY <2>1, <2>2, Zenon DEF StateNodes
  <2> QED BY <2>3 DEF A, s
<1>4. \A p \in Pods : q[p] = IF p \in P THEN n ELSE d.bindings[p]
  BY Zenon
<1>5. \A k \in Keys : \A p \in Pods : p \in moved(k) <=> Moves(d, P, n, p, k)
  BY Zenon DEF Moves
<1> HIDE DEF f, q, b, moved
<1>6. e.nodes = f /\ e.bindings = q /\ e.nps = d.nps
  BY <1>2, Zenon DEF Clusters
<1>7. \A k \in Keys : \A p \in Pods : p \in e.nodes[k].pods <=> p \in d.nodes[k].pods /\ ~Moves(d, P, n, p, k)
  BY <1>3, <1>5, <1>6, Zenon
<1> QED BY <1>1, <1>4, <1>6, <1>7, Zenon DEF Bound, PodsMoved, Kept, Maps

(* Pods that stay where they are. *)
PodsStay(d, e, S) == \A p \in S : \A m \in Nodes : PodKept(d, e, p, m)

LEMMA BindTidy ==
    ASSUME NEW d, Tidy(d), NEW P \in SUBSET Pods, NEW n \in Nodes, NEW e, Bound(d, e, P, n)
    PROVE  /\ Tidy(e) /\ ClaimsKept(d, e, {}) /\ NodesKept(d, e, {})
           /\ PodsStay(d, e, {p \in Pods : p \notin P \/ d.bindings[p] = n})
<1>1. /\ d \in Clusters /\ d.nodes \in [Keys -> StateNodes] /\ d.nodePid \in [Nodes -> Keys \cup {None}]
      /\ None \notin Keys /\ None \notin Nodes
  BY TidyTyped, ClusterFields, Kinds, ClusterStateAssumption, ZenonT(60)
<1>2. /\ e \in Clusters /\ Exact(e) /\ e.nodePid = d.nodePid /\ e.claimPid = d.claimPid /\ e.nps = d.nps
      /\ \A p \in Pods : e.bindings[p] = IF p \in P THEN n ELSE d.bindings[p]
  BY Zenon DEF Bound
<1>3. ASSUME NEW k \in Keys
      PROVE  /\ PodsOnly(d.nodes[k], e.nodes[k])
             /\ \A p \in Pods : p \in e.nodes[k].pods <=> p \in d.nodes[k].pods /\ ~Moves(d, P, n, p, k)
  BY Zenon DEF Bound
<1>4. SameClaimSide(d, e)
  BY <1>2, <1>3, Zenon DEF SameClaimSide, PodsOnly
<1>5. /\ ClaimsKept(d, e, {}) /\ ClaimsResolve(e) /\ Filed(e)
      /\ \A k \in Keys : e.nodes[k].claim # None => e.claimPid[e.nodes[k].claim] = k
  BY <1>4, ClaimSideKept, Zenon
<1>6. ASSUME NEW m \in Nodes, d.nodePid[m] # None
      PROVE  d.nodePid[m] \in Keys /\ d.nodes[d.nodePid[m]].node = m
  BY <1>1, <1>6, Zenon DEF Tidy, NodesResolve
<1>7. NodesKept(d, e, {}) /\ NodesResolve(e)
  BY <1>2, <1>3, <1>6, ZenonT(60) DEF NodesKept, NodeKept, NodesResolve, PodsOnly
<1>8. \A k \in Keys : e.nodes[k].node # None => e.nodePid[e.nodes[k].node] = k
  BY <1>2, <1>3, Zenon DEF PodsOnly, Tidy, Linked
<1>9. PodsFiled(e)
  <2>1. ASSUME NEW k \in Keys, e.nodes[k].node # None, NEW p \in e.nodes[k].pods
        PROVE  e.bindings[p] = e.nodes[k].node
    <3> DEFINE m == d.nodes[k].node
    <3>1. e.nodes[k].node = m /\ m \in Nodes /\ d.nodePid[m] = k
      <4>1. e.nodes[k].node = m
        BY <1>3, Zenon DEF PodsOnly
      <4> QED BY <2>1, <4>1, NodeAt, ZenonT(60)
    <3>2. p \in Pods
      BY <1>2, <2>1, ClusterFields, SMTT(60) DEF StateNodes
    <3>3. p \in d.nodes[k].pods /\ ~Moves(d, P, n, p, k)
      BY <1>3, <2>1, <3>2, Zenon
    <3>4. d.bindings[p] = m
      BY <1>1, <3>1, <3>3, Zenon DEF Tidy, PodsFiled
    <3> HIDE DEF m
    <3> QED BY <1>1, <1>2, <3>1, <3>2, <3>3, <3>4, Zenon DEF Moves
  <2> QED BY <2>1, Zenon DEF PodsFiled
<1>10. ASSUME NEW p \in Pods, p \notin P \/ d.bindings[p] = n, NEW m \in Nodes PROVE PodKept(d, e, p, m)
  <2>1. e.bindings[p] = d.bindings[p]
    BY <1>2, <1>10, Zenon
  <2>2. \A k \in Keys : ~Moves(d, P, n, p, k)
    BY <1>10, Zenon DEF Moves
  <2> QED BY <1>2, <1>3, <1>6, <2>1, <2>2, ZenonT(60) DEF PodKept
<1> QED BY <1>2, <1>5, <1>7, <1>8, <1>9, <1>10, Zenon DEF Tidy, Linked, PodsStay


-----------------------------------------------------------------------------
(* A Node that is updated *)

NodePut(d, e, n, id, new) ==
    /\ e \in Clusters /\ Exact(e) /\ e.claimPid = d.claimPid /\ e.nps = d.nps /\ e.bindings = d.bindings
    /\ e.nodePid = [d.nodePid EXCEPT ![n] = id]
    /\ e.nodes = [d.nodes EXCEPT ![id] = new]

(* A StateNode that takes n for its Node, with pods bound to n. *)
Takes(d, s, t, n) ==
    /\ t \in StateNodes /\ t.node = n
    /\ t.claim = s.claim /\ t.claimDeleting = s.claimDeleting /\ t.marked = s.marked
    /\ \A p \in t.pods : d.bindings[p] = n

KeyFree(d, n, id) == d.nodePid[n] \in {None, id} /\ \A m \in Nodes : m # n => d.nodePid[m] # id

PodsElsewhere(d, e, n) == \A p \in Pods : \A m \in Nodes : m # n => PodKept(d, e, p, m)

NodeTaken(d, e, n, id, new) ==
    /\ Tidy(e) /\ ClaimsKept(d, e, {}) /\ NodesKept(d, e, {n}) /\ e.nodePid[n] = id /\ e.nodes[id] = new
    /\ e.bindings = d.bindings /\ PodsElsewhere(d, e, n)

LEMMA PutNodeTidy ==
    ASSUME NEW d, Tidy(d), NEW n \in Nodes, NEW id \in Keys, NEW new, Takes(d, d.nodes[id], new, n),
           KeyFree(d, n, id), NEW e, NodePut(d, e, n, id, new)
    PROVE  NodeTaken(d, e, n, id, new)
<1>1. /\ d \in Clusters /\ d.nodes \in [Keys -> StateNodes] /\ d.nodePid \in [Nodes -> Keys \cup {None}]
      /\ None \notin Keys /\ None \notin Nodes
      /\ d.nodePid[n] \in {None, id} /\ \A m \in Nodes : m # n => d.nodePid[m] # id
  BY TidyTyped, ClusterFields, Kinds, ClusterStateAssumption, ZenonT(60) DEF KeyFree
<1>2. /\ e \in Clusters /\ Exact(e) /\ e.claimPid = d.claimPid /\ e.nps = d.nps /\ e.bindings = d.bindings
      /\ e.nodePid[n] = id
      /\ \A m \in Nodes : m # n => e.nodePid[m] = d.nodePid[m]
      /\ e.nodes[id] = new
      /\ \A k \in Keys : k # id => e.nodes[k] = d.nodes[k]
  BY <1>1, Zenon DEF NodePut
<1>3. /\ new.node = n /\ new.claim = d.nodes[id].claim /\ new.claimDeleting = d.nodes[id].claimDeleting
      /\ new.marked = d.nodes[id].marked /\ \A p \in new.pods : d.bindings[p] = n
  BY Zenon DEF Takes
<1>4. SameClaimSide(d, e)
  BY <1>2, <1>3, Zenon DEF SameClaimSide
<1>5. /\ ClaimsKept(d, e, {}) /\ ClaimsResolve(e) /\ Filed(e)
      /\ \A k \in Keys : e.nodes[k].claim # None => e.claimPid[e.nodes[k].claim] = k
  BY <1>4, ClaimSideKept, Zenon
<1>6. ASSUME NEW m \in Nodes, m # n, e.nodePid[m] # None
      PROVE  e.nodePid[m] = d.nodePid[m] /\ e.nodes[e.nodePid[m]] = d.nodes[e.nodePid[m]]
  <2>1. e.nodePid[m] = d.nodePid[m] /\ d.nodePid[m] # id /\ d.nodePid[m] \in Keys
    BY <1>1, <1>2, <1>6, Zenon
  <2> QED BY <1>2, <2>1, Zenon
<1>7. NodesKept(d, e, {n}) /\ PodsElsewhere(d, e, n)
  BY <1>2, <1>6, Zenon DEF NodesKept, NodeKept, PodKept, PodsElsewhere
<1>8. NodesResolve(e)
  <2>1. ASSUME NEW m \in Nodes, e.nodePid[m] # None PROVE e.nodes[e.nodePid[m]].node = m
    <3>1. CASE m = n
      BY <1>2, <1>3, <3>1, Zenon
    <3>2. CASE m # n
      BY <1>6, <2>1, <3>2, Zenon DEF Tidy, NodesResolve
    <3> QED BY <3>1, <3>2, Zenon
  <2> QED BY <2>1, Zenon DEF NodesResolve
<1>9. ASSUME NEW k \in Keys, e.nodes[k].node # None, k # id
      PROVE  e.nodes[k] = d.nodes[k] /\ e.nodePid[e.nodes[k].node] = k
  <2>1. e.nodes[k] = d.nodes[k]
    BY <1>2, <1>9, Zenon
  <2>2. d.nodes[k].node \in Nodes /\ d.nodePid[d.nodes[k].node] = k
    BY <1>9, <2>1, NodeAt, ZenonT(60)
  <2>3. d.nodes[k].node # n
    BY <1>1, <1>9, <2>2, Zenon
  <2> QED BY <1>2, <2>1, <2>2, <2>3, Zenon
<1>10. PodsFiled(e)
  <2>1. PodsFiled(d)
    BY Zenon DEF Tidy
  <2>2. ASSUME NEW k \in Keys, e.nodes[k].node # None, NEW p \in e.nodes[k].pods
        PROVE  e.bindings[p] = e.nodes[k].node
    <3>1. CASE k = id
      BY <1>2, <1>3, <2>2, <3>1, ZenonT(60)
    <3>2. CASE k # id
      <4>1. e.nodes[k] = d.nodes[k]
        BY <1>2, <3>2, Zenon
      <4> QED BY <1>2, <2>1, <2>2, <4>1, SMTT(60) DEF PodsFiled
    <3> QED BY <3>1, <3>2, Zenon
  <2> QED BY <2>2, Zenon DEF PodsFiled
<1>11. Linked(e)
  <2>1. ASSUME NEW k \in Keys, e.nodes[k].node # None PROVE e.nodePid[e.nodes[k].node] = k
    <3>1. CASE k = id
      BY <1>2, <1>3, <3>1, Zenon
    <3>2. CASE k # id
      BY <1>9, <2>1, <3>2, Zenon
    <3> QED BY <3>1, <3>2, Zenon
  <2> QED BY <1>5, <2>1, Zenon DEF Linked
<1> QED BY <1>2, <1>5, <1>7, <1>8, <1>10, <1>11, Zenon DEF Tidy, NodeTaken

LEMMA KeptTwice ==
    ASSUME NEW d, NEW e, NEW g
    PROVE  /\ ClaimsKept(d, e, {}) /\ ClaimsKept(e, g, {}) => ClaimsKept(d, g, {})
           /\ \A S : NodesKept(d, e, S) /\ NodesKept(e, g, S) => NodesKept(d, g, S)
           /\ \A p, m : PodKept(d, e, p, m) /\ PodKept(e, g, p, m) => PodKept(d, g, p, m)
<1>1. ClaimsKept(d, e, {}) /\ ClaimsKept(e, g, {}) => ClaimsKept(d, g, {})
  BY ZenonT(60) DEF ClaimsKept, ClaimKept
<1>2. \A S : NodesKept(d, e, S) /\ NodesKept(e, g, S) => NodesKept(d, g, S)
  BY ZenonT(60) DEF NodesKept, NodeKept
<1>3. \A p, m : PodKept(d, e, p, m) /\ PodKept(e, g, p, m) => PodKept(d, g, p, m)
  BY Zenon DEF PodKept
<1> QED BY <1>1, <1>2, <1>3, Zenon


NodeApplied(d, e, n, o, id, P) ==
    /\ Tidy(e) /\ ClaimsKept(d, e, {}) /\ NodesKept(d, e, {n})
    /\ e.nodePid[n] = id /\ e.nodes[id].obj = o /\ e.nodes[id].pods = P
    /\ \A p \in P : e.bindings[p] = n
    /\ \A p \in Pods \ P : /\ e.bindings[p] = d.bindings[p]
                           /\ \A m \in Nodes : m # n => PodKept(d, e, p, m)

LEMMA UpdateNodeTidy ==
    ASSUME Counting, NEW d, Tidy(d), NEW n \in Nodes, NEW o \in NodeObj, ~Ignored(o), NEW id, id = NodeKey(n, o),
           NEW P, P = BoundTo(n), \A m \in Nodes : m # n => d.nodePid[m] # id,
           NEW e, e = UpdateNodeOp(d, n, o)
    PROVE  NodeApplied(d, e, n, o, id, P)
<1> DEFINE b == Bind(d, P, n)
           old == d.nodes[id]
           new == [old EXCEPT !.node = n, !.obj = o, !.pods = P, !.costs = P]
           x == IF b.nodePid[n] \notin {None, id} THEN cleanupNode(b, n) ELSE b
           y == Put(x, id, old, new)
           z == triggerConsolidationOnChange(y, old, new)
<1>1. /\ d \in Clusters /\ Exact(d) /\ d.nodes \in [Keys -> StateNodes] /\ d.nodePid \in [Nodes -> Keys \cup {None}]
      /\ None \notin Keys
  BY TidyTyped, ClusterFields, Kinds, ZenonT(60)
<1>2. id \in Keys /\ P \in SUBSET Pods
  BY SMTT(60) DEF NodeKey, Keys, NodeObj, BoundTo
<1>3. e = [z EXCEPT !.nodePid[n] = id]
  BY Zenon DEF UpdateNodeOp, Put
<1>4. Bound(d, b, P, n)
  BY <1>1, <1>2, BindIs, ZenonT(60)
<1> HIDE DEF b
<1>5. /\ Tidy(b) /\ ClaimsKept(d, b, {}) /\ NodesKept(d, b, {})
      /\ PodsStay(d, b, {p \in Pods : p \notin P \/ d.bindings[p] = n})
  BY <1>2, <1>4, BindTidy, Zenon
<1>6. /\ b \in Clusters /\ Exact(b) /\ b.nodePid = d.nodePid
      /\ \A p \in Pods : b.bindings[p] = IF p \in P THEN n ELSE d.bindings[p]
      /\ \A k \in Keys : PodsOnly(d.nodes[k], b.nodes[k])
  BY <1>4, Zenon DEF Bound
<1>7. /\ Tidy(x) /\ ClaimsKept(b, x, {}) /\ NodesKept(b, x, {n}) /\ PodsKept(b, x) /\ x.bindings = b.bindings
      /\ x.nodePid[n] \in {None, id} /\ \A m \in Nodes : m # n => x.nodePid[m] = b.nodePid[m]
      /\ x.nodes[id] = b.nodes[id]
  <2>1. CASE b.nodePid[n] \notin {None, id}
    <3>1. x = cleanupNode(b, n)
      BY <2>1, Zenon
    <3> HIDE DEF x
    <3>2. NodeCleaned(b, x, n, b.nodePid[n])
      BY <1>6, <3>1, CleanupNodeIs, Zenon
    <3>3. Tidy(x) /\ ClaimsKept(b, x, {}) /\ NodesKept(b, x, {n}) /\ PodsKept(b, x) /\ x.nodePid[n] = None
      BY <1>5, <3>2, CleanupNodeTidy, Zenon
    <3>4. /\ x.bindings = b.bindings /\ x.nodePid = [b.nodePid EXCEPT ![n] = None]
          /\ x.nodes = [b.nodes EXCEPT ![b.nodePid[n]] = WithoutNode(b.nodes[b.nodePid[n]])]
      BY <2>1, <3>2, Zenon DEF NodeCleaned
    <3>5. b.nodes \in [Keys -> StateNodes] /\ b.nodePid \in [Nodes -> Keys \cup {None}]
      BY <1>6, ClusterFields, Zenon
    <3> QED BY <1>2, <2>1, <3>3, <3>4, <3>5, Zenon
  <2>2. CASE b.nodePid[n] \in {None, id}
    <3>1. x = b
      BY <2>2, Zenon
    <3>2. ClaimsKept(b, b, {}) /\ NodesKept(b, b, {n}) /\ PodsKept(b, b)
      BY Zenon DEF ClaimsKept, ClaimKept, NodesKept, NodeKept, PodsKept, PodKept
    <3> QED BY <1>5, <2>2, <3>1, <3>2, Zenon
  <2> QED BY <2>1, <2>2, Zenon
<1>8. /\ new \in StateNodes /\ new.node = n /\ new.obj = o /\ new.pods = P
      /\ new.claim = old.claim /\ new.claimDeleting = old.claimDeleting /\ new.marked = old.marked
  <2>1. old \in StateNodes
    BY <1>1, <1>2, Zenon
  <2> HIDE DEF old
  <2> QED BY <1>2, <2>1, ZenonT(60) DEF StateNodes
<1> HIDE DEF x, new, old
<1>9. Takes(x, x.nodes[id], new, n)
  BY <1>2, <1>6, <1>7, <1>8, ZenonT(60) DEF Takes, PodsOnly, old
<1>10. NodePut(x, e, n, id, new)
  <2>1. e \in Clusters /\ Exact(e)
    <3>1. Kept(e)
      BY <1>1, UpdateNodeKeeps, Zenon
    <3> QED BY <3>1, Zenon DEF Kept
  <2>2. x \in Clusters /\ Exact(x) /\ PodsOnly(old, x.nodes[id])
    BY <1>2, <1>6, <1>7, TidyTyped, ZenonT(60) DEF old
  <2>3. (Counted(old) <=> Counted(x.nodes[id])) /\ Capacity(old) = Capacity(x.nodes[id])
    BY <2>2, PodsOnlyCounts, Zenon
  <2>4. y \in Clusters
    BY <1>2, <1>8, <2>2, <2>3, PutNode, Zenon
  <2>5. /\ y.nodes = [x.nodes EXCEPT ![id] = new] /\ y.claimPid = x.claimPid /\ y.nps = x.nps
        /\ y.nodePid = x.nodePid /\ y.bindings = x.bindings
    BY <2>2, Zenon DEF Put, updateNodePoolResources, Clusters
  <2> HIDE DEF y
  <2>6. z.nodes = y.nodes /\ z.claimPid = y.claimPid /\ z.nps = y.nps /\ Beside(y, z)
    BY <2>4, UnconsolidatedIs, Zenon
  <2>7. z \in Clusters
    BY <2>4, Zenon DEF triggerConsolidationOnChange, MarkUnconsolidated, Clusters
  <2> HIDE DEF z
  <2>8. /\ e.nodes = z.nodes /\ e.claimPid = z.claimPid /\ e.nps = z.nps /\ e.bindings = z.bindings
        /\ e.nodePid = [z.nodePid EXCEPT ![n] = id]
    BY <1>3, <2>7, Zenon DEF Clusters
  <2> QED BY <2>1, <2>5, <2>6, <2>8, Zenon DEF NodePut, Beside
<1>11. KeyFree(x, n, id)
  BY <1>6, <1>7, Zenon DEF KeyFree
<1>12. /\ Tidy(e) /\ ClaimsKept(x, e, {}) /\ NodesKept(x, e, {n}) /\ e.nodePid[n] = id /\ e.nodes[id] = new
       /\ e.bindings = x.bindings /\ PodsElsewhere(x, e, n)
  <2>1. Tidy(x) /\ id \in Keys
    BY <1>2, <1>7, Zenon
  <2>2. NodeTaken(x, e, n, id, new)
    BY <1>9, <1>10, <1>11, <2>1, PutNodeTidy, Zenon
  <2> QED BY <2>2, Zenon DEF NodeTaken
<1>13. ClaimsKept(d, e, {}) /\ NodesKept(d, e, {n})
  <2>1. NodesKept(d, b, {n})
    BY <1>5, Zenon DEF NodesKept
  <2> QED BY <1>5, <1>7, <1>12, <2>1, KeptTwice, Zenon
<1>14. ASSUME NEW p \in Pods \ P
       PROVE  e.bindings[p] = d.bindings[p] /\ \A m \in Nodes : m # n => PodKept(d, e, p, m)
  <2>1. e.bindings[p] = d.bindings[p]
    BY <1>6, <1>7, <1>12, <1>14, ZenonT(60)
  <2>2. ASSUME NEW m \in Nodes, m # n PROVE PodKept(d, e, p, m)
    <3>1. PodKept(d, b, p, m) /\ PodKept(b, x, p, m) /\ PodKept(x, e, p, m)
      BY <1>5, <1>7, <1>12, <1>14, <2>2, Zenon DEF PodsStay, PodsKept, PodsElsewhere
    <3> QED BY <3>1, KeptTwice, Zenon
  <2> QED BY <2>1, <2>2, Zenon
<1>15. \A p \in P : e.bindings[p] = n
  BY <1>2, <1>6, <1>7, <1>12, Zenon
<1> QED BY <1>8, <1>12, <1>13, <1>14, <1>15, Zenon DEF NodeApplied


-----------------------------------------------------------------------------
(* A pod that is updated, or forgotten *)

PodOnly(d, e, p) ==
    /\ e \in Clusters /\ Exact(e) /\ e.nodePid = d.nodePid /\ e.claimPid = d.claimPid /\ e.nps = d.nps
    /\ \A q \in Pods : q # p => e.bindings[q] = d.bindings[q]
    /\ \A k \in Keys : /\ PodsOnly(d.nodes[k], e.nodes[k])
                       /\ \A q \in Pods : q # p => (q \in e.nodes[k].pods <=> q \in d.nodes[k].pods)
    /\ \A k \in Keys : e.nodes[k].node # None /\ p \in e.nodes[k].pods => e.bindings[p] = e.nodes[k].node

LEMMA PodTidy ==
    ASSUME NEW d, Tidy(d), NEW p \in Pods, NEW e, PodOnly(d, e, p)
    PROVE  Tidy(e) /\ ClaimsKept(d, e, {}) /\ NodesKept(d, e, {}) /\ PodsStay(d, e, Pods \ {p})
<1>1. /\ d \in Clusters /\ d.nodes \in [Keys -> StateNodes] /\ d.nodePid \in [Nodes -> Keys \cup {None}]
  BY TidyTyped, ClusterFields, ZenonT(60)
<1>2. /\ e \in Clusters /\ Exact(e) /\ e.nodePid = d.nodePid /\ e.claimPid = d.claimPid /\ e.nps = d.nps
      /\ \A q \in Pods : q # p => e.bindings[q] = d.bindings[q]
  BY Zenon DEF PodOnly
<1>3. ASSUME NEW k \in Keys
      PROVE  /\ PodsOnly(d.nodes[k], e.nodes[k])
             /\ \A q \in Pods : q # p => (q \in e.nodes[k].pods <=> q \in d.nodes[k].pods)
  BY Zenon DEF PodOnly
<1>4. SameClaimSide(d, e)
  BY <1>2, <1>3, Zenon DEF SameClaimSide, PodsOnly
<1>5. /\ ClaimsKept(d, e, {}) /\ ClaimsResolve(e) /\ Filed(e)
      /\ \A k \in Keys : e.nodes[k].claim # None => e.claimPid[e.nodes[k].claim] = k
  BY <1>4, ClaimSideKept, Zenon
<1>6. ASSUME NEW m \in Nodes, d.nodePid[m] # None
      PROVE  d.nodePid[m] \in Keys /\ d.nodes[d.nodePid[m]].node = m
  BY <1>1, <1>6, Zenon DEF Tidy, NodesResolve
<1>7. NodesKept(d, e, {}) /\ NodesResolve(e)
  BY <1>2, <1>3, <1>6, ZenonT(60) DEF NodesKept, NodeKept, NodesResolve, PodsOnly
<1>8. \A k \in Keys : e.nodes[k].node # None => e.nodePid[e.nodes[k].node] = k
  BY <1>2, <1>3, Zenon DEF PodsOnly, Tidy, Linked
<1>9. PodsFiled(e)
  <2>1. ASSUME NEW k \in Keys, e.nodes[k].node # None, NEW q \in e.nodes[k].pods
        PROVE  e.bindings[q] = e.nodes[k].node
    <3>1. CASE q = p
      BY <2>1, <3>1, Zenon DEF PodOnly
    <3>2. CASE q # p
      <4>1. q \in Pods
        BY <1>2, <2>1, ClusterFields, SMTT(60) DEF StateNodes
      <4>2. q \in d.nodes[k].pods /\ e.nodes[k].node = d.nodes[k].node
        BY <1>3, <2>1, <3>2, <4>1, Zenon DEF PodsOnly
      <4>3. d.bindings[q] = d.nodes[k].node
        BY <2>1, <4>2, Zenon DEF Tidy, PodsFiled
      <4> QED BY <1>2, <3>2, <4>1, <4>2, <4>3, Zenon
    <3> QED BY <3>1, <3>2, Zenon
  <2> QED BY <2>1, Zenon DEF PodsFiled
<1>10. ASSUME NEW q \in Pods \ {p}, NEW m \in Nodes PROVE PodKept(d, e, q, m)
  BY <1>2, <1>3, <1>6, <1>10, ZenonT(60) DEF PodKept
<1> QED BY <1>2, <1>5, <1>7, <1>8, <1>9, <1>10, Zenon DEF Tidy, Linked, PodsStay

LEMMA ForgetPodOnly ==
    ASSUME NEW d, Tidy(d), NEW p \in Pods, NEW e, e = ForgetPod(d, p) \/ e = DeletePodOp(d, p)
    PROVE  PodOnly(d, e, p) /\ e.bindings[p] = None
<1> DEFINE f == ForgetPod(d, p)
           id == IF d.bindings[p] = None THEN None ELSE d.nodePid[d.bindings[p]]
           x == [d EXCEPT !.bindings[p] = None]
<1>1. /\ d \in Clusters /\ Exact(d) /\ d.nodes \in [Keys -> StateNodes] /\ d.nodePid \in [Nodes -> Keys \cup {None}]
      /\ d.bindings \in [Pods -> Nodes \cup {None}] /\ None \notin Keys /\ None \notin Nodes
  BY TidyTyped, ClusterFields, Kinds, ClusterStateAssumption, ZenonT(60)
<1>2. PodsMoved(d, f) /\ f \in Clusters
  <2>1. PodsMoved(d, f)
    BY <1>1, ForgetPodKeeps, SMTT(60)
  <2> QED BY <2>1, ZenonT(60) DEF PodsMoved, Kept
<1>3. x.bindings = [d.bindings EXCEPT ![p] = None] /\ x.nodes = d.nodes /\ x.nps = d.nps
  BY <1>1, Zenon DEF Clusters
<1>4. id \in Keys \cup {None}
  BY <1>1, Zenon
<1>5. f = IF id = None THEN x ELSE [x EXCEPT !.nodes[id].pods = @ \ {p}, !.nodes[id].costs = @ \ {p}]
  BY Zenon DEF ForgetPod
<1>6. x \in Clusters
  <2> DEFINE q == [d.bindings EXCEPT ![p] = None]
  <2>1. q \in [Pods -> Nodes \cup {None}] /\ x = [d EXCEPT !.bindings = q]
    BY <1>1 DEF Clusters
  <2> HIDE DEF q, x
  <2> QED BY <1>1, <2>1, SMTT(60) DEF Clusters
<1> HIDE DEF f, x
<1>7. /\ f.bindings = x.bindings /\ f.nps = x.nps
      /\ \A k \in Keys : f.nodes[k].pods = IF k = id THEN x.nodes[k].pods \ {p} ELSE x.nodes[k].pods
  <2>1. CASE id = None
    BY <1>1, <1>5, <2>1, Zenon
  <2>2. CASE id # None
    <3> DEFINE A == x.nodes[id].pods \ {p}
               B == x.nodes[id].costs \ {p}
    <3>1. f = [x EXCEPT !.nodes[id].pods = @ \ {p}, !.nodes[id].costs = @ \ {p}] /\ id \in Keys
      BY <1>4, <1>5, <2>2, Zenon
    <3> HIDE DEF id
    <3>2. x.nodes \in [Keys -> StateNodes] /\ x.nodes[id] \in StateNodes
      BY <1>1, <1>3, <3>1, Zenon
    <3>3. f = [x EXCEPT !.nodes = [x.nodes EXCEPT ![id] = [x.nodes[id] EXCEPT !.pods = A, !.costs = B]]]
      BY <1>6, <3>1, <3>2, ZenonT(60) DEF StateNodes, Clusters
    <3> DEFINE t == [x.nodes[id] EXCEPT !.pods = A, !.costs = B]
    <3> HIDE DEF A, B
    <3>4. t.pods = A
      BY <3>2, Zenon DEF StateNodes
    <3> HIDE DEF t
    <3>5. f.nodes = [x.nodes EXCEPT ![id] = t] /\ f.bindings = x.bindings /\ f.nps = x.nps
      BY <1>6, <3>3, Zenon DEF Clusters, t
    <3>6. f.nodes[id].pods = x.nodes[id].pods \ {p} /\ \A k \in Keys : k # id => f.nodes[k] = x.nodes[k]
      BY <3>1, <3>2, <3>4, <3>5, ZenonT(60) DEF A
    <3> QED BY <3>5, <3>6, Zenon
  <2> QED BY <2>1, <2>2, Zenon
<1>8. /\ e \in Clusters /\ Exact(e) /\ e.nodePid = d.nodePid /\ e.claimPid = d.claimPid /\ e.nps = d.nps
      /\ e.bindings = f.bindings /\ e.nodes = f.nodes /\ \A k \in Keys : PodsOnly(d.nodes[k], e.nodes[k])
  <2>1. PodsMoved(d, e)
    BY <1>1, <1>2, MovedUnconsolidated, SMTT(60) DEF f, DeletePodOp
  <2>2. e.nodes = f.nodes /\ e.nps = f.nps /\ e.bindings = f.bindings
    BY <1>2, Zenon DEF f, DeletePodOp, MarkUnconsolidated, Clusters
  <2> QED BY <1>3, <1>7, <2>1, <2>2, Zenon DEF PodsMoved, Kept, Maps
<1>9. e.bindings[p] = None /\ \A q \in Pods : q # p => e.bindings[q] = d.bindings[q]
  <2>1. e.bindings = [d.bindings EXCEPT ![p] = None]
    BY <1>3, <1>7, <1>8, Zenon
  <2> QED BY <1>1, <2>1, Zenon
<1>10. \A k \in Keys : \A q \in Pods : q # p => (q \in e.nodes[k].pods <=> q \in d.nodes[k].pods)
  BY <1>3, <1>7, <1>8, ZenonT(60)
<1>11. ASSUME NEW k \in Keys, e.nodes[k].node # None, p \in e.nodes[k].pods PROVE FALSE
  <2>1. k # id /\ p \in d.nodes[k].pods /\ d.nodes[k].node = e.nodes[k].node
    BY <1>3, <1>7, <1>8, <1>11, Zenon DEF PodsOnly
  <2>2. d.bindings[p] = d.nodes[k].node
    BY <1>11, <2>1, Zenon DEF Tidy, PodsFiled
  <2>3. d.nodePid[d.nodes[k].node] = k
    BY <1>11, <2>1, Zenon DEF Tidy, Linked
  <2> QED BY <1>11, <2>1, <2>2, <2>3, Zenon
<1> QED BY <1>8, <1>9, <1>10, <1>11, Zenon DEF PodOnly


LEMMA UpdatePodOnly ==
    ASSUME NEW d, Tidy(d), NEW p \in Pods, NEW o \in PodObj, ~o.terminal, NEW n \in Nodes, n = o.node, o.exists,
           d.nodePid[n] # None, NEW e, e = UpdatePodOp(d, p, o)
    PROVE  PodOnly(d, e, p) /\ e.bindings[p] = n /\ p \in e.nodes[d.nodePid[n]].pods
<1> DEFINE id == d.nodePid[n]
           x == [d EXCEPT !.nodes[id].pods = @ \cup {p}, !.nodes[id].costs = @ \cup {p}]
           A == d.nodes[id].pods \cup {p}
           B == d.nodes[id].costs \cup {p}
           t == [d.nodes[id] EXCEPT !.pods = A, !.costs = B]
<1>1. /\ d \in Clusters /\ Exact(d) /\ d.nodes \in [Keys -> StateNodes] /\ d.nodePid \in [Nodes -> Keys \cup {None}]
      /\ d.bindings \in [Pods -> Nodes \cup {None}] /\ None \notin Keys /\ None \notin Nodes
  BY TidyTyped, ClusterFields, Kinds, ClusterStateAssumption, ZenonT(60)
<1>2. id \in Keys /\ d.nodes[id] \in StateNodes /\ d.nodes[id].node = n
  BY <1>1, Zenon DEF Tidy, NodesResolve
<1>3. e = Bind(x, {p}, n)
  BY <1>1, Zenon DEF UpdatePodOp, Unknown
<1>4. PodsMoved(d, e)
  BY <1>1, UpdatePodKeeps, Zenon
<1> HIDE DEF id
<1>5. A \in SUBSET Pods /\ B \in SUBSET Pods
  BY <1>2, Zenon DEF StateNodes
<1>6. x = [d EXCEPT !.nodes = [d.nodes EXCEPT ![id] = t]]
  BY <1>1, <1>2, ZenonT(60) DEF StateNodes, Clusters
<1> HIDE DEF x
<1>7. PodsMoved(d, x)
  <2> HIDE DEF A, B
  <2> QED BY <1>1, <1>2, <1>5, <1>6, PodsOfOne, Zenon
<1>8. t.pods = A
  <2> HIDE DEF A, B
  <2> QED BY <1>2, Zenon DEF StateNodes
<1> HIDE DEF t
<1>9. x.nodes = [d.nodes EXCEPT ![id] = t] /\ x.bindings = d.bindings /\ x.nps = d.nps
  BY <1>1, <1>6, Zenon DEF Clusters
<1>10. x \in Clusters /\ Exact(x) /\ x.nodePid = d.nodePid /\ x.claimPid = d.claimPid
  BY <1>7, Zenon DEF PodsMoved, Kept, Maps
<1>11. Bound(x, e, {p}, n)
  <2>1. {p} \in SUBSET Pods
    BY Zenon
  <2> QED BY <1>3, <1>10, <2>1, BindIs, Zenon
<1>12. /\ e \in Clusters /\ Exact(e) /\ e.nodePid = d.nodePid /\ e.claimPid = d.claimPid /\ e.nps = d.nps
       /\ \A k \in Keys : PodsOnly(d.nodes[k], e.nodes[k])
  BY <1>4, <1>9, <1>11, Zenon DEF PodsMoved, Kept, Maps, Bound
<1>13. e.bindings[p] = n /\ \A q \in Pods : q # p => e.bindings[q] = d.bindings[q]
  BY <1>9, <1>11, Zenon DEF Bound
<1>14. ASSUME NEW k \in Keys, NEW q \in Pods
       PROVE  q \in e.nodes[k].pods <=> /\ q \in d.nodes[k].pods \/ (q = p /\ k = id)
                                        /\ ~Moves(d, {p}, n, q, k)
  <2>1. q \in x.nodes[k].pods <=> q \in d.nodes[k].pods \/ (q = p /\ k = id)
    <3>1. CASE k = id
      <4>1. x.nodes[k].pods = A
        BY <1>1, <1>8, <1>9, <3>1, Zenon
      <4> QED BY <3>1, <4>1, Zenon
    <3>2. CASE k # id
      BY <1>1, <1>9, <3>2, ZenonT(60)
    <3> QED BY <3>1, <3>2, Zenon
  <2>2. Moves(x, {p}, n, q, k) <=> Moves(d, {p}, n, q, k)
    BY <1>9, <1>10, Zenon DEF Moves
  <2>3. q \in e.nodes[k].pods <=> q \in x.nodes[k].pods /\ ~Moves(x, {p}, n, q, k)
    BY <1>11, Zenon DEF Bound
  <2> QED BY <2>1, <2>2, <2>3, Zenon
<1>15. \A k \in Keys : \A q \in Pods : q # p => (q \in e.nodes[k].pods <=> q \in d.nodes[k].pods)
  BY <1>14, Zenon DEF Moves
<1>16. p \in e.nodes[id].pods
  <2>1. ~Moves(d, {p}, n, p, id)
    <3>1. d.bindings[p] \in Nodes /\ d.bindings[p] # n => d.nodePid[d.bindings[p]] # d.nodePid[n]
      BY OneNode, ZenonT(60)
    <3> QED BY <1>1, <3>1, Zenon DEF Moves, id
  <2> QED BY <1>2, <1>14, <2>1, Zenon
<1>17. ASSUME NEW k \in Keys, e.nodes[k].node # None, p \in e.nodes[k].pods
       PROVE  e.bindings[p] = e.nodes[k].node
  <2>1. e.nodes[k].node = d.nodes[k].node
    BY <1>12, Zenon DEF PodsOnly
  <2>2. CASE k = id
    BY <1>2, <1>13, <2>1, <2>2, Zenon
  <2>3. CASE k # id
    <3>1. p \in d.nodes[k].pods /\ ~Moves(d, {p}, n, p, k)
      BY <1>14, <1>17, <2>3, Zenon
    <3>2. d.bindings[p] = d.nodes[k].node /\ d.nodePid[d.nodes[k].node] = k
      BY <1>17, <2>1, <3>1, Zenon DEF Tidy, PodsFiled, Linked
    <3>3. d.bindings[p] # n /\ d.bindings[p] # None
      BY <1>17, <2>1, <2>3, <3>2, Zenon DEF id
    <3> QED BY <3>1, <3>2, <3>3, Zenon DEF Moves
  <2> QED BY <2>2, <2>3, Zenon
<1> QED BY <1>12, <1>13, <1>15, <1>16, <1>17, Zenon DEF PodOnly, id


LEMMA MarkTidy ==
    ASSUME Counting, NEW d, Tidy(d), NEW k \in Keys, NEW e, e \in {MarkOp(d, k), UnmarkOp(d, k)}
    PROVE  Tidy(e) /\ ClaimsKept(d, e, {}) /\ NodesKept(d, e, {}) /\ PodsKept(d, e)
<1> DEFINE nc == d.nodes[k].claim
<1>1. /\ d \in Clusters /\ Exact(d) /\ d.nodes \in [Keys -> StateNodes] /\ d.nodes[k] \in StateNodes
      /\ d.nps \in NodePoolStates
  BY TidyTyped, ClusterFields, ZenonT(60)
<1>2. Kept(e) /\ SameNodes(d, e) /\ SameClaims(d, e)
  BY <1>1, MarkKeeps, Zenon
<1> DEFINE with(b) == [d.nodes[k] EXCEPT !.marked = b]
           set(b) == SetNode(d, k, with(b))
<1>3. PICK b \in BOOLEAN : \/ e = set(b) /\ (with(b).claim = None \/ (with(b).claimDeleting /\ ~b))
                           \/ /\ with(b).claim # None /\ (b \/ ~with(b).claimDeleting)
                              /\ e = [set(b) EXCEPT !.nps = MarkAs(set(b).nps, with(b).claim, b)]
  <2>1. \A x, y : MarkAs(x, y, TRUE) = MarkNodeClaimDeleting(x, Pool, y) /\ MarkAs(x, y, FALSE) = MarkNodeClaimActive(x, Pool, y)
    BY Zenon DEF MarkAs
  <2>2. e = MarkOp(d, k) => e = IF with(TRUE).claim = None THEN set(TRUE)
                                ELSE [set(TRUE) EXCEPT !.nps = MarkAs(set(TRUE).nps, with(TRUE).claim, TRUE)]
    BY <2>1, Zenon DEF MarkOp
  <2>3. e = UnmarkOp(d, k) => e = IF with(FALSE).claim = None \/ with(FALSE).claimDeleting THEN set(FALSE)
                                  ELSE [set(FALSE) EXCEPT !.nps = MarkAs(set(FALSE).nps, with(FALSE).claim, FALSE)]
    BY <2>1, Zenon DEF UnmarkOp
  <2>4. TRUE \in BOOLEAN /\ FALSE \in BOOLEAN
    OBVIOUS
  <2> HIDE DEF with, set
  <2>5. CASE e = MarkOp(d, k)
    BY <2>2, <2>4, <2>5, Zenon
  <2>6. CASE e = UnmarkOp(d, k)
    BY <2>3, <2>4, <2>6, Zenon
  <2> QED BY <2>5, <2>6, Zenon
<1> DEFINE s == [d.nodes[k] EXCEPT !.marked = b]
           x == SetNode(d, k, s)
<1>4. /\ s \in StateNodes /\ s.node = d.nodes[k].node /\ s.claim = nc /\ s.obj = d.nodes[k].obj /\ s.pods = d.nodes[k].pods
      /\ s.claimDeleting = d.nodes[k].claimDeleting /\ s.marked = b
  BY <1>1, ZenonT(60) DEF StateNodes
<1> HIDE DEF s
<1>5. x.nodes = [d.nodes EXCEPT ![k] = s] /\ x.claimPid = d.claimPid /\ x.nps = d.nps /\ Beside(d, x)
  BY <1>1, SetNodeIs, SMTT(60)
<1>6. x \in Clusters
  BY <1>1, <1>4, SetNodeExact, Zenon
<1>7. \/ e = x /\ (nc = None \/ (s.claimDeleting /\ ~b))
      \/ nc # None /\ (b \/ ~s.claimDeleting)
                   /\ e = [x EXCEPT !.nps = MarkAs(d.nps, nc, b)]
  BY <1>3, <1>4, <1>5, Zenon DEF s
<1> HIDE DEF x, nc
<1>8. e.nodes = [d.nodes EXCEPT ![k] = s] /\ e.claimPid = d.claimPid /\ Beside(d, e)
  <2>1. CASE e = x
    BY <1>5, <2>1, Zenon
  <2>2. CASE e = [x EXCEPT !.nps = MarkAs(d.nps, nc, b)]
    BY <1>5, <1>6, <2>2, Zenon DEF Beside, Clusters
  <2> QED BY <1>7, <2>1, <2>2, Zenon
<1>9. e.nodes[k] = s /\ \A j \in Keys : j # k => e.nodes[j] = d.nodes[j]
  BY <1>1, <1>8, Zenon
<1>10. SameBeside(d, e)
  BY <1>4, <1>8, <1>9, Zenon DEF SameBeside
<1>11. /\ NodesKept(d, e, {}) /\ PodsKept(d, e) /\ NodesResolve(e) /\ PodsFiled(e)
       /\ \A j \in Keys : e.nodes[j].node # None => e.nodePid[e.nodes[j].node] = j
  BY <1>10, BesideKept, Zenon
<1>12. /\ ClaimsKept(d, e, {}) /\ ClaimsResolve(e)
       /\ \A j \in Keys : e.nodes[j].claim # None => e.claimPid[e.nodes[j].claim] = j
  <2>1. \A j \in Keys : e.nodes[j].claim = d.nodes[j].claim /\ e.nodes[j].claimDeleting = d.nodes[j].claimDeleting
    BY <1>4, <1>9, Zenon DEF nc
  <2>2. PIDs \subseteq Keys
    BY Kinds
  <2>3. ClaimsKept(d, e, {})
    BY <1>8, <2>1, <2>2, Zenon DEF ClaimsKept, ClaimKept
  <2>4. ClaimsResolve(e)
    BY <1>8, <2>1, <2>2, ZenonT(60) DEF Tidy, ClaimsResolve
  <2>5. \A j \in Keys : e.nodes[j].claim # None => e.claimPid[e.nodes[j].claim] = j
    BY <1>8, <2>1, Zenon DEF Tidy, Linked
  <2> QED BY <2>3, <2>4, <2>5, Zenon
<1>13. Filed(e)
  <2>1. CASE nc = None
    <3>1. e.nps = d.nps
      BY <1>5, <1>7, <2>1, Zenon
    <3>2. SameClaimSide(d, e)
      BY <1>4, <1>8, <1>9, <2>1, <3>1, Zenon DEF SameClaimSide, nc
    <3> QED BY <3>2, ClaimSideKept, Zenon
  <2>2. CASE nc # None
    <3>1. nc \in NodeClaims /\ d.claimPid[nc] = k /\ k \in PIDs
      BY <2>2, ClaimAt, ZenonT(60) DEF nc
    <3>2. OthersSame(d, e, nc)
      <4>1. \A y \in NodeClaims : y # nc => d.claimPid[y] # k
        BY <3>1, OneClaim, ZenonT(60)
      <4>2. PIDs \subseteq Keys
        BY Kinds
      <4> QED BY <1>8, <1>9, <4>1, <4>2, Zenon DEF OthersSame
    <3>3. Entry(d, nc) /\ d.nps.claims[Pool].pendingDisruption = {}
      BY <3>1, Zenon DEF Tidy, Filed
    <3>4. k # None
      BY <3>1, Kinds, Zenon
    <3>5. CASE e.nps = d.nps /\ s.claimDeleting
      <4>1. Doomed(e.nodes[k]) /\ Doomed(d.nodes[k])
        BY <1>4, <1>9, <3>5, Zenon DEF Doomed
      <4>2. Entry(e, nc)
        BY <1>8, <3>1, <3>3, <3>5, <4>1, Zenon DEF Entry
      <4>3. Rebooked(d.nps, e.nps, nc)
        BY <3>3, <3>5, Zenon DEF Rebooked
      <4> QED BY <3>1, <3>2, <4>2, <4>3, OthersFiled, Zenon
    <3>6. ASSUME e = [x EXCEPT !.nps = MarkAs(d.nps, nc, b)], b \/ ~s.claimDeleting
          PROVE  Filed(e)
      <4> DEFINE f == MarkAs(d.nps, nc, b)
      <4> HIDE DEF f
      <4>1. Marked(d.nps, f, nc, b) /\ f.poolOf = d.nps.poolOf
        BY <1>1, <3>1, <3>3, BooksMark, ZenonT(60) DEF f
      <4>2. e.nps = f
        BY <1>6, <3>6, Zenon DEF Clusters, f
      <4>3. Rebooked(d.nps, e.nps, nc)
        BY <4>1, <4>2, SMTT(60) DEF Rebooked, Marked
      <4>4. Doomed(e.nodes[k]) <=> b
        BY <1>4, <1>9, <3>6, ZenonT(60) DEF Doomed
      <4>5. (nc \in f.claims[Pool].deleting <=> b) /\ (nc \in f.claims[Pool].active <=> ~b)
        BY <4>1, SMTT(60) DEF Marked
      <4>6. e.claimPid[nc] = k /\ e.nps.poolOf[nc] = Pool
        BY <1>8, <3>1, <3>3, <3>4, <4>1, <4>2, ZenonT(60) DEF Entry
      <4>7. Entry(e, nc)
        BY <3>1, <3>4, <4>2, <4>4, <4>5, <4>6, ZenonT(60) DEF Entry
      <4> QED BY <3>1, <3>2, <4>3, <4>7, OthersFiled, Zenon
    <3> QED BY <1>5, <1>7, <2>2, <3>5, <3>6, Zenon
  <2> QED BY <2>1, <2>2, Zenon
<1> QED BY <1>2, <1>11, <1>12, <1>13, Zenon DEF Tidy, Linked, Kept


-----------------------------------------------------------------------------
(* The inductive invariant of convergence, for as long as Create is not      *)
(* delayed past the launch of its claim.  An object has an event to come, a  *)
(* reconcile that has read it, or is in the Cluster as it is in the cache: C *)
(* is the objects, R what reconciles have read, D who has an event to come.  *)

ClaimOK(d, nc, C, R, D, S) ==
    /\ C[nc].phase = "absent" => C[nc].pid = Empty
    /\ nc \in S => C[nc].pid = Empty
    /\ R[nc] # None /\ nc \notin D => R[nc] = C[nc]
    /\ R[nc] # None /\ d.claimPid[nc] \in PIDs => R[nc].pid = d.claimPid[nc]
    /\ nc \in D \/ R[nc] # None \/ nc \in S \/ ClaimSynced(d, nc, C[nc])

Unready(o) == o = NoNode \/ Ignored(o)
Unapplied(o) == ~o.exists \/ Ignored(o)

NodeOK(d, n, C, R, D) ==
    /\ R[n] # None /\ n \notin D => R[n] = C[n]
    /\ Unready(C[n]) => d.nodePid[n] = None /\ (R[n] # None => Unapplied(R[n]))
    /\ n \in D \/ R[n] # None \/ NodeSynced(d, n, C[n])

PodOK(d, p, C, R, D) ==
    /\ R[p] # None /\ p \notin D => R[p] = C[p]
    /\ C[p].exists => C[p].node # None
    /\ p \in D \/ R[p] # None \/ PodSynced(d, p, C[p])

ClaimsOK == \A nc \in NodeClaims : ClaimOK(c, nc, claims, reading, dirty, seeding)
NodesOK  == \A n \in Nodes : NodeOK(c, n, nodes, reading, dirty)
PodsOK   == \A p \in Pods : PodOK(c, p, pods, reading, dirty)

Settled == Tidy(c) /\ ClaimsOK /\ NodesOK /\ PodsOK

Envs == [creates : Int, joins : Int, binds : Int, marks : Int, errors : Int, passes : Int, lateSeed : BOOLEAN]

ConvergedInv == ClusterInv /\ env \in Envs /\ (~env.lateSeed => Settled)

(* A step leaves alone what is not in K. *)
Quiet(K) == \A x \in NodeClaims \cup Nodes \cup Pods :
               x \notin K => reading'[x] = reading[x] /\ (x \in dirty' <=> x \in dirty)
ClaimsQuiet(K) == \A x \in NodeClaims : x \notin K => claims'[x] = claims[x] /\ (x \in seeding' <=> x \in seeding)
NodesQuiet(K)  == \A x \in Nodes : x \notin K => nodes'[x] = nodes[x]
PodsQuiet(K)   == \A x \in Pods : x \notin K => pods'[x] = pods[x]

LEMMA ClaimsStay ==
    ASSUME TypeOK, ClaimsOK, NEW K, Quiet(K), ClaimsQuiet(K), ClaimsKept(c, c', K),
           \A nc \in NodeClaims : nc \in K => ClaimOK(c', nc, claims', reading', dirty', seeding')
    PROVE  ClaimsOK'
<1> SUFFICES ASSUME NEW nc \in NodeClaims, nc \notin K PROVE ClaimOK(c', nc, claims', reading', dirty', seeding')
  BY Zenon DEF ClaimsOK
<1>1. /\ claims'[nc] = claims[nc] /\ (nc \in seeding' <=> nc \in seeding)
      /\ reading'[nc] = reading[nc] /\ (nc \in dirty' <=> nc \in dirty)
  BY Zenon DEF Quiet, ClaimsQuiet
<1>2. ClaimKept(c, c', nc)
  BY Zenon DEF ClaimsKept
<1>3. claims[nc] \in ClaimObj /\ ClaimOK(c, nc, claims, reading, dirty, seeding)
  BY Zenon DEF TypeOK, ClaimsOK
<1>4. ClaimSynced(c, nc, claims[nc]) => ClaimSynced(c', nc, claims[nc])
  BY <1>2, <1>3, ClaimKeptSynced, Zenon
<1>5. c'.claimPid[nc] = c.claimPid[nc]
  BY <1>2, Zenon DEF ClaimKept
<1> QED BY <1>1, <1>3, <1>4, <1>5, Zenon DEF ClaimOK

LEMMA NodesStay ==
    ASSUME TypeOK, NodesOK, NEW K, Quiet(K), NodesQuiet(K), NodesKept(c, c', K),
           \A n \in Nodes : n \in K => NodeOK(c', n, nodes', reading', dirty')
    PROVE  NodesOK'
<1> SUFFICES ASSUME NEW n \in Nodes, n \notin K PROVE NodeOK(c', n, nodes', reading', dirty')
  BY Zenon DEF NodesOK
<1>1. nodes'[n] = nodes[n] /\ reading'[n] = reading[n] /\ (n \in dirty' <=> n \in dirty)
  BY Zenon DEF Quiet, NodesQuiet
<1>2. NodeKept(c, c', n)
  BY Zenon DEF NodesKept
<1>3. nodes[n] \in NodeObj /\ NodeOK(c, n, nodes, reading, dirty)
  BY Zenon DEF TypeOK, NodesOK
<1>4. NodeSynced(c, n, nodes[n]) => NodeSynced(c', n, nodes[n])
  BY <1>2, <1>3, NodeKeptSynced, Zenon
<1>5. c'.nodePid[n] = c.nodePid[n]
  BY <1>2, Zenon DEF NodeKept
<1> QED BY <1>1, <1>3, <1>4, <1>5, Zenon DEF NodeOK

PodSafe(p) == PodSynced(c, p, pods[p]) => PodSynced(c', p, pods[p])

LEMMA PodsHold ==
    ASSUME TypeOK, PodsOK, NEW K, Quiet(K), PodsQuiet(K), \A p \in Pods : p \notin K => PodSafe(p),
           \A p \in Pods : p \in K => PodOK(c', p, pods', reading', dirty')
    PROVE  PodsOK'
<1> SUFFICES ASSUME NEW p \in Pods, p \notin K PROVE PodOK(c', p, pods', reading', dirty')
  BY Zenon DEF PodsOK
<1>1. pods'[p] = pods[p] /\ reading'[p] = reading[p] /\ (p \in dirty' <=> p \in dirty)
  BY Zenon DEF Quiet, PodsQuiet
<1>2. PodOK(c, p, pods, reading, dirty)
  BY Zenon DEF PodsOK
<1> QED BY <1>1, <1>2, Zenon DEF PodOK, PodSafe

(* A pod that an operation keeps where it is stays in step. *)
LEMMA PodsAreSafe ==
    ASSUME TypeOK, PodsOK, c' \in Clusters, NEW p \in Pods, \A n \in Nodes : PodKept(c, c', p, n)
    PROVE  PodSafe(p)
<1>1. pods[p] \in PodObj /\ c \in Clusters /\ (pods[p].exists => pods[p].node # None)
  BY Zenon DEF TypeOK, PodsOK, PodOK
<1>2. pods[p].exists => pods[p].node \in Nodes
  BY <1>1, Zenon DEF PodObj
<1>3. c'.bindings[p] = c.bindings[p]
  <2>1. c.bindings[p] \in Nodes \cup {None} /\ c'.bindings[p] \in Nodes \cup {None}
    BY <1>1, ClusterFields, SMTT(60)
  <2> QED BY <2>1, ZenonT(60) DEF PodKept
<1>4. ASSUME PodSynced(c, p, pods[p]) PROVE PodSynced(c', p, pods[p])
  <2>1. \A n \in Nodes : pods[p].exists /\ ~pods[p].terminal /\ pods[p].node = n => PodKept(c, c', p, n)
    BY Zenon
  <2> QED BY <1>1, <1>2, <1>3, <1>4, <2>1, PodKeptSynced, ZenonT(60)
<1> QED BY <1>4, Zenon DEF PodSafe


LEMMA QuietOne ==
    ASSUME TypeOK, NEW k \in NodeClaims \cup Nodes \cup Pods, dirty' \in {dirty, dirty \cup {k}, dirty \ {k}},
           NEW o, reading' \in {reading, [reading EXCEPT ![k] = o]}
    PROVE  Quiet({k})
BY Zenon DEF Quiet, TypeOK

LEMMA KeptMore ==
    ASSUME NEW d, NEW e, NEW K
    PROVE  (ClaimsKept(d, e, {}) => ClaimsKept(d, e, K)) /\ (NodesKept(d, e, {}) => NodesKept(d, e, K))
BY Zenon DEF ClaimsKept, NodesKept

LEMMA SelfKept ==
    ASSUME NEW d
    PROVE  ClaimsKept(d, d, {}) /\ NodesKept(d, d, {}) /\ PodsKept(d, d) /\ \A S \in SUBSET Pods : PodsStay(d, d, S)
BY Zenon DEF ClaimsKept, ClaimKept, NodesKept, NodeKept, PodsKept, PodsStay, PodKept

LEMMA SettledStep ==
    ASSUME TypeOK, Settled, NEW K, Quiet(K), ClaimsQuiet(K), NodesQuiet(K), PodsQuiet(K),
           Tidy(c'), ClaimsKept(c, c', K), NodesKept(c, c', K), \A p \in Pods : p \notin K => PodSafe(p),
           \A x \in NodeClaims : x \in K => ClaimOK(c', x, claims', reading', dirty', seeding'),
           \A x \in Nodes : x \in K => NodeOK(c', x, nodes', reading', dirty'),
           \A x \in Pods : x \in K => PodOK(c', x, pods', reading', dirty')
    PROVE  Settled'
<1>1. ClaimsOK /\ NodesOK /\ PodsOK
  BY Zenon DEF Settled
<1>2. ClaimsOK'
  BY <1>1, ClaimsStay, Zenon
<1>3. NodesOK'
  BY <1>1, NodesStay, Zenon
<1>4. PodsOK'
  BY <1>1, PodsHold, Zenon
<1> QED BY <1>2, <1>3, <1>4, Zenon DEF Settled

(* A step about one claim, one Node or one pod. *)
LEMMA ClaimTurn ==
    ASSUME TypeOK, Settled, NEW nc \in NodeClaims, Quiet({nc}), ClaimsQuiet({nc}), UNCHANGED <<nodes, pods>>,
           Tidy(c'), ClaimsKept(c, c', {nc}), NodesKept(c, c', {}), PodsKept(c, c'),
           ClaimOK(c', nc, claims', reading', dirty', seeding')
    PROVE  Settled'
<1>1. NodesQuiet({nc}) /\ PodsQuiet({nc})
  BY Zenon DEF NodesQuiet, PodsQuiet
<1>2. NodesKept(c, c', {nc})
  BY KeptMore, Zenon
<1>3. PodsOK /\ c' \in Clusters
  BY Zenon DEF Settled, Tidy
<1>4. \A p \in Pods : PodSafe(p)
  BY <1>3, PodsAreSafe, Zenon DEF PodsKept
<1>5. nc \notin Nodes /\ nc \notin Pods
  BY Kinds, Zenon
<1> QED BY <1>1, <1>2, <1>4, <1>5, SettledStep, ZenonT(60)

LEMMA NodeTurn ==
    ASSUME TypeOK, Settled, NEW n \in Nodes, Quiet({n}), NodesQuiet({n}), UNCHANGED <<claims, seeding, pods>>,
           Tidy(c'), ClaimsKept(c, c', {}), NodesKept(c, c', {n}), \A p \in Pods : PodSafe(p),
           NodeOK(c', n, nodes', reading', dirty')
    PROVE  Settled'
<1>1. ClaimsQuiet({n}) /\ PodsQuiet({n})
  BY Zenon DEF ClaimsQuiet, PodsQuiet
<1>2. ClaimsKept(c, c', {n})
  BY KeptMore, Zenon
<1>3. n \notin NodeClaims /\ n \notin Pods
  BY Kinds, Zenon
<1> QED BY <1>1, <1>2, <1>3, SettledStep, Zenon

LEMMA PodTurn ==
    ASSUME TypeOK, Settled, NEW p \in Pods, Quiet({p}), PodsQuiet({p}), UNCHANGED <<claims, nodes, seeding>>,
           Tidy(c'), ClaimsKept(c, c', {}), NodesKept(c, c', {}), PodsStay(c, c', Pods \ {p}),
           PodOK(c', p, pods', reading', dirty')
    PROVE  Settled'
<1>1. ClaimsQuiet({p}) /\ NodesQuiet({p})
  BY Zenon DEF ClaimsQuiet, NodesQuiet
<1>2. ClaimsKept(c, c', {p}) /\ NodesKept(c, c', {p})
  BY KeptMore, Zenon
<1>3. PodsOK /\ c' \in Clusters
  BY Zenon DEF Settled, Tidy
<1>4. \A q \in Pods : q \notin {p} => PodSafe(q)
  BY <1>3, PodsAreSafe, Zenon DEF PodsStay
<1>5. p \notin NodeClaims /\ p \notin Nodes
  BY Kinds, Zenon
<1> QED BY <1>1, <1>2, <1>4, <1>5, SettledStep, ZenonT(60)

(* The world changes, and the Cluster does not: there is an event to come. *)
LEMMA ClaimEvent ==
    ASSUME TypeOK, Settled, NEW nc \in NodeClaims, UNCHANGED <<nodes, pods, reading, c>>, ClaimsQuiet({nc}), Change(nc),
           claims'[nc].phase # "absent", nc \in seeding' => claims'[nc].pid = Empty
    PROVE  Settled'
<1>1. Quiet({nc})
  BY QuietOne, Zenon DEF Change
<1>2. ClaimOK(c, nc, claims, reading, dirty, seeding)
  BY Zenon DEF Settled, ClaimsOK
<1>3. ClaimOK(c', nc, claims', reading', dirty', seeding')
  BY <1>2, Zenon DEF ClaimOK, Change
<1>4. ClaimsKept(c, c', {}) /\ NodesKept(c, c', {}) /\ PodsKept(c, c') /\ Tidy(c')
  BY SelfKept, Zenon DEF Settled
<1>5. ClaimsKept(c, c', {nc})
  BY <1>4, KeptMore, Zenon
<1> QED BY <1>1, <1>3, <1>4, <1>5, ClaimTurn, ZenonT(60)

LEMMA NodeEvent ==
    ASSUME TypeOK, Settled, NEW n \in Nodes, UNCHANGED <<claims, seeding, pods, reading, c>>, NodesQuiet({n}), Change(n),
           Unready(nodes'[n]) => Unready(nodes[n])
    PROVE  Settled'
<1>1. Quiet({n})
  BY QuietOne, Zenon DEF Change
<1>2. NodeOK(c, n, nodes, reading, dirty)
  BY Zenon DEF Settled, NodesOK
<1>3. NodeOK(c', n, nodes', reading', dirty')
  BY <1>2, Zenon DEF NodeOK, Change
<1>4. ClaimsKept(c, c', {}) /\ NodesKept(c, c', {}) /\ Tidy(c')
  BY SelfKept, Zenon DEF Settled
<1>5. NodesKept(c, c', {n})
  BY <1>4, KeptMore, Zenon
<1>6. \A p \in Pods : PodSafe(p)
  BY Zenon DEF PodSafe
<1> QED BY <1>1, <1>3, <1>4, <1>5, <1>6, NodeTurn, ZenonT(60)

LEMMA PodEvent ==
    ASSUME TypeOK, Settled, NEW p \in Pods, UNCHANGED <<claims, nodes, seeding, reading, c>>, PodsQuiet({p}), Change(p),
           pods'[p].exists => pods'[p].node # None
    PROVE  Settled'
<1>1. Quiet({p})
  BY QuietOne, Zenon DEF Change
<1>2. PodOK(c', p, pods', reading', dirty')
  BY Zenon DEF PodOK, Change
<1>3. ClaimsKept(c, c', {}) /\ NodesKept(c, c', {}) /\ PodsStay(c, c', Pods \ {p}) /\ Tidy(c')
  BY SelfKept, Zenon DEF Settled
<1> QED BY <1>1, <1>2, <1>3, PodTurn, Zenon


(* Every step of an informer, a reconcile or the disruption queue keeps it. *)
LEMMA ClaimsSettle == ASSUME Counting, ClusterInv, Settled, ~env.lateSeed, ClaimStep PROVE Settled'
<1>0. PICK nc \in NodeClaims : \/ CreateClaim(nc) \/ Seed(nc) \/ DeleteClaim(nc) \/ RemoveClaim(nc)
                               \/ ReadClaim(nc) \/ ApplyClaim(nc) \/ NodeClaimGC(nc)
                               \/ \E p \in PIDs : LaunchClaim(nc, p)
  BY Zenon DEF ClaimStep
<1> DEFINE r == claims[nc]
<1>1. /\ TypeOK /\ c \in Clusters /\ Exact(c) /\ r \in ClaimObj /\ claims \in [NodeClaims -> ClaimObj]
      /\ reading[nc] \in ClaimObj \cup {None} /\ DOMAIN reading = NodeClaims \cup Nodes \cup Pods
  BY DEF ClusterInv, TypeOK
<1>2. Tidy(c) /\ ClaimOK(c, nc, claims, reading, dirty, seeding)
  BY Zenon DEF Settled, ClaimsOK
<1>3. MapsPast /\ PidsUnique /\ ReadsPast
  BY ZenonT(60) DEF ClusterInv
<1>4. c.claimPid[nc] \in {None, Empty, r.pid} /\ c.claimPid[nc] \in PIDs \cup {Empty, None} /\ Empty \notin PIDs /\ None \notin PIDs
  BY <1>1, <1>3, ClusterFields, Kinds, SMTT(60) DEF MapsPast
<1>5. \A o \in ClaimObj : claims' = [claims EXCEPT ![nc] = o] => claims'[nc] = o /\ \A x \in NodeClaims \ {nc} : claims'[x] = claims[x]
  BY <1>1, Zenon
<1>6. ASSUME NEW o \in ClaimObj, claims' = [claims EXCEPT ![nc] = o], o.phase # "absent",
             UNCHANGED <<nodes, pods, reading, c>>, seeding' \in {seeding, seeding \cup {nc}}, Change(nc),
             nc \in seeding' => o.pid = Empty
      PROVE  Settled'
  <2>1. ClaimsQuiet({nc})
    BY <1>5, <1>6, Zenon DEF ClaimsQuiet
  <2>2. claims'[nc].phase # "absent" /\ (nc \in seeding' => claims'[nc].pid = Empty)
    BY <1>5, <1>6, Zenon
  <2> QED BY <1>1, <1>6, <2>1, <2>2, ClaimEvent, ZenonT(60)
<1>7. r.phase = "absent" \/ nc \in seeding => r.pid = Empty
  BY <1>2, Zenon DEF ClaimOK
<1>8. CASE CreateClaim(nc)
  <2> DEFINE o == [r EXCEPT !.phase = "exists"]
  <2>1. o \in ClaimObj /\ o.pid = r.pid /\ o.phase # "absent"
    BY <1>1 DEF ClaimObj
  <2>2. claims' = [claims EXCEPT ![nc] = o] /\ r.phase = "absent"
    BY <1>1, <1>8, SMTT(60) DEF CreateClaim
  <2> HIDE DEF o
  <2> QED BY <1>6, <1>7, <1>8, <2>1, <2>2, ZenonT(60) DEF CreateClaim
<1>9. CASE DeleteClaim(nc)
  <2> DEFINE o == [r EXCEPT !.deleting = TRUE]
  <2>1. o \in ClaimObj /\ o.pid = r.pid /\ o.phase = r.phase
    BY <1>1, ZenonT(60) DEF ClaimObj
  <2>2. claims' = [claims EXCEPT ![nc] = o] /\ r.phase # "absent"
    BY <1>1, <1>9, SMTT(60) DEF DeleteClaim
  <2> HIDE DEF o
  <2> QED BY <1>6, <1>7, <1>9, <2>1, <2>2, ZenonT(60) DEF DeleteClaim
<1>10. CASE RemoveClaim(nc)
  <2> DEFINE o == [r EXCEPT !.phase = "gone"]
  <2>1. o \in ClaimObj /\ o.pid = r.pid /\ o.phase # "absent"
    BY <1>1 DEF ClaimObj
  <2>2. claims' = [claims EXCEPT ![nc] = o]
    BY <1>1, <1>10, SMTT(60) DEF RemoveClaim
  <2> HIDE DEF o
  <2> QED BY <1>6, <1>7, <1>10, <2>1, <2>2, ZenonT(60) DEF RemoveClaim
<1>11. ASSUME NEW p \in PIDs, LaunchClaim(nc, p) PROVE Settled'
  <2> DEFINE o == [r EXCEPT !.pid = p]
  <2>1. o \in ClaimObj /\ o.phase = r.phase
    BY <1>1 DEF ClaimObj
  <2>2. claims' = [claims EXCEPT ![nc] = o] /\ r.phase # "absent" /\ nc \notin seeding
    BY <1>1, <1>11, SMTT(60) DEF LaunchClaim
  <2> HIDE DEF o
  <2> QED BY <1>6, <1>11, <2>1, <2>2, ZenonT(60) DEF LaunchClaim
<1>12. CASE ReadClaim(nc)
  <2>1. /\ UNCHANGED <<claims, nodes, pods, seeding, c>> /\ dirty' = dirty \ {nc}
        /\ reading' = [reading EXCEPT ![nc] = claims[nc]]
    BY <1>12, Zenon DEF ReadClaim, Read
  <2>2. Quiet({nc}) /\ ClaimsQuiet({nc})
    <3>1. Quiet({nc})
      BY <1>1, <2>1, Zenon DEF Quiet
    <3> QED BY <2>1, <3>1, Zenon DEF ClaimsQuiet
  <2>3. reading'[nc] = claims[nc] /\ claims[nc] # None
    <3>1. reading'[nc] = claims[nc]
      BY <1>1, <2>1, Zenon
    <3>2. claims[nc] # None
      BY <1>1, NilAssumption, Zenon
    <3> QED BY <3>1, <3>2, Zenon
  <2>4. c.claimPid[nc] \in PIDs => c.claimPid[nc] = r.pid
    BY <1>4, Zenon
  <2>5. ClaimOK(c', nc, claims', reading', dirty', seeding')
    BY <1>2, <2>1, <2>3, <2>4, Zenon DEF ClaimOK
  <2>6. ClaimsKept(c, c', {}) /\ NodesKept(c, c', {}) /\ PodsKept(c, c') /\ Tidy(c')
    BY <1>2, <2>1, SelfKept, Zenon
  <2>7. ClaimsKept(c, c', {nc})
    BY <2>6, KeptMore, Zenon
  <2> QED BY <1>1, <2>1, <2>2, <2>5, <2>6, <2>7, ClaimTurn, ZenonT(60)
<1>13. CASE Seed(nc)
  <2> DEFINE o == [phase |-> "exists", pid |-> Empty, deleting |-> FALSE]
  <2>1. o \in ClaimObj /\ o.pid = Empty
    BY Zenon DEF ClaimObj
  <2>2. /\ c' = UpdateNodeClaimOp(c, nc, o) /\ UNCHANGED <<claims, nodes, pods, reading>> /\ nc \in seeding
        /\ seeding' = seeding \ {nc}
        /\ dirty' = IF claims[nc].phase = "exists" THEN dirty \cup {nc} ELSE dirty
    BY <1>13, Zenon DEF Seed
  <2> HIDE DEF o
  <2>3. c.claimPid[nc] \in {None, Empty, o.pid} /\ r.pid = Empty
    BY <1>4, <1>7, <2>1, <2>2, Zenon
  <2>4. ClaimUpdated(c, c', nc, o)
    BY <1>1, <2>1, <2>2, <2>3, UpdateClaimIs, ZenonT(60)
  <2>5. \A x \in NodeClaims : x # nc /\ o.pid \in PIDs => c.claimPid[x] # o.pid
    BY <1>4, <2>1, Zenon
  <2>6. Tidy(c') /\ ClaimsKept(c, c', {nc}) /\ NodesKept(c, c', {}) /\ PodsKept(c, c') /\ c'.claimPid[nc] = Empty
    <3>1. Tidy(c') /\ ClaimsKept(c, c', {nc}) /\ NodesKept(c, c', {}) /\ PodsKept(c, c') /\ c'.claimPid[nc] = o.pid
      BY <1>2, <2>1, <2>3, <2>4, <2>5, UpdateClaimTidy, ZenonT(60)
    <3> QED BY <2>1, <3>1, Zenon
  <2>7. Quiet({nc})
    <3>1. dirty' \in {dirty, dirty \cup {nc}, dirty \ {nc}}
      BY <2>2, Zenon
    <3> QED BY <1>1, <2>2, <3>1, QuietOne, Zenon
  <2>8. ClaimsQuiet({nc})
    BY <2>2, Zenon DEF ClaimsQuiet
  <2>9. ClaimOK(c', nc, claims', reading', dirty', seeding')
    <3>1. claims[nc].phase # "exists" => ClaimSynced(c', nc, claims[nc])
      BY <2>6, Zenon DEF ClaimSynced
    <3> QED BY <1>2, <1>4, <2>2, <2>6, <3>1, Zenon DEF ClaimOK
  <2> QED BY <1>1, <2>2, <2>6, <2>7, <2>8, <2>9, ClaimTurn, ZenonT(60)
<1>14. ASSUME c' = cleanupNodeClaim(c, nc), UNCHANGED <<claims, nodes, pods, seeding, dirty>>,
              reading' \in {reading, [reading EXCEPT ![nc] = None]},
              nc \in dirty \/ r.phase # "exists"
       PROVE  Settled'
  <2>1. ClaimCleaned(c, c', nc, c.claimPid[nc])
    BY <1>1, <1>14, CleanupClaimIs, Zenon
  <2>2. Tidy(c') /\ ClaimsKept(c, c', {nc}) /\ NodesKept(c, c', {}) /\ PodsKept(c, c') /\ c'.claimPid[nc] = None
    BY <1>2, <2>1, CleanupClaimTidy, Zenon
  <2>3. Quiet({nc})
    BY <1>1, <1>14, Zenon DEF Quiet
  <2>4. ClaimsQuiet({nc})
    BY <1>14, Zenon DEF ClaimsQuiet
  <2>5. reading'[nc] \in {reading[nc], None}
    BY <1>1, <1>14, Zenon
  <2>6. ClaimOK(c', nc, claims', reading', dirty', seeding')
    <3>1. r.phase # "exists" => ClaimSynced(c', nc, claims[nc])
      BY <2>2, Zenon DEF ClaimSynced
    <3> QED BY <1>2, <1>4, <1>14, <2>2, <2>5, <3>1, ZenonT(60) DEF ClaimOK
  <2> QED BY <1>1, <1>14, <2>2, <2>3, <2>4, <2>6, ClaimTurn, Zenon
<1>15. CASE NodeClaimGC(nc)
  BY <1>14, <1>15, Zenon DEF NodeClaimGC
<1>16. CASE ApplyClaim(nc)
  <2> DEFINE o == reading[nc]
  <2>1. /\ o # None /\ UNCHANGED <<claims, nodes, pods, seeding, dirty>> /\ reading' = [reading EXCEPT ![nc] = None]
        /\ o.phase # "exists" => c' = cleanupNodeClaim(c, nc)
        /\ o.phase = "exists" => c' = UpdateNodeClaimOp(c, nc, o)
    BY <1>16, Zenon DEF ApplyClaim, Done
  <2>2. o \in ClaimObj /\ (nc \notin dirty => o = r) /\ (c.claimPid[nc] \in PIDs => o.pid = c.claimPid[nc])
    BY <1>1, <1>2, <2>1, Zenon DEF ClaimOK
  <2>3. o.pid \in {Empty, r.pid}
    BY <1>3, <2>1, Zenon DEF ReadsPast
  <2>4. CASE o.phase # "exists"
    BY <1>14, <2>1, <2>2, <2>4, ZenonT(60)
  <2>5. CASE o.phase = "exists"
    <3>1. \A x \in NodeClaims : x # nc /\ o.pid \in PIDs => c.claimPid[x] # o.pid
      <4> SUFFICES ASSUME NEW x \in NodeClaims, x # nc, o.pid \in PIDs, c.claimPid[x] = o.pid PROVE FALSE
        BY Zenon
      <4>1. o.pid # Empty /\ o.pid # None
        BY <1>4, Zenon
      <4>2. o.pid = claims[x].pid /\ o.pid = claims[nc].pid
        BY <1>3, <2>3, <4>1, Zenon DEF MapsPast
      <4> QED BY <1>3, <4>1, <4>2, Zenon DEF PidsUnique
    <3>2. c.claimPid[nc] \in {None, Empty, o.pid}
      BY <1>4, <2>2, Zenon
    <3>3. c' = UpdateNodeClaimOp(c, nc, o)
      BY <2>1, <2>5, Zenon
    <3> HIDE DEF o
    <3>4. ClaimUpdated(c, c', nc, o)
      BY <1>1, <2>2, <3>2, <3>3, UpdateClaimIs, ZenonT(60)
    <3>5. /\ Tidy(c') /\ ClaimsKept(c, c', {nc}) /\ NodesKept(c, c', {}) /\ PodsKept(c, c')
          /\ c'.claimPid[nc] = o.pid /\ (o.pid # Empty => c'.nodes[o.pid].claimDeleting = o.deleting)
      BY <1>2, <2>2, <3>1, <3>2, <3>4, UpdateClaimTidy, ZenonT(60)
    <3>6. Quiet({nc}) /\ ClaimsQuiet({nc}) /\ reading'[nc] = None
      <4>1. Quiet({nc})
        BY <1>1, <2>1, Zenon DEF Quiet
      <4>2. reading'[nc] = None
        BY <1>1, <2>1, Zenon
      <4> QED BY <2>1, <4>1, <4>2, Zenon DEF ClaimsQuiet
    <3>7. ClaimSynced(c', nc, o)
      BY <2>5, <3>5, Zenon DEF ClaimSynced
    <3>8. ClaimOK(c', nc, claims', reading', dirty', seeding')
      BY <1>2, <2>1, <2>2, <3>6, <3>7, ZenonT(60) DEF ClaimOK
    <3> QED BY <1>1, <2>1, <3>5, <3>6, <3>8, ClaimTurn, ZenonT(60)
  <2> QED BY <2>4, <2>5, Zenon
<1> QED BY <1>0, <1>8, <1>9, <1>10, <1>11, <1>12, <1>13, <1>15, <1>16, ZenonT(60)


LEMMA NodesSettle == ASSUME Counting, ClusterInv, Settled, NodeStep PROVE Settled'
<1>0. PICK n \in Nodes : \/ JoinNode(n) \/ SetInstanceType(n) \/ RegisterNode(n) \/ InitializeNode(n)
                         \/ DeleteNodeObj(n) \/ RemoveNode(n)
                         \/ ReadNode(n) \/ ApplyNode(n) \/ ApplyNodeFails(n)
                         \/ \E p \in PIDs : SetProviderID(n, p)
  BY Zenon DEF NodeStep
<1> DEFINE r == nodes[n]
<1>1. /\ TypeOK /\ c \in Clusters /\ Exact(c) /\ r \in NodeObj /\ nodes \in [Nodes -> NodeObj] /\ pods \in [Pods -> PodObj]
      /\ reading[n] \in NodeObj \cup {None} /\ DOMAIN reading = NodeClaims \cup Nodes \cup Pods
  BY DEF ClusterInv, TypeOK
<1>2. Tidy(c) /\ NodeOK(c, n, nodes, reading, dirty) /\ PodsOK
  BY Zenon DEF Settled, NodesOK
<1>3. MapsPast /\ PidsUnique /\ ReadsPast
  BY Zenon DEF ClusterInv
<1>4. ASSUME NEW o \in NodeObj, nodes' = [nodes EXCEPT ![n] = o], Change(n),
             UNCHANGED <<claims, pods, seeding, reading, c>>, Unready(o) => Unready(r)
      PROVE  Settled'
  <2>1. nodes'[n] = o /\ NodesQuiet({n})
    BY <1>1, <1>4, Zenon DEF NodesQuiet
  <2> QED BY <1>1, <1>4, <2>1, NodeEvent, Zenon
<1>5. ASSUME NEW o \in NodeObj, SetNodeObj(n, o), Unready(o) => Unready(r)
      PROVE  Settled'
  BY <1>4, <1>5, Zenon DEF SetNodeObj
<1>6. CASE JoinNode(n)
  <2>1. PICK b \in BOOLEAN : nodes' = [nodes EXCEPT ![n] = [NoNode EXCEPT !.exists = TRUE, !.pool = b]]
    BY <1>6, Zenon DEF JoinNode
  <2> DEFINE o == [NoNode EXCEPT !.exists = TRUE, !.pool = b]
  <2>2. o \in NodeObj
    BY Zenon DEF NodeObj, NoNode
  <2>3. nodes' = [nodes EXCEPT ![n] = o] /\ UNCHANGED <<claims, pods, seeding, reading, c>> /\ Change(n) /\ r = NoNode
    BY <1>6, <2>1, ZenonT(60) DEF JoinNode
  <2> HIDE DEF o
  <2> QED BY <1>4, <2>2, <2>3, Zenon DEF Unready
<1>7. /\ \A p \in PIDs : LET o == [r EXCEPT !.pid = p]
                         IN  o \in NodeObj /\ o.exists = r.exists /\ o.pool = r.pool /\ o.typed = r.typed /\ o.init = r.init
      /\ LET o == [r EXCEPT !.typed = TRUE]
         IN  o \in NodeObj /\ o.exists = r.exists /\ o.pid = r.pid /\ o.typed
      /\ LET o == [r EXCEPT !.pool = TRUE, !.typed = TRUE, !.reg = TRUE]
         IN  o \in NodeObj /\ o.exists = r.exists /\ o.pid = r.pid /\ o.typed
      /\ LET o == [r EXCEPT !.init = TRUE]
         IN  o \in NodeObj /\ o.exists = r.exists /\ o.pool = r.pool /\ o.pid = r.pid /\ o.init
      /\ LET o == [r EXCEPT !.deleting = TRUE]
         IN  o \in NodeObj /\ o.exists = r.exists /\ o.pool = r.pool /\ o.pid = r.pid /\ o.typed = r.typed /\ o.init = r.init
      /\ LET o == [r EXCEPT !.exists = FALSE]
         IN  o \in NodeObj /\ o.deleting = r.deleting /\ o.pool = r.pool /\ o.pid = r.pid /\ o.typed = r.typed /\ o.init = r.init
  BY <1>1, ZenonT(60) DEF NodeObj
<1>8. \A o : o.exists \/ o.deleting => o # NoNode
  <2>1. NoNode.exists = FALSE /\ NoNode.deleting = FALSE
    BY DEF NoNode
  <2> QED BY <2>1, ZenonT(60)
<1>9. ASSUME NEW p \in PIDs, SetProviderID(n, p) PROVE Settled'
  <2> DEFINE o == [r EXCEPT !.pid = p]
  <2>1. SetNodeObj(n, o) /\ r.pid = Empty /\ r.exists
    BY <1>9, Zenon DEF SetProviderID
  <2>2. o \in NodeObj /\ o.exists = r.exists /\ o.pool = r.pool
    BY <1>7, Zenon
  <2> HIDE DEF o
  <2>3. Unready(o) => Unready(r)
    BY <1>8, <2>1, <2>2, Zenon DEF Unready, Ignored
  <2> QED BY <1>5, <2>1, <2>2, <2>3, ZenonT(60)
<1>10. CASE SetInstanceType(n)
  <2> DEFINE o == [r EXCEPT !.typed = TRUE]
  <2>1. SetNodeObj(n, o) /\ r.pid # Empty /\ r.exists
    BY <1>10, Zenon DEF SetInstanceType
  <2>2. o \in NodeObj /\ o.exists = r.exists /\ o.pid = r.pid /\ o.typed
    BY <1>7, Zenon
  <2> HIDE DEF o
  <2>3. Unready(o) => Unready(r)
    BY <1>8, <2>1, <2>2, ZenonT(60) DEF Unready, Ignored
  <2> QED BY <1>5, <2>1, <2>2, <2>3, ZenonT(60)
<1>11. CASE RegisterNode(n)
  <2> DEFINE o == [r EXCEPT !.pool = TRUE, !.typed = TRUE, !.reg = TRUE]
  <2>1. SetNodeObj(n, o) /\ r.pid # Empty /\ r.exists
    BY <1>11, Zenon DEF RegisterNode
  <2>2. o \in NodeObj /\ o.exists = r.exists /\ o.pid = r.pid /\ o.typed
    BY <1>7, ZenonT(60)
  <2> HIDE DEF o
  <2>3. Unready(o) => Unready(r)
    BY <1>8, <2>1, <2>2, Zenon DEF Unready, Ignored
  <2> QED BY <1>5, <2>1, <2>2, <2>3, Zenon
<1>12. CASE InitializeNode(n)
  <2> DEFINE o == [r EXCEPT !.init = TRUE]
  <2>1. SetNodeObj(n, o) /\ r.exists
    BY <1>12, Zenon DEF InitializeNode
  <2>2. o \in NodeObj /\ o.exists = r.exists /\ o.pool = r.pool /\ o.pid = r.pid /\ o.init
    BY <1>7, Zenon
  <2> HIDE DEF o
  <2>3. Unready(o) => Unready(r)
    BY <1>8, <2>1, <2>2, Zenon DEF Unready, Ignored
  <2> QED BY <1>5, <2>1, <2>2, <2>3, ZenonT(60)
<1>13. CASE DeleteNodeObj(n)
  <2> DEFINE o == [r EXCEPT !.deleting = TRUE]
  <2>1. SetNodeObj(n, o) /\ r.exists
    BY <1>13, Zenon DEF DeleteNodeObj
  <2>2. o \in NodeObj /\ o.exists = r.exists /\ o.pool = r.pool /\ o.pid = r.pid /\ o.typed = r.typed /\ o.init = r.init
    BY <1>7, Zenon
  <2> HIDE DEF o
  <2>3. Unready(o) => Unready(r)
    BY <1>8, <2>1, <2>2, Zenon DEF Unready, Ignored
  <2> QED BY <1>5, <2>1, <2>2, <2>3, ZenonT(60)
<1>14. CASE RemoveNode(n)
  <2> DEFINE o == [r EXCEPT !.exists = FALSE]
  <2>1. SetNodeObj(n, o) /\ r.deleting
    BY <1>14, Zenon DEF RemoveNode
  <2>2. o \in NodeObj /\ o.deleting = r.deleting /\ o.pool = r.pool /\ o.pid = r.pid /\ o.typed = r.typed /\ o.init = r.init
    BY <1>7, Zenon
  <2> HIDE DEF o
  <2>3. Unready(o) => Unready(r)
    BY <1>8, <2>1, <2>2, Zenon DEF Unready, Ignored
  <2> QED BY <1>5, <2>1, <2>2, <2>3, ZenonT(60)
<1>15. CASE ReadNode(n)
  <2>1. /\ UNCHANGED <<claims, nodes, pods, seeding, c>> /\ dirty' = dirty \ {n}
        /\ reading' = [reading EXCEPT ![n] = nodes[n]]
    BY <1>15, Zenon DEF ReadNode, Read
  <2>2. Quiet({n})
    BY <1>1, <2>1, Zenon DEF Quiet
  <2>3. reading'[n] = nodes[n] /\ nodes[n] # None
    <3>1. reading'[n] = nodes[n]
      BY <1>1, <2>1, Zenon
    <3>2. nodes[n] # None
      BY <1>1, NilAssumption, Zenon
    <3> QED BY <3>1, <3>2, Zenon
  <2>4. Unready(r) => Unapplied(r)
    BY <1>8, Zenon DEF Unready, Unapplied
  <2>5. NodeOK(c', n, nodes', reading', dirty')
    BY <1>2, <2>1, <2>3, <2>4, ZenonT(60) DEF NodeOK
  <2>6. ClaimsKept(c, c', {}) /\ NodesKept(c, c', {}) /\ Tidy(c')
    BY <1>2, <2>1, SelfKept, Zenon
  <2>7. NodesKept(c, c', {n})
    BY <2>6, KeptMore, Zenon
  <2>8. (\A p \in Pods : PodSafe(p)) /\ NodesQuiet({n})
    BY <2>1, Zenon DEF PodSafe, NodesQuiet
  <2> QED BY <1>1, <2>1, <2>2, <2>5, <2>6, <2>7, <2>8, NodeTurn, ZenonT(60)
<1>16. \A p \in Pods : PodOK(c, p, pods, reading, dirty) /\ pods[p] \in PodObj
  BY <1>1, <1>2, Zenon DEF PodsOK
<1>17. \A p \in Pods : pods[p].exists => pods[p].node \in Nodes
  BY <1>16, Zenon DEF PodOK, PodObj
<1>18. CASE ApplyNode(n)
  <2> DEFINE o == reading[n]
  <2>1. /\ o # None /\ UNCHANGED <<claims, nodes, pods, seeding, dirty>> /\ reading' = [reading EXCEPT ![n] = None]
        /\ ~o.exists => c' = cleanupNode(c, n)
        /\ o.exists => c' = UpdateNodeOp(c, n, o)
    BY <1>18, Zenon DEF ApplyNode, Done
  <2>2. o \in NodeObj /\ (n \notin dirty => o = r) /\ (Unready(r) => c.nodePid[n] = None /\ Unapplied(o))
    BY <1>1, <1>2, <2>1, Zenon DEF NodeOK
  <2>3. o.pid \in {Empty, r.pid}
    BY <1>3, <2>1, Zenon DEF ReadsPast
  <2>4. Quiet({n}) /\ NodesQuiet({n}) /\ reading'[n] = None
    <3>1. Quiet({n})
      BY <1>1, <2>1, Zenon DEF Quiet
    <3>2. reading'[n] = None
      BY <1>1, <2>1, Zenon
    <3> QED BY <2>1, <3>1, <3>2, Zenon DEF NodesQuiet
  <2>5. CASE ~o.exists
    <3>1. c' = cleanupNode(c, n)
      BY <2>1, <2>5, Zenon
    <3>2. NodeCleaned(c, c', n, c.nodePid[n])
      BY <1>1, <3>1, CleanupNodeIs, Zenon
    <3>3. Tidy(c') /\ ClaimsKept(c, c', {}) /\ NodesKept(c, c', {n}) /\ PodsKept(c, c') /\ c'.nodePid[n] = None
      BY <1>2, <3>2, CleanupNodeTidy, Zenon
    <3>4. \A p \in Pods : PodSafe(p)
      <4>1. c' \in Clusters
        BY <3>3, Zenon DEF Tidy
      <4> QED BY <1>1, <1>2, <3>3, <4>1, PodsAreSafe, ZenonT(60) DEF PodsKept
    <3>5. NodeOK(c', n, nodes', reading', dirty')
      <4>1. n \notin dirty => NodeSynced(c', n, nodes[n])
        BY <2>2, <2>5, <3>3, Zenon DEF NodeSynced
      <4> QED BY <2>1, <2>4, <3>3, <4>1, ZenonT(60) DEF NodeOK
    <3> QED BY <1>1, <2>1, <2>4, <3>3, <3>4, <3>5, NodeTurn, ZenonT(60)
  <2>6. CASE o.exists /\ Ignored(o)
    <3>1. c' = c
      BY <2>1, <2>6, Zenon DEF UpdateNodeOp
    <3>2. Tidy(c') /\ ClaimsKept(c, c', {}) /\ NodesKept(c, c', {})
      BY <1>2, <3>1, SelfKept, Zenon
    <3>3. NodesKept(c, c', {n})
      BY <3>2, KeptMore, Zenon
    <3>4. \A p \in Pods : PodSafe(p)
      BY <2>1, <3>1, Zenon DEF PodSafe
    <3>5. NodeOK(c', n, nodes', reading', dirty')
      <4>1. n \notin dirty => NodeSynced(c', n, nodes[n])
        BY <2>2, <2>6, <3>1, Zenon DEF NodeSynced, Unready
      <4> QED BY <2>1, <2>2, <2>4, <3>1, <4>1, ZenonT(60) DEF NodeOK
    <3> QED BY <1>1, <2>1, <2>4, <3>2, <3>3, <3>4, <3>5, NodeTurn, ZenonT(60)
  <2>7. CASE o.exists /\ ~Ignored(o)
    <3> DEFINE id == NodeKey(n, o)
               P == BoundTo(n)
    <3>1. id \in {n, r.pid} /\ id # Empty /\ id # None
      BY <2>2, <2>3, Kinds, ZenonT(60) DEF NodeKey, NodeObj
    <3>2. \A m \in Nodes : m # n => c.nodePid[m] # id
      <4> SUFFICES ASSUME NEW m \in Nodes, m # n, c.nodePid[m] = id PROVE FALSE
        BY ZenonT(60)
      <4>1. id \in {m, nodes[m].pid}
        BY <1>3, <3>1, ZenonT(60) DEF MapsPast
      <4>2. nodes[m].pid \in PIDs \cup {Empty} /\ nodes[n].pid \in PIDs \cup {Empty}
        BY <1>1, SMTT(60) DEF NodeObj
      <4> QED BY <1>3, <3>1, <4>1, <4>2, Kinds, SMTT(60) DEF PidsUnique
    <3>3. c' = UpdateNodeOp(c, n, o)
      BY <2>1, <2>7, Zenon
    <3>4. o \in NodeObj /\ ~Ignored(o)
      BY <2>2, <2>7, Zenon
    <3>5. \A p \in Pods : p \in P <=> pods[p].exists /\ ~pods[p].terminal /\ pods[p].node = n
      BY Zenon DEF BoundTo
    <3> HIDE DEF o, id, P
    <3>6. NodeApplied(c, c', n, o, id, P)
      BY <1>2, <3>2, <3>3, <3>4, UpdateNodeTidy, ZenonT(60) DEF id, P
    <3>7. \A p \in Pods : PodSafe(p)
      <4> SUFFICES ASSUME NEW p \in Pods, PodSynced(c, p, pods[p]) PROVE PodSynced(c', p, pods[p])
        BY Zenon DEF PodSafe
      <4>1. CASE p \in P
        <5>1. c'.bindings[p] = n /\ c'.nodePid[n] = id /\ c'.nodes[id].pods = P
          BY <3>6, <4>1, Zenon DEF NodeApplied
        <5>2. pods[p].exists /\ ~pods[p].terminal /\ pods[p].node = n
          BY <3>5, <4>1, Zenon
        <5> QED BY <4>1, <5>1, <5>2, Zenon DEF PodSynced
      <4>2. CASE p \notin P
        <5>1. c'.bindings[p] = c.bindings[p] /\ \A m \in Nodes : m # n => PodKept(c, c', p, m)
          BY <3>6, <4>2, Zenon DEF NodeApplied
        <5>2. \A m \in Nodes : pods[p].exists /\ ~pods[p].terminal /\ pods[p].node = m => PodKept(c, c', p, m)
          BY <3>5, <4>2, <5>1, Zenon
        <5>3. pods[p] \in PodObj /\ (pods[p].exists => pods[p].node \in Nodes)
          BY <1>16, <1>17, Zenon
        <5> QED BY <5>1, <5>2, <5>3, PodKeptSynced, ZenonT(60)
      <4> QED BY <4>1, <4>2, Zenon
    <3>8. /\ Tidy(c') /\ ClaimsKept(c, c', {}) /\ NodesKept(c, c', {n})
          /\ c'.nodePid[n] = id /\ c'.nodes[id].obj = o
      BY <3>6, Zenon DEF NodeApplied
    <3>9. NodeOK(c', n, nodes', reading', dirty')
      <4>1. NodeSynced(c', n, o)
        BY <2>7, <3>8, Zenon DEF NodeSynced, id
      <4>2. ~Unready(r)
        BY <2>2, <2>7, Zenon DEF Unapplied
      <4> QED BY <2>1, <2>2, <2>4, <4>1, <4>2, ZenonT(60) DEF NodeOK
    <3> QED BY <1>1, <2>1, <2>4, <3>7, <3>8, <3>9, NodeTurn, ZenonT(60)
  <2> QED BY <2>5, <2>6, <2>7, Zenon
<1>19. CASE ApplyNodeFails(n)
  <2>1. PICK P \in SUBSET BoundTo(n) : c' = Bind(c, P, n)
    BY <1>19, Zenon DEF ApplyNodeFails
  <2>2. /\ UNCHANGED <<claims, nodes, pods, seeding>> /\ dirty' = dirty \cup {n}
        /\ reading' = [reading EXCEPT ![n] = None]
    BY <1>19, Zenon DEF ApplyNodeFails, Done, Change
  <2>3. P \in SUBSET Pods /\ \A p \in P : pods[p].exists /\ ~pods[p].terminal /\ pods[p].node = n
    BY <2>1, Zenon DEF BoundTo
  <2>4. Bound(c, c', P, n)
    BY <1>1, <2>1, <2>3, BindIs, ZenonT(60)
  <2>5. /\ Tidy(c') /\ ClaimsKept(c, c', {}) /\ NodesKept(c, c', {})
        /\ PodsStay(c, c', {p \in Pods : p \notin P \/ c.bindings[p] = n})
    BY <1>2, <2>3, <2>4, BindTidy, ZenonT(60)
  <2>6. NodesKept(c, c', {n})
    BY <2>5, KeptMore, Zenon
  <2>7. Quiet({n}) /\ NodesQuiet({n}) /\ reading'[n] = None
    <3>1. Quiet({n})
      BY <1>1, <2>2, Zenon DEF Quiet
    <3>2. reading'[n] = None
      BY <1>1, <2>2, Zenon
    <3> QED BY <2>2, <3>1, <3>2, Zenon DEF NodesQuiet
  <2>8. \A p \in Pods : PodSafe(p)
    <3> SUFFICES ASSUME NEW p \in Pods, PodSynced(c, p, pods[p]) PROVE PodSafe(p)
      BY Zenon DEF PodSafe
    <3>1. p \notin P \/ c.bindings[p] = n
      BY <2>3, Zenon DEF PodSynced
    <3>2. \A m \in Nodes : PodKept(c, c', p, m)
      BY <2>5, <3>1, Zenon DEF PodsStay
    <3>3. c' \in Clusters
      BY <2>5, Zenon DEF Tidy
    <3> QED BY <1>1, <1>2, <3>2, <3>3, PodsAreSafe, ZenonT(60)
  <2>9. NodeOK(c', n, nodes', reading', dirty')
    <3>1. c'.nodePid[n] = c.nodePid[n]
      BY <2>5, Zenon DEF NodesKept, NodeKept
    <3> QED BY <1>2, <2>2, <2>7, <3>1, ZenonT(60) DEF NodeOK
  <2> QED BY <1>1, <2>2, <2>5, <2>6, <2>7, <2>8, <2>9, NodeTurn, ZenonT(60)
<1> QED BY <1>0, <1>6, <1>9, <1>10, <1>11, <1>12, <1>13, <1>14, <1>15, <1>18, <1>19, ZenonT(60)


LEMMA PodsSettle == ASSUME ClusterInv, Settled, PodStep PROVE Settled'
<1>0. PICK p \in Pods : \/ FinishPod(p) \/ RemovePod(p) \/ ReadPod(p) \/ ApplyPod(p)
                        \/ \E n \in Nodes : BindPod(p, n)
  BY Zenon DEF PodStep
<1> DEFINE r == pods[p]
<1>1. /\ TypeOK /\ c \in Clusters /\ Exact(c) /\ r \in PodObj /\ pods \in [Pods -> PodObj]
      /\ reading[p] \in PodObj \cup {None} /\ DOMAIN reading = NodeClaims \cup Nodes \cup Pods
  BY DEF ClusterInv, TypeOK
<1>2. Tidy(c) /\ PodOK(c, p, pods, reading, dirty)
  BY Zenon DEF Settled, PodsOK
<1>3. ASSUME NEW o \in PodObj, SetPod(p, o), o.exists => o.node # None PROVE Settled'
  <2>1. pods'[p] = o /\ PodsQuiet({p})
    BY <1>1, <1>3, Zenon DEF SetPod, PodsQuiet
  <2> QED BY <1>1, <1>3, <2>1, PodEvent, Zenon DEF SetPod
<1>4. CASE FinishPod(p)
  <2> DEFINE o == [pods[p] EXCEPT !.terminal = TRUE]
  <2>1. o \in PodObj /\ o.exists = r.exists /\ o.node = r.node
    BY <1>1, ZenonT(60) DEF PodObj
  <2>2. SetPod(p, o)
    BY <1>4, Zenon DEF FinishPod
  <2> HIDE DEF o
  <2> QED BY <1>2, <1>3, <2>1, <2>2, Zenon DEF PodOK
<1>5. CASE RemovePod(p)
  <2> DEFINE o == [exists |-> FALSE, node |-> None, terminal |-> FALSE]
  <2>1. o \in PodObj /\ ~o.exists
    BY Zenon DEF PodObj
  <2>2. SetPod(p, o)
    BY <1>5, Zenon DEF RemovePod
  <2> HIDE DEF o
  <2> QED BY <1>3, <2>1, <2>2, Zenon
<1>6. ASSUME NEW n \in Nodes, BindPod(p, n) PROVE Settled'
  <2> DEFINE o == [exists |-> TRUE, node |-> n, terminal |-> FALSE]
  <2>1. o \in PodObj /\ o.node = n /\ n # None
    BY Kinds, Zenon DEF PodObj
  <2>2. SetPod(p, o)
    BY <1>6, Zenon DEF BindPod
  <2> HIDE DEF o
  <2> QED BY <1>3, <2>1, <2>2, Zenon
<1>7. CASE ReadPod(p)
  <2>1. /\ UNCHANGED <<claims, nodes, pods, seeding, c>> /\ dirty' = dirty \ {p}
        /\ reading' = [reading EXCEPT ![p] = pods[p]]
    BY <1>7, Zenon DEF ReadPod, Read
  <2>2. Quiet({p}) /\ PodsQuiet({p})
    <3>1. Quiet({p})
      BY <1>1, <2>1, Zenon DEF Quiet
    <3> QED BY <2>1, <3>1, Zenon DEF PodsQuiet
  <2>3. reading'[p] = pods[p] /\ pods[p] # None
    <3>1. reading'[p] = pods[p]
      BY <1>1, <2>1, Zenon
    <3>2. pods[p] # None
      BY <1>1, NilAssumption, Zenon
    <3> QED BY <3>1, <3>2, Zenon
  <2>4. PodOK(c', p, pods', reading', dirty')
    BY <1>2, <2>1, <2>3, Zenon DEF PodOK
  <2>5. ClaimsKept(c, c', {}) /\ NodesKept(c, c', {}) /\ PodsStay(c, c', Pods \ {p}) /\ Tidy(c')
    BY <1>2, <2>1, SelfKept, Zenon
  <2> QED BY <1>1, <2>1, <2>2, <2>4, <2>5, PodTurn, ZenonT(60)
<1>8. CASE ApplyPod(p)
  <2> DEFINE o == reading[p]
  <2>1. /\ o # None /\ UNCHANGED <<claims, nodes, pods, seeding>> /\ reading' = [reading EXCEPT ![p] = None]
        /\ dirty' = IF Unknown(c, o) THEN dirty \cup {p} ELSE dirty
        /\ o.exists => c' = UpdatePodOp(c, p, o)
        /\ ~o.exists => c' = DeletePodOp(c, p)
    BY <1>8, Zenon DEF ApplyPod, Done
  <2>2. o \in PodObj /\ (p \notin dirty => o = r) /\ (r.exists => r.node # None)
    BY <1>1, <1>2, <2>1, Zenon DEF PodOK
  <2>3. Quiet({p}) /\ PodsQuiet({p}) /\ reading'[p] = None
    <3>1. dirty' \in {dirty, dirty \cup {p}}
      BY <2>1, Zenon
    <3>2. Quiet({p})
      BY <1>1, <2>1, <3>1, Zenon DEF Quiet
    <3>3. reading'[p] = None
      BY <1>1, <2>1, Zenon
    <3> QED BY <2>1, <3>2, <3>3, Zenon DEF PodsQuiet
  <2>4. dirty \subseteq dirty' /\ (Unknown(c, o) => p \in dirty')
    BY <2>1, Zenon
  <2>5. ASSUME PodOnly(c, c', p), PodSynced(c', p, o) PROVE Settled'
    <3>1. Tidy(c') /\ ClaimsKept(c, c', {}) /\ NodesKept(c, c', {}) /\ PodsStay(c, c', Pods \ {p})
      BY <1>2, <2>5, PodTidy, Zenon
    <3>2. PodOK(c', p, pods', reading', dirty')
      BY <2>1, <2>2, <2>3, <2>4, <2>5, ZenonT(60) DEF PodOK
    <3> QED BY <1>1, <2>1, <2>3, <3>1, <3>2, PodTurn, ZenonT(60)
  <2>6. CASE ~o.exists \/ o.terminal
    <3>1. c' = ForgetPod(c, p) \/ c' = DeletePodOp(c, p)
      BY <2>1, <2>6, Zenon DEF UpdatePodOp
    <3>2. PodOnly(c, c', p) /\ c'.bindings[p] = None
      BY <1>2, <3>1, ForgetPodOnly, ZenonT(60)
    <3> QED BY <2>5, <2>6, <3>2, Zenon DEF PodSynced
  <2>7. CASE o.exists /\ ~o.terminal /\ (o.node = None \/ Unknown(c, o))
    <3>1. c' = c
      BY <2>1, <2>7, Zenon DEF UpdatePodOp
    <3>2. Tidy(c') /\ ClaimsKept(c, c', {}) /\ NodesKept(c, c', {}) /\ PodsStay(c, c', Pods \ {p})
      BY <1>2, <3>1, SelfKept, Zenon
    <3>3. p \in dirty'
      BY <2>2, <2>4, <2>7, Zenon
    <3>4. PodOK(c', p, pods', reading', dirty')
      BY <2>1, <2>2, <2>3, <3>3, ZenonT(60) DEF PodOK
    <3> QED BY <1>1, <2>1, <2>3, <3>2, <3>4, PodTurn, Zenon
  <2>8. CASE o.exists /\ ~o.terminal /\ ~(o.node = None \/ Unknown(c, o))
    <3>1. o.node \in Nodes
      BY <2>2, <2>8, Zenon DEF PodObj
    <3>2. PICK n \in Nodes : n = o.node
      BY <3>1, Zenon
    <3>3. c.nodePid[n] # None /\ o \in PodObj /\ o.exists /\ ~o.terminal /\ c' = UpdatePodOp(c, p, o)
      BY <2>1, <2>2, <2>8, <3>2, ZenonT(60) DEF Unknown
    <3> HIDE DEF o
    <3>4. PodOnly(c, c', p) /\ c'.bindings[p] = n /\ p \in c'.nodes[c.nodePid[n]].pods
      <4>1. Tidy(c)
        BY <1>2
      <4> QED BY <3>2, <3>3, <4>1, UpdatePodOnly, SMTT(60)
    <3>5. c'.nodePid = c.nodePid
      BY <3>4, Zenon DEF PodOnly
    <3>6. PodSynced(c', p, o)
      BY <3>2, <3>3, <3>4, <3>5, ZenonT(60) DEF PodSynced
    <3> QED BY <2>5, <3>4, <3>6, Zenon
  <2> QED BY <2>6, <2>7, <2>8, Zenon
<1> QED BY <1>0, <1>4, <1>5, <1>6, <1>7, <1>8, ZenonT(60)

LEMMA MarksSettle == ASSUME Counting, ClusterInv, Settled, MarkStep PROVE Settled'
<1>1. TypeOK /\ c \in Clusters /\ Exact(c) /\ Tidy(c) /\ PodsOK
  BY DEF ClusterInv, TypeOK, Settled
<1>2. UNCHANGED <<claims, nodes, pods, seeding, dirty, reading>>
  BY DEF MarkStep, MarkForDeletion, UnmarkForDeletion, Consolidate, ConsolidationExpires
<1>3. Tidy(c') /\ ClaimsKept(c, c', {}) /\ NodesKept(c, c', {}) /\ PodsKept(c, c')
  <2>1. ASSUME NEW k \in Keys, MarkForDeletion(k) \/ UnmarkForDeletion(k)
        PROVE  Tidy(c') /\ ClaimsKept(c, c', {}) /\ NodesKept(c, c', {}) /\ PodsKept(c, c')
    <3>1. c' \in {MarkOp(c, k), UnmarkOp(c, k)}
      BY <2>1, Zenon DEF MarkForDeletion, UnmarkForDeletion
    <3> QED BY <1>1, <3>1, MarkTidy, Zenon
  <2>2. ASSUME Consolidate \/ ConsolidationExpires
        PROVE  Tidy(c') /\ ClaimsKept(c, c', {}) /\ NodesKept(c, c', {}) /\ PodsKept(c, c')
    <3>1. PICK b \in BOOLEAN : c' = [c EXCEPT !.consolidated = b]
      BY <2>2, Zenon DEF Consolidate, ConsolidationExpires, MarkUnconsolidated
    <3>2. /\ c' \in Clusters /\ c'.nodes = c.nodes /\ c'.count = c.count /\ c'.cpu = c.cpu
          /\ c'.claimPid = c.claimPid /\ c'.nps = c.nps /\ Beside(c, c')
      BY <1>1, <3>1, Zenon DEF Clusters, Beside
    <3>3. SameBeside(c, c') /\ SameClaimSide(c, c')
      BY <3>2, Zenon DEF SameBeside, SameClaimSide
    <3>4. /\ NodesKept(c, c', {}) /\ PodsKept(c, c') /\ NodesResolve(c') /\ PodsFiled(c')
          /\ \A k \in Keys : c'.nodes[k].node # None => c'.nodePid[c'.nodes[k].node] = k
      BY <1>1, <3>3, BesideKept, Zenon
    <3>5. /\ ClaimsKept(c, c', {}) /\ ClaimsResolve(c') /\ Filed(c')
          /\ \A k \in Keys : c'.nodes[k].claim # None => c'.claimPid[c'.nodes[k].claim] = k
      BY <1>1, <3>3, ClaimSideKept, Zenon
    <3>6. Exact(c')
      BY <1>1, <3>2, Zenon DEF Exact
    <3> QED BY <3>2, <3>4, <3>5, <3>6, ZenonT(60) DEF Tidy, Linked
  <2> QED BY <2>1, <2>2, Zenon DEF MarkStep
<1>4. Quiet({}) /\ ClaimsQuiet({}) /\ NodesQuiet({}) /\ PodsQuiet({})
  BY <1>2, Zenon DEF Quiet, ClaimsQuiet, NodesQuiet, PodsQuiet
<1>5. \A p \in Pods : PodSafe(p)
  <2>1. c' \in Clusters
    BY <1>3, Zenon DEF Tidy
  <2> QED BY <1>1, <1>3, <2>1, PodsAreSafe, Zenon DEF PodsKept
<1> QED BY <1>1, <1>3, <1>4, <1>5, SettledStep, ZenonT(60)


LEMMA InitSettled == ASSUME Counting PROVE Init => Settled
<1> SUFFICES ASSUME Init PROVE Settled
  BY Zenon
<1>1. ClusterInv
  BY InitInv, Zenon
<1>2. c \in Clusters /\ Exact(c) /\ ClaimsResolve(c) /\ NodesResolve(c)
  BY <1>1, Resolve, Zenon DEF ClusterInv, TypeOK
<1>3. c = NewCluster
  BY Zenon DEF Init
<1>4. \A k \in Keys : c.nodes[k].claim = None /\ c.nodes[k].node = None
  <2>1. NewNode.claim = None /\ NewNode.node = None
    BY Zenon DEF NewNode
  <2>2. c.nodes = [k \in Keys |-> NewNode]
    BY <1>3, Zenon DEF NewCluster
  <2> QED BY <2>1, <2>2, Zenon
<1>5. /\ \A nc \in NodeClaims : c.claimPid[nc] = None
      /\ \A n \in Nodes : c.nodePid[n] = None
      /\ \A p \in Pods : c.bindings[p] = None
  BY <1>3, Zenon DEF NewCluster
<1>6. Filed(c)
  <2>1. c.nps = NewNodePoolState /\ Pool \in NodePools
    BY <1>3, ClusterStateAssumption, Zenon DEF NewCluster
  <2>2. c.nps.claims[Pool] = EmptyClaims /\ \A nc \in NodeClaims : c.nps.poolOf[nc] = NoPool
    <3>1. c.nps.claims = [np \in NodePools |-> EmptyClaims] /\ c.nps.poolOf = [nc \in NodeClaims |-> NoPool]
      BY <2>1, SMTT(60) DEF NewNodePoolState
    <3> QED BY <2>1, <3>1, ZenonT(60)
  <2>3. EmptyClaims.active = {} /\ EmptyClaims.deleting = {} /\ EmptyClaims.pendingDisruption = {}
    BY Zenon DEF EmptyClaims
  <2>4. None \notin PIDs
    BY Kinds, Zenon
  <2> QED BY <1>5, <2>2, <2>3, <2>4, Zenon DEF Filed, Entry
<1>7. Linked(c) /\ PodsFiled(c)
  BY <1>4, Zenon DEF Linked, PodsFiled
<1>8. \A k \in NodeClaims \cup Nodes \cup Pods : reading[k] = None
  BY Zenon DEF Init
<1>9. ClaimsOK
  <2> SUFFICES ASSUME NEW nc \in NodeClaims PROVE ClaimOK(c, nc, claims, reading, dirty, seeding)
    BY Zenon DEF ClaimsOK
  <2>1. claims[nc].phase = "absent" /\ claims[nc].pid = Empty
    BY Zenon DEF Init
  <2>2. ClaimSynced(c, nc, claims[nc])
    BY <1>5, <2>1 DEF ClaimSynced
  <2> QED BY <1>8, <2>1, <2>2, Zenon DEF ClaimOK
<1>10. NodesOK
  <2> SUFFICES ASSUME NEW n \in Nodes PROVE NodeOK(c, n, nodes, reading, dirty)
    BY Zenon DEF NodesOK
  <2>1. nodes[n].exists = FALSE
    BY Zenon DEF Init, NoNode
  <2>2. NodeSynced(c, n, nodes[n])
    BY <1>5, <2>1, Zenon DEF NodeSynced
  <2> QED BY <1>5, <1>8, <2>2, Zenon DEF NodeOK
<1>11. PodsOK
  <2> SUFFICES ASSUME NEW p \in Pods PROVE PodOK(c, p, pods, reading, dirty)
    BY Zenon DEF PodsOK
  <2>1. pods[p].exists = FALSE
    BY Zenon DEF Init
  <2>2. PodSynced(c, p, pods[p])
    BY <1>5, <2>1, Zenon DEF PodSynced
  <2> QED BY <1>8, <2>1, <2>2, Zenon DEF PodOK
<1> QED BY <1>2, <1>6, <1>7, <1>9, <1>10, <1>11, ZenonT(60) DEF Settled, Tidy

LEMMA EnvKept == ASSUME env \in Envs, Next PROVE env' \in Envs /\ env'.lateSeed = env.lateSeed
<1>1. \A e \in Envs : /\ [e EXCEPT !.creates = @ - 1] \in Envs /\ [e EXCEPT !.creates = @ - 1].lateSeed = e.lateSeed
                      /\ [e EXCEPT !.joins = @ - 1] \in Envs /\ [e EXCEPT !.joins = @ - 1].lateSeed = e.lateSeed
                      /\ [e EXCEPT !.binds = @ - 1] \in Envs /\ [e EXCEPT !.binds = @ - 1].lateSeed = e.lateSeed
                      /\ [e EXCEPT !.marks = @ - 1] \in Envs /\ [e EXCEPT !.marks = @ - 1].lateSeed = e.lateSeed
                      /\ [e EXCEPT !.errors = @ - 1] \in Envs /\ [e EXCEPT !.errors = @ - 1].lateSeed = e.lateSeed
                      /\ [e EXCEPT !.passes = @ - 1] \in Envs /\ [e EXCEPT !.passes = @ - 1].lateSeed = e.lateSeed
  BY SMTT(60) DEF Envs
<1>2. \/ env' = env
      \/ env' = [env EXCEPT !.creates = @ - 1]
      \/ env' = [env EXCEPT !.joins = @ - 1]
      \/ env' = [env EXCEPT !.binds = @ - 1]
      \/ env' = [env EXCEPT !.marks = @ - 1]
      \/ env' = [env EXCEPT !.errors = @ - 1]
      \/ env' = [env EXCEPT !.passes = @ - 1]
  <2>1. CASE ClaimStep
    BY <2>1, ZenonT(60) DEF ClaimStep, CreateClaim, Seed, DeleteClaim, RemoveClaim, ReadClaim, Read, ApplyClaim, NodeClaimGC, LaunchClaim
  <2>2. CASE NodeStep
    BY <2>2, ZenonT(60) DEF NodeStep, JoinNode, SetInstanceType, RegisterNode, InitializeNode, DeleteNodeObj, RemoveNode,
                            ReadNode, Read, ApplyNode, ApplyNodeFails, SetProviderID, SetNodeObj
  <2>3. CASE PodStep
    BY <2>3, ZenonT(60) DEF PodStep, FinishPod, RemovePod, ReadPod, Read, ApplyPod, BindPod
  <2>4. CASE MarkStep
    BY <2>4, ZenonT(60) DEF MarkStep, MarkForDeletion, UnmarkForDeletion, Consolidate, ConsolidationExpires
  <2> QED BY <2>1, <2>2, <2>3, <2>4, ZenonT(60) DEF Next
<1> QED BY <1>1, <1>2, Zenon

LEMMA StepConverged == ASSUME Counting PROVE ConvergedInv /\ [Next]_vars => ConvergedInv'
<1> SUFFICES ASSUME ConvergedInv, [Next]_vars PROVE ConvergedInv'
  BY Zenon
<1>1. ClusterInv'
  BY StepInv, Zenon DEF ConvergedInv
<1>2. CASE UNCHANGED vars
  <2>1. UNCHANGED <<claims, nodes, pods, seeding, dirty, reading, c, env>>
    BY <1>2, Zenon DEF vars
  <2>2. ~env.lateSeed => Settled'
    BY <2>1, Zenon DEF ConvergedInv, Settled, ClaimsOK, NodesOK, PodsOK
  <2> QED BY <1>1, <2>1, <2>2, Zenon DEF ConvergedInv
<1>3. CASE Next
  <2>1. env' \in Envs /\ env'.lateSeed = env.lateSeed
    BY <1>3, EnvKept, Zenon DEF ConvergedInv
  <2>2. ASSUME ~env.lateSeed PROVE Settled'
    <3>1. ClusterInv /\ Settled
      BY <2>2, Zenon DEF ConvergedInv
    <3> QED BY <1>3, <2>2, <3>1, ClaimsSettle, NodesSettle, PodsSettle, MarksSettle, ZenonT(60) DEF Next
  <2> QED BY <1>1, <2>1, <2>2, Zenon DEF ConvergedInv
<1> QED BY <1>2, <1>3, Zenon


LEMMA SettledConverges == ASSUME ClusterInv, Settled PROVE Converged
<1> SUFFICES ASSUME CaughtUp
             PROVE  /\ \A nc \in NodeClaims : Live(nc) /\ claims[nc].pid # Empty =>
                          LET s == c.nodes[claims[nc].pid] IN s.claim = nc /\ s.claimDeleting = claims[nc].deleting
                    /\ \A n \in Nodes : Known(n) =>
                          LET s == c.nodes[NodeKey(n, nodes[n])]
                          IN  s.node = n /\ s.obj = nodes[n] /\ s.pods = BoundTo(n)
                    /\ \A k \in Keys :
                          /\ c.nodes[k].claim # None => Live(c.nodes[k].claim)
                          /\ c.nodes[k].node # None => Known(c.nodes[k].node)
                    /\ (\A nc \in NodeClaims : c.claimPid[nc] = Empty => Live(nc)) =>
                          LET st == c.nps.claims[Pool]
                          IN  /\ Tracked(c.nps, Pool) = {nc \in NodeClaims : Live(nc)}
                              /\ st.deleting = {nc \in NodeClaims : /\ Live(nc) /\ claims[nc].pid # Empty
                                                                    /\ MarkedForDeletion(c.nodes[claims[nc].pid])}
  BY Zenon DEF Converged
<1>1. /\ claims \in [NodeClaims -> ClaimObj] /\ nodes \in [Nodes -> NodeObj] /\ pods \in [Pods -> PodObj] /\ c \in Clusters
      /\ \A x \in NodeClaims \cup Nodes \cup Pods : reading[x] = None /\ x \notin dirty /\ x \notin seeding
  BY Zenon DEF ClusterInv, TypeOK, CaughtUp
<1>2. /\ \A nc \in NodeClaims : ClaimSynced(c, nc, claims[nc])
      /\ \A n \in Nodes : NodeSynced(c, n, nodes[n])
      /\ \A p \in Pods : PodSynced(c, p, pods[p])
  BY <1>1, Zenon DEF Settled, ClaimsOK, ClaimOK, NodesOK, NodeOK, PodsOK, PodOK
<1>3. ClaimsResolve(c) /\ NodesResolve(c) /\ PodsFiled(c) /\ Filed(c) /\ Tidy(c)
  BY ZenonT(60) DEF Settled, Tidy
<1>4. /\ c.nodes \in [Keys -> StateNodes] /\ c.claimPid \in [NodeClaims -> PIDs \cup {Empty, None}]
      /\ c.nps \in NodePoolStates /\ None \notin PIDs /\ Empty \notin PIDs /\ Empty # None /\ None \notin Nodes /\ None \notin NodeClaims
  BY <1>1, ClusterFields, Kinds, ClusterStateAssumption, SMTT(60)
<1>5. \A nc \in NodeClaims : claims[nc].pid \in PIDs \cup {Empty}
  BY <1>1, SMTT(60) DEF ClaimObj
<1>6. \A nc \in NodeClaims : /\ Live(nc) => c.claimPid[nc] = claims[nc].pid
                             /\ ~Live(nc) => c.claimPid[nc] \in {None, Empty}
  BY <1>2, Zenon DEF ClaimSynced, Live
<1>7. ASSUME NEW nc \in NodeClaims, Live(nc), claims[nc].pid # Empty
      PROVE  c.nodes[claims[nc].pid].claim = nc /\ c.nodes[claims[nc].pid].claimDeleting = claims[nc].deleting
  <2>1. c.claimPid[nc] = claims[nc].pid /\ claims[nc].pid \in PIDs
    BY <1>5, <1>6, <1>7, Zenon
  <2> QED BY <1>2, <1>3, <1>7, <2>1, Zenon DEF ClaimSynced, ClaimsResolve, Live
<1>8. ASSUME NEW n \in Nodes, Known(n)
      PROVE  LET s == c.nodes[NodeKey(n, nodes[n])] IN s.node = n /\ s.obj = nodes[n] /\ s.pods = BoundTo(n)
  <2> DEFINE id == NodeKey(n, nodes[n])
  <2>1. c.nodePid[n] = id /\ c.nodes[id].obj = nodes[n]
    BY <1>2, <1>8, ZenonT(60) DEF NodeSynced, Known
  <2>2. id \in Keys /\ id # None
    BY <1>1, Kinds, SMTT(60) DEF NodeKey, NodeObj
  <2> HIDE DEF id
  <2>3. c.nodes[id].node = n
    BY <1>3, <2>1, <2>2, Zenon DEF NodesResolve
  <2>4. c.nodes[id].pods \in SUBSET Pods
    BY <1>4, <2>2, Zenon DEF StateNodes
  <2>5. ASSUME NEW p \in Pods PROVE p \in c.nodes[id].pods <=> p \in BoundTo(n)
    <3>1. PodSynced(c, p, pods[p])
      BY <1>2, Zenon
    <3>2. p \in c.nodes[id].pods => c.bindings[p] = n
      BY <1>3, <1>4, <2>2, <2>3, Zenon DEF PodsFiled
    <3>3. p \in BoundTo(n) <=> pods[p].exists /\ ~pods[p].terminal /\ pods[p].node = n
      BY Zenon DEF BoundTo
    <3> QED BY <1>4, <2>1, <2>2, <3>1, <3>2, <3>3, ZenonT(60) DEF PodSynced
  <2>6. c.nodes[id].pods = BoundTo(n)
    BY <2>4, <2>5, Zenon DEF BoundTo
  <2> QED BY <2>1, <2>3, <2>6, Zenon DEF id
<1>9. ASSUME NEW k \in Keys, c.nodes[k].claim # None PROVE Live(c.nodes[k].claim)
  <2>1. c.nodes[k].claim \in NodeClaims /\ c.claimPid[c.nodes[k].claim] = k /\ k \in PIDs
    BY <1>3, <1>9, ClaimAt, ZenonT(60)
  <2> QED BY <1>4, <1>6, <2>1, Zenon
<1>10. ASSUME NEW k \in Keys, c.nodes[k].node # None PROVE Known(c.nodes[k].node)
  <2>1. c.nodes[k].node \in Nodes /\ c.nodePid[c.nodes[k].node] = k
    BY <1>3, <1>10, NodeAt, ZenonT(60)
  <2>2. k # None
    BY Kinds, Zenon
  <2> QED BY <1>2, <2>1, <2>2, Zenon DEF NodeSynced, Known
<1>11. ASSUME \A nc \in NodeClaims : c.claimPid[nc] = Empty => Live(nc)
       PROVE  /\ Tracked(c.nps, Pool) = {nc \in NodeClaims : Live(nc)}
              /\ c.nps.claims[Pool].deleting = {nc \in NodeClaims : /\ Live(nc) /\ claims[nc].pid # Empty
                                                                    /\ MarkedForDeletion(c.nodes[claims[nc].pid])}
  <2> DEFINE st == c.nps.claims[Pool]
  <2>1. st.active \in SUBSET NodeClaims /\ st.deleting \in SUBSET NodeClaims /\ st.pendingDisruption = {}
    BY <1>3, <1>4, ClusterStateAssumption, Zenon DEF NodePoolStates, NodeClaimState, Filed
  <2>2. \A nc \in NodeClaims : Entry(c, nc)
    BY <1>3, Zenon DEF Filed
  <2>3. \A nc \in NodeClaims : /\ nc \in st.deleting <=> (c.claimPid[nc] \in PIDs /\ Doomed(c.nodes[c.claimPid[nc]]))
                               /\ nc \in st.active <=> (c.claimPid[nc] # None /\ nc \notin st.deleting)
    BY <2>2, Zenon DEF Entry
  <2>4. \A nc \in NodeClaims : c.claimPid[nc] # None <=> Live(nc)
    BY <1>4, <1>5, <1>6, <1>11, Zenon
  <2>5. \A nc \in NodeClaims : nc \in st.deleting => c.claimPid[nc] # None
    BY <1>4, <2>3, Zenon
  <2>6. \A nc \in NodeClaims : c.claimPid[nc] \in PIDs <=> Live(nc) /\ claims[nc].pid # Empty
    BY <1>4, <1>5, <1>6, Zenon
  <2>7. \A nc \in NodeClaims : Live(nc) /\ claims[nc].pid # Empty
           => (Doomed(c.nodes[c.claimPid[nc]]) <=> MarkedForDeletion(c.nodes[claims[nc].pid]))
    <3> SUFFICES ASSUME NEW nc \in NodeClaims, Live(nc), claims[nc].pid # Empty
                 PROVE  Doomed(c.nodes[c.claimPid[nc]]) <=> MarkedForDeletion(c.nodes[claims[nc].pid])
      BY Zenon
    <3>1. c.claimPid[nc] = claims[nc].pid
      BY <1>6, Zenon
    <3>2. c.nodes[claims[nc].pid].claim = nc /\ nc # None
      BY <1>4, <1>7, Zenon
    <3> QED BY <3>1, <3>2, Zenon DEF Doomed, MarkedForDeletion, Deleted, Managed
  <2>8. Tracked(c.nps, Pool) = st.active \cup st.deleting
    BY <2>1, Zenon DEF Tracked
  <2> HIDE DEF st
  <2>9. \A nc \in NodeClaims : nc \in st.active \cup st.deleting <=> Live(nc)
    BY <2>3, <2>4, <2>5, Zenon
  <2>10. Tracked(c.nps, Pool) = {nc \in NodeClaims : Live(nc)}
    BY <2>1, <2>8, <2>9, Zenon
  <2>11. \A nc \in NodeClaims : nc \in st.deleting <=> /\ Live(nc) /\ claims[nc].pid # Empty
                                                       /\ MarkedForDeletion(c.nodes[claims[nc].pid])
    BY <2>3, <2>6, <2>7, Zenon
  <2>12. st.deleting = {nc \in NodeClaims : /\ Live(nc) /\ claims[nc].pid # Empty
                                            /\ MarkedForDeletion(c.nodes[claims[nc].pid])}
    BY <2>1, <2>11, Zenon
  <2> QED BY <2>10, <2>12, Zenon DEF st
<1> QED BY <1>7, <1>8, <1>9, <1>10, <1>11, ZenonT(60)

=============================================================================
