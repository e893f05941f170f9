------------------------- MODULE ClusterStateProofs -------------------------
(***************************************************************************)
(* What cluster state keeps true for any number of claims, Nodes, pods and *)
(* provider IDs, in any order of events.  ClusterStateLemmas shows that    *)
(* every step keeps the invariants, given what it uses of cardinalities.   *)
(***************************************************************************)
EXTENDS ClusterStateLemmas, FiniteSetTheorems

(* The cardinality of a set of keys follows the element that changes sides. *)
LEMMA KeysCount == Counting
<1>1. \A T \in SUBSET Keys : IsFiniteSet(T) /\ Cardinality(T) \in Nat
  <2>1. IsFiniteSet(Keys)
    BY ClusterStateAssumption, FS_Union, Zenon DEF Keys
  <2> QED BY <2>1, FS_Subset, FS_CardinalityType
<1>2. ASSUME NEW T \in SUBSET Keys, NEW k \in Keys
      PROVE  /\ Cardinality(T \ {k}) \in Nat
             /\ Cardinality(T) = Cardinality(T \ {k}) + (IF k \in T THEN 1 ELSE 0)
  <2>1. T \ {k} \in SUBSET Keys
    BY Zenon
  <2>2. Cardinality(T) \in Nat /\ Cardinality(T \ {k}) \in Nat
    BY <1>1, <2>1, Zenon
  <2>3. CASE k \in T
    <3>1. Cardinality(T \ {k}) = Cardinality(T) - 1
      BY <1>1, <2>3, FS_RemoveElement
    <3> QED BY <2>2, <2>3, <3>1, SMTT(60)
  <2>4. CASE k \notin T
    <3>1. T \ {k} = T
      BY <2>4, Zenon
    <3>2. Cardinality(T \ {k}) = Cardinality(T)
      BY <3>1, Zenon
    <3> QED BY <2>2, <2>4, <3>2, SMTT(60)
  <2> QED BY <2>3, <2>4, Zenon
<1>3. ASSUME NEW T \in SUBSET Keys, NEW U \in SUBSET Keys, NEW k \in Keys, T \ {k} = U \ {k}
      PROVE  Cardinality(U) = Cardinality(T) - (IF k \in T THEN 1 ELSE 0) + (IF k \in U THEN 1 ELSE 0)
  <2> DEFINE r == Cardinality(T \ {k})
  <2>1. r \in Nat /\ Cardinality(T) = r + (IF k \in T THEN 1 ELSE 0)
    BY <1>2, Zenon
  <2>2. Cardinality(U) = r + (IF k \in U THEN 1 ELSE 0)
    BY <1>2, <1>3, Zenon
  <2> HIDE DEF r
  <2> QED BY <2>1, <2>2, SMTT(60)
<1>4. Cardinality({}) = 0
  BY FS_EmptySet
<1> QED BY <1>1, <1>3, <1>4, Zenon DEF Counting

(* For any number of claims, Nodes, pods and provider IDs, and in any order  *)
(* of informer events, the Cluster keeps its types and the facts the two     *)
(* theorems below rest on: what a name maps to is what the object with that  *)
(* name has, or had before it got a provider ID.                             *)
THEOREM ClusterInvariant == Spec => []ClusterInv
<1>1. Init => ClusterInv
  BY KeysCount, InitInv, Zenon
<1>2. ClusterInv /\ [Next]_vars => ClusterInv'
  BY KeysCount, StepInv, Zenon
<1> QED BY <1>1, <1>2, PTL DEF Spec

(* cleanupNodeClaim and cleanupNode always find the StateNode they           *)
(* dereference, holding the claim or the Node they are called for            *)
(* (cluster.go:771, 826).                                                    *)
THEOREM MappingsAlwaysResolve == Spec => []MappingsResolve
<1>1. ClusterInv => MappingsResolve
  BY DEF ClusterInv
<1> QED BY <1>1, ClusterInvariant, PTL

(* updateNodePoolResources keeps the totals of a NodePool equal to what its  *)
(* nodes add up to, whatever the order of events: it is called with the      *)
(* StateNode as it was when its last change was counted (cluster.go:862).    *)
THEOREM ResourcesAlwaysExact == Spec => []ResourcesExact
<1>1. ClusterInv => ResourcesExact
  BY ExactIsResourcesExact DEF ClusterInv
<1> QED BY <1>1, ClusterInvariant, PTL

(* For any number of claims, Nodes, pods and provider IDs, an object that is *)
(* not in the Cluster as it is in the cache has an event to come or a        *)
(* reconcile that has read it, and the maps of the Cluster, its StateNodes   *)
(* and NodePoolState agree with each other after every method of cluster.go, *)
(* unless a Create is delayed past the launch of its claim.                  *)
THEOREM ConvergedInvariant == Spec => []ConvergedInv
<1>1. Init => ConvergedInv
  <2> SUFFICES ASSUME Init PROVE ConvergedInv
    BY Zenon
  <2>1. \A e \in Scenarios : e \in Envs
    BY ClusterStateAssumption, SMTT(60) DEF Envs
  <2> QED BY <2>1, KeysCount, InitInv, InitSettled, Zenon DEF ConvergedInv, Init
<1>2. ConvergedInv /\ [Next]_vars => ConvergedInv'
  BY KeysCount, StepConverged, Zenon
<1> QED BY <1>1, <1>2, PTL DEF Spec

(* The Cluster converges: once every informer event has been applied, in     *)
(* whatever order, it is what a rebuild from the cache gives                 *)
(* (cluster.go:347-461, 740-837, 949-1000).                                  *)
THEOREM AlwaysConverges == Spec => []Converged
<1>1. ConvergedInv => Converged
  BY SettledConverges, Zenon DEF ConvergedInv, Converged
<1> QED BY <1>1, ConvergedInvariant, PTL
=============================================================================
