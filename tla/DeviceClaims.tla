------------------------------ MODULE DeviceClaims ------------------------------
(***************************************************************************)
(* What the allocated ResourceClaims of the cluster hold, and what of it a *)
(* scheduling loop must treat as taken: the pure parts of the              *)
(* deviceallocation controller, of the provisioner's gatherAllocatedDevices *)
(* and of the allocator's classification of claims.                        *)
(*                                                                         *)
(* The status of an allocated claim is [results, selector, reserved]:      *)
(* results is a sequence of [id, consumed], consumed from the dimensions   *)
(* drawn on to amounts, empty for an exclusive device; reserved is a       *)
(* sequence of [pod, uid], pod FALSE for a consumer that is no pod.        *)
(***************************************************************************)
EXTENDS Integers, Sequences, FiniteSets, SequencesExt

At(f, x) == IF x \in DOMAIN f THEN f[x] ELSE 0
Plus(f, g) == [x \in DOMAIN f \cup DOMAIN g |-> At(f, x) + At(g, x)]
Minus(f, g) == [x \in DOMAIN f |-> f[x] - At(g, x)]
Drop(f, S) == [x \in DOMAIN f \ S |-> f[x]]

PodUIDs(status) == {r.uid : r \in {c \in ToSet(status.reserved) : c.pod}}

\* The last result on a device is the one that counts.
Contributions(status) == FoldLeft(LAMBDA acc, r : (r.id :> r.consumed) @@ acc, <<>>, status.results)

claimMetadataOf(status) ==
    [releasable    |-> status.reserved # <<>> /\ \A r \in ToSet(status.reserved) : r.pod,
     pods          |-> PodUIDs(status),
     contributions |-> Contributions(status)]

computeDeviceMetadata(device, claims, meta) ==
    LET sharing == {c \in claims : meta[c].contributions[device] # <<>>}
        Consumed(c) == meta[c].contributions[device]
    IN  [releasable    |-> \A c \in claims : meta[c].releasable,
         pods          |-> UNION {meta[c].pods : c \in claims},
         shared        |-> sharing # {},
         consumed      |-> FoldSet(LAMBDA c, acc : Plus(acc, Consumed(c)), <<>>, sharing),
         contributions |-> {[claim |-> c, pods |-> meta[c].pods, consumed |-> Consumed(c)] : c \in sharing}]

allConsumersDeleting(pods, deleting) == pods \subseteq deleting

\* What is left of a shared device's draw once the claims all of whose pods go
\* are taken off it.
effectiveConsumedCapacity(d, deleting) ==
    LET going == {c \in d.contributions : c.pods # {} /\ allConsumersDeleting(c.pods, deleting)}
        left == FoldSet(LAMBDA c, acc : Minus(acc, c.consumed), d.consumed, going)
    IN  Drop(left, {x \in DOMAIN left : left[x] <= 0 /\ \E c \in going : x \in DOMAIN c.consumed})

\* The devices a scheduling loop starts with as taken: exclusive ones, and the
\* capacity drawn from the others.
gatherAllocatedDevices(devices, deleting) ==
    LET Free(d) == \/ d.releasable /\ d.pods = {}
                   \/ d.pods # {} /\ allConsumersDeleting(d.pods, deleting)
        taken == {x \in DOMAIN devices : ~Free(devices[x])}
        shared == {x \in taken : devices[x].shared /\ effectiveConsumedCapacity(devices[x], deleting) # <<>>}
    IN  [exclusive |-> {x \in taken : ~devices[x].shared},
         consumed  |-> [x \in shared |-> effectiveConsumedCapacity(devices[x], deleting)]]

claimReservedEntirelyByDeletingPods(status, deleting) ==
    /\ status.reserved # <<>>
    /\ \A r \in ToSet(status.reserved) : r.pod /\ r.uid \in deleting
=================================================================================
