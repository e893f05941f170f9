---------------------------- MODULE DeviceAllocation ----------------------------
(***************************************************************************)
(* pkg/controllers/dynamicresources/deviceallocation: the index, kept in   *)
(* memory, of the devices that ResourceClaims hold.  It is filled once     *)
(* from a list of all claims, then follows the claims one by one; the      *)
(* provisioner reads it at the start of every scheduling loop.             *)
(***************************************************************************)
EXTENDS DeviceClaims

CONSTANTS
    Claims,       \* names of ResourceClaims
    Statuses,     \* the statuses an allocated claim can have
    Unallocated,  \* the status of one that is not
    Deleted,      \* stands for the status of a claim that does not exist
    MaxEvents     \* changes of claims

VARIABLES
    status,           \* claim -> its status in the API
    dirty,            \* claims with an event that no reconcile has taken
    read,             \* claim -> the status its reconcile has read
    listed,           \* claim -> its status in Hydrate's list, for those left to index
    hydration,        \* "none", "listed" or, once hydrationCh is closed, "done"
    claimMetadata, claimsPerDevice, allocatedDevices,
    events            \* changes so far

index == <<claimMetadata, claimsPerDevice, allocatedDevices>>
vars == <<status, dirty, read, listed, hydration, claimMetadata, claimsPerDevice, allocatedDevices, events>>

Holds(st) == st \notin {Unallocated, Deleted}

(***************************************************************************)
(* The index under its lock: the claim's devices before, and now.          *)
(***************************************************************************)
DevicesBefore(c) == IF c \in DOMAIN claimMetadata THEN DOMAIN claimMetadata[c].contributions ELSE {}

\* perDevice without the devices that no claim holds any more, and what the
\* touched devices of it are recomputed to.
Reindex(perDevice, meta, touched) ==
    LET kept == Drop(perDevice, {d \in touched : perDevice[d] = {}})
    IN  /\ claimMetadata' = meta
        /\ claimsPerDevice' = kept
        /\ allocatedDevices' = [d \in touched \cap DOMAIN kept |-> computeDeviceMetadata(d, kept[d], meta)]
                               @@ Drop(allocatedDevices, touched)

finalizeWithoutRecompute(c) ==
    LET gone == {d \in DevicesBefore(c) : claimsPerDevice[d] = {c}}
    IN  /\ claimMetadata' = Drop(claimMetadata, {c})
        /\ claimsPerDevice' = Drop([d \in DOMAIN claimsPerDevice |-> claimsPerDevice[d] \ {c}], gone)
        /\ allocatedDevices' = Drop(allocatedDevices, gone)

finalizeClaim(c) ==
    LET gone == DevicesBefore(c)
    IN  Reindex([d \in DOMAIN claimsPerDevice |-> IF d \in gone THEN claimsPerDevice[d] \ {c} ELSE claimsPerDevice[d]],
                Drop(claimMetadata, {c}), gone)

trackClaim(c, st) ==
    LET now == DOMAIN Contributions(st)
        gone == DevicesBefore(c) \ now
        Sharing(d) == IF d \in DOMAIN claimsPerDevice THEN claimsPerDevice[d] ELSE {}
    IN  Reindex([d \in DOMAIN claimsPerDevice \cup now |->
                    IF d \in now THEN Sharing(d) \cup {c} ELSE IF d \in gone THEN Sharing(d) \ {c} ELSE Sharing(d)],
                (c :> claimMetadataOf(st)) @@ claimMetadata, gone \cup now)

reconcileClaim(c, st) == IF Holds(st) /\ st.results # <<>> THEN trackClaim(c, st) ELSE finalizeClaim(c)

(***************************************************************************)
(* Hydrate: a list of the claims, each indexed in turn while claims go on  *)
(* changing; then the others may read, and reconciles go ahead.            *)
(***************************************************************************)
List ==
    /\ hydration = "none"
    /\ hydration' = "listed"
    /\ listed' = [c \in {x \in Claims : status[x] # Deleted} |-> status[c]]
    /\ UNCHANGED <<status, dirty, read, index, events>>

HydrateOne(c) ==
    /\ c \in DOMAIN listed
    /\ reconcileClaim(c, listed[c])
    /\ listed' = Drop(listed, {c})
    /\ UNCHANGED <<status, dirty, read, hydration, events>>

Hydrated ==
    /\ hydration = "listed" /\ listed = <<>>
    /\ hydration' = "done"
    /\ UNCHANGED <<status, dirty, read, listed, index, events>>

(***************************************************************************)
(* Reconcile: the claim is read, then indexed.  A claim has one reconcile  *)
(* at a time.                                                              *)
(***************************************************************************)
Get(c) ==
    /\ hydration = "done" /\ c \in dirty /\ c \notin DOMAIN read
    /\ read' = (c :> status[c]) @@ read
    /\ dirty' = dirty \ {c}
    /\ UNCHANGED <<status, listed, hydration, index, events>>

Reconcile(c) ==
    /\ c \in DOMAIN read
    /\ reconcileClaim(c, read[c])
    /\ read' = Drop(read, {c})
    /\ UNCHANGED <<status, dirty, listed, hydration, events>>

(***************************************************************************)
(* The cluster.  The kube-scheduler allocates a free exclusive device to   *)
(* one claim only; claims are reserved, released, deallocated and deleted. *)
(***************************************************************************)
ExclusiveIn(st) == {d \in DOMAIN Contributions(st) : Contributions(st)[d] = <<>>}

ClaimChanges(c, st) ==
    /\ events < MaxEvents /\ st # status[c]
    /\ Holds(st) => \A e \in Claims \ {c} : Holds(status[e]) => ExclusiveIn(st) \cap ExclusiveIn(status[e]) = {}
    /\ status' = [status EXCEPT ![c] = st]
    /\ dirty' = dirty \cup {c}
    /\ events' = events + 1
    /\ UNCHANGED <<read, listed, hydration, index>>

\* The process starts anew with nothing indexed; every claim is an event.
Restart ==
    /\ events < MaxEvents
    /\ hydration' = "none" /\ listed' = <<>> /\ read' = <<>>
    /\ dirty' = {c \in Claims : status[c] # Deleted}
    /\ claimMetadata' = <<>> /\ claimsPerDevice' = <<>> /\ allocatedDevices' = <<>>
    /\ events' = events + 1
    /\ UNCHANGED status

Init ==
    /\ status \in [Claims -> {Unallocated, Deleted}]
    /\ dirty = {c \in Claims : status[c] # Deleted}
    /\ read = <<>> /\ listed = <<>> /\ hydration = "none"
    /\ claimMetadata = <<>> /\ claimsPerDevice = <<>> /\ allocatedDevices = <<>>
    /\ events = 0

Next ==
    \/ List
    \/ Hydrated
    \/ Restart
    \/ \E c \in Claims : HydrateOne(c) \/ Get(c) \/ Reconcile(c)
    \/ \E c \in Claims : \E st \in Statuses \cup {Unallocated, Deleted} : ClaimChanges(c, st)

Spec == Init /\ [][Next]_vars

(***************************************************************************)
(* Properties.                                                             *)
(***************************************************************************)
Settled == hydration = "done" /\ dirty = {} /\ read = <<>>
Holding == {c \in Claims : Holds(status[c])}
HeldBy(c) == {r.id : r \in ToSet(status[c].results)}

\* A scheduling loop that starts once every event is taken treats as taken what
\* the claims hold that some consumer is not leaving, and nothing else: their
\* exclusive devices, and of a shared one what they draw together.  So it is
\* whatever the claims went through, whenever the list that filled the index was
\* made, and whichever pods the loop treats as leaving.
SeedExact ==
    Settled =>
        \A deleting \in SUBSET UNION {PodUIDs(status[c]) : c \in Holding} :
            LET seed == gatherAllocatedDevices(allocatedDevices, deleting)
                live == {c \in Holding : ~claimReservedEntirelyByDeletingPods(status[c], deleting)}
                Results(c) == ToSet(status[c].results)
                shared == {r.id : r \in {x \in UNION {Results(c) : c \in live} : x.consumed # <<>>}}
                Drawn(d) == FoldSet(LAMBDA c, acc : Plus(acc, Contributions(status[c])[d]), <<>>,
                                    {c \in live : d \in HeldBy(c)})
            IN  /\ seed.exclusive = UNION {HeldBy(c) : c \in live} \ shared
                /\ seed.consumed = [d \in shared |-> Drawn(d)]
=================================================================================
