--------------------------- MODULE ClaimConditions ---------------------------
(***************************************************************************)
(* What makes a NodeClaim a candidate for disruption: the Drifted and      *)
(* Consolidatable conditions (pkg/controllers/nodeclaim/disruption), the   *)
(* hash annotations drift compares (pkg/controllers/nodepool/hash) and the *)
(* time of the last pod event (pkg/controllers/nodeclaim/podevents).       *)
(***************************************************************************)
EXTENDS Integers, FiniteSets, TLC

CONSTANTS
    Claims,             \* names
    Starts,             \* [pool : Pool, claims : name -> Claim, changes : bound on disturbances]
    Current,            \* NodePoolHashVersion of this binary
    Dedupe,             \* dedupeTimeout, in ticks
    Forever,            \* ages are not told apart from here on
    Unset

(* Pool:  [exists, static, spec, admits, after, hash, version]: the fields *)
(* hashed, the values its requirements admit, consolidateAfter (Unset: off)*)
(* and the two annotations.                                                *)
(* Claim: [alive, launched, initialized, event, label, hash, version,      *)
(* drifted, consolidatable]: ages of the Initialized transition and of the *)
(* last pod event (Unset: none), the reason in Drifted or Unset.           *)
VARIABLES
    nodePool, claims,
    found,          \* instanceTypeNotFoundCheckCache
    old,            \* claims older than an hour
    withdrawn,      \* claims whose instance type is no longer offered
    replaced,       \* claims the cloud provider says have drifted
    decided,        \* what the disruption reconcile of a claim has decided to write
    hashing,        \* the hash reconcile of the NodePool
    handled,        \* age of the last pod event handled on the claim's node
    since,          \* the spec a claim is held against, Unset when it was lost
    changes         \* disturbances left

(* The parameters and the states S to start from. *)
WellFormed(S) ==
    /\ Dedupe \in Nat \ {0} /\ Forever \in Nat /\ Unset \notin Int
    /\ \A s \in S :
        /\ "after" \in DOMAIN s.pool /\ s.pool.after \in Nat \cup {Unset}
        /\ DOMAIN s.claims = Claims
        /\ \A c \in Claims : /\ {"event", "initialized", "consolidatable"} \subseteq DOMAIN s.claims[c]
                             /\ s.claims[c].event \in (0..Forever) \cup {Unset}
                             /\ s.claims[c].initialized \in (0..Forever) \cup {Unset}

conditionVars == <<nodePool, claims, found, old, withdrawn, replaced, decided, hashing, handled, since, changes>>
world == <<found, old, withdrawn, replaced>>

Hash(spec) == <<Current, spec>>
Undecided == [phase |-> "idle"]
Touch(S) == decided' = [c \in Claims |-> IF c \in S /\ decided[c] # Undecided THEN [decided[c] EXCEPT !.moved = TRUE] ELSE decided[c]]

(***************************************************************************)
(* Drift                                                                   *)
(***************************************************************************)
areStaticFieldsDrifted(c) ==
    /\ Unset \notin {nodePool.hash, nodePool.version, claims[c].hash, claims[c].version}
    /\ nodePool.version = claims[c].version
    /\ nodePool.hash # claims[c].hash

areRequirementsDrifted(c) == claims[c].label \notin nodePool.admits

ChecksInstanceType(c) == c \notin found /\ c \in old

\* The reason, or "error" when GetInstanceTypes or IsDrifted fails.
isDrifted(c) ==
    IF areStaticFieldsDrifted(c) THEN {"NodePoolDrifted"}
    ELSE IF areRequirementsDrifted(c) THEN {"RequirementsDrifted"}
    ELSE (IF changes > 0 THEN {"error"} ELSE {})
         \cup (IF ChecksInstanceType(c) /\ c \in withdrawn THEN {"InstanceTypeNotFound"}
               ELSE IF c \in replaced THEN {"CloudDrifted"} ELSE {Unset})

\* A check that found the type is remembered, whatever IsDrifted says then.
FoundAfter(c, reason) ==
    LET checked == claims[c].launched /\ ChecksInstanceType(c) /\ c \notin withdrawn
    IN  CASE checked /\ reason \in {Unset, "CloudDrifted"} -> {found \cup {c}}
          [] checked /\ reason = "error" -> {found, found \cup {c}}
          [] OTHER -> {found}

DriftAfter(c, reason) ==
    IF ~claims[c].launched THEN Unset
    ELSE IF reason = "error" THEN claims[c].drifted ELSE reason

(***************************************************************************)
(* Consolidation                                                           *)
(***************************************************************************)
IsUnderConsolidateAfter(c) ==
    LET timeToCheck == IF claims[c].event # Unset THEN claims[c].event ELSE claims[c].initialized
    IN  timeToCheck < nodePool.after

ConsolidatableAfter(c) ==
    IF nodePool.static THEN claims[c].consolidatable
    ELSE /\ nodePool.after # Unset /\ claims[c].initialized # Unset
         /\ ~IsUnderConsolidateAfter(c)

(***************************************************************************)
(* The reconcile of a claim decides on what it has read and patches the    *)
(* status under the optimistic lock; a conflict makes it come back.        *)
(***************************************************************************)
Decides(c) ==
    /\ decided[c] = Undecided /\ claims[c].alive /\ nodePool.exists
    /\ \E reason \in IF claims[c].launched THEN isDrifted(c) ELSE {Unset} :
        /\ decided' = [decided EXCEPT ![c] = [phase |-> "patch", drifted |-> DriftAfter(c, reason), after |-> nodePool.after,
                                        consolidatable |-> ConsolidatableAfter(c), moved |-> FALSE]]
        /\ changes' = IF reason = "error" THEN changes - 1 ELSE changes
        /\ found' \in FoundAfter(c, reason)
    /\ UNCHANGED <<nodePool, claims, old, withdrawn, replaced, hashing, handled, since>>

PatchesUnlocked(c) ==
    /\ decided[c] # Undecided
    /\ claims' = [claims EXCEPT ![c].drifted = decided[c].drifted, ![c].consolidatable = decided[c].consolidatable]
    /\ decided' = [decided EXCEPT ![c] = Undecided]
    /\ UNCHANGED <<nodePool, world, hashing, handled, since, changes>>

Patches(c) ==
    /\ decided[c] # Undecided
    /\ claims' = IF decided[c].moved THEN claims
                 ELSE [claims EXCEPT ![c].drifted = decided[c].drifted, ![c].consolidatable = decided[c].consolidatable]
    /\ decided' = [decided EXCEPT ![c] = Undecided]
    /\ UNCHANGED <<nodePool, world, hashing, handled, since, changes>>

(***************************************************************************)
(* The hash reconcile: claims of another hash version first, each keeping  *)
(* its hash when it was listed as drifted, then the NodePool.              *)
(***************************************************************************)
NoHashing == [phase |-> "idle", spec |-> Unset, todo |-> {}, errs |-> FALSE]
HashesPoolOnly == {}
OldHashes == {c \in Claims : claims[c].alive /\ claims[c].version # Current}

HashReads ==
    /\ hashing = NoHashing /\ nodePool.exists
    /\ hashing' = [phase |-> "hashing", spec |-> nodePool.spec, errs |-> FALSE,
                   todo |-> IF nodePool.version = Current THEN {}
                            ELSE {[claim |-> c, rehash |-> claims[c].drifted = Unset] : c \in OldHashes}]
    /\ UNCHANGED <<nodePool, claims, world, decided, handled, since, changes>>

updateNodeClaimHash ==
    /\ \E t \in hashing.todo :
        LET c == t.claim
        IN  \/ /\ hashing' = [hashing EXCEPT !.todo = @ \ {t}]
               /\ IF ~claims[c].alive THEN UNCHANGED <<claims, since, decided>>
                  ELSE /\ claims' = [claims EXCEPT ![c].version = Current,
                                                   ![c].hash = IF t.rehash THEN Hash(hashing.spec) ELSE @]
                       /\ since' = [since EXCEPT ![c] = IF t.rehash THEN hashing.spec ELSE Unset]
                       /\ Touch({c})
               /\ changes' = changes
            \/ /\ changes > 0 /\ changes' = changes - 1
               /\ hashing' = [hashing EXCEPT !.todo = @ \ {t}, !.errs = TRUE]
               /\ UNCHANGED <<claims, since, decided>>
    /\ UNCHANGED <<nodePool, world, handled>>

HashWrites ==
    /\ hashing # NoHashing /\ hashing.todo = {}
    /\ nodePool' = IF hashing.errs \/ ~nodePool.exists THEN nodePool
                   ELSE [nodePool EXCEPT !.hash = Hash(hashing.spec), !.version = Current]
    /\ hashing' = NoHashing
    /\ UNCHANGED <<claims, world, decided, handled, since, changes>>

(***************************************************************************)
(* Pod events and the clock                                                *)
(***************************************************************************)
PodEvent(c) ==
    /\ changes > 0 /\ changes' = changes - 1
    /\ claims[c].alive /\ claims[c].launched
    /\ handled' = [handled EXCEPT ![c] = 0]
    /\ IF claims[c].event # Unset /\ claims[c].event < Dedupe THEN UNCHANGED <<claims, decided>>
       ELSE claims' = [claims EXCEPT ![c].event = 0] /\ Touch({c})
    /\ UNCHANGED <<nodePool, world, hashing, since>>

Older(age) == IF age = Unset \/ age = Forever THEN age ELSE age + 1

Tick ==
    /\ claims' = [c \in Claims |-> [claims[c] EXCEPT !.initialized = Older(@), !.event = Older(@)]]
    /\ handled' = [c \in Claims |-> Older(handled[c])]
    /\ claims' # claims \/ handled' # handled
    /\ UNCHANGED <<nodePool, world, decided, hashing, since, changes>>

CacheExpires ==
    /\ found # {} /\ found' = {}
    /\ UNCHANGED <<nodePool, claims, old, withdrawn, replaced, decided, hashing, handled, since, changes>>

(***************************************************************************)
(* Users, the cloud and the other controllers                              *)
(***************************************************************************)
Disturb == changes > 0 /\ changes' = changes - 1

PoolEdited ==
    /\ Disturb /\ nodePool.exists
    /\ \/ nodePool' = [nodePool EXCEPT !.spec = 1 - @]
       \/ \E after \in {Unset, 0, 2} \ {nodePool.after} : nodePool' = [nodePool EXCEPT !.after = after]
       \/ nodePool' = [nodePool EXCEPT !.exists = FALSE]
    /\ UNCHANGED <<claims, world, decided, hashing, handled, since>>

ClaimMoves(c) ==
    /\ Disturb /\ claims[c].alive /\ Touch({c})
    /\ \/ ~claims[c].launched /\ claims' = [claims EXCEPT ![c].launched = TRUE]
       \/ claims[c].launched /\ claims[c].initialized = Unset /\ claims' = [claims EXCEPT ![c].initialized = 0]
       \/ claims' = [claims EXCEPT ![c].alive = FALSE]
    /\ UNCHANGED <<nodePool, world, hashing, handled, since>>

\* The provisioner creates a claim from the NodePool as it is.
ClaimCreated(c) ==
    /\ Disturb /\ nodePool.exists /\ ~claims[c].alive /\ claims[c].hash = Unset /\ decided[c] = Undecided
    /\ claims' = [claims EXCEPT ![c].alive = TRUE, ![c].launched = TRUE, ![c].hash = Hash(nodePool.spec), ![c].version = Current]
    /\ since' = [since EXCEPT ![c] = nodePool.spec]
    /\ UNCHANGED <<nodePool, world, decided, hashing, handled>>

CloudChanges(c) ==
    /\ Disturb
    /\ \/ c \notin old /\ old' = old \cup {c} /\ UNCHANGED <<withdrawn, replaced>>
       \/ withdrawn' = (withdrawn \ {c}) \cup ({c} \ withdrawn) /\ UNCHANGED <<old, replaced>>
       \/ c \notin replaced /\ replaced' = replaced \cup {c} /\ UNCHANGED <<old, withdrawn>>
    /\ UNCHANGED <<nodePool, claims, found, decided, hashing, handled, since>>

InitFrom(S) == \E s \in S :
    /\ nodePool = s.pool /\ claims = s.claims
    /\ found = {} /\ old = {} /\ withdrawn = {} /\ replaced = {}
    /\ decided = [c \in Claims |-> Undecided] /\ hashing = NoHashing
    /\ handled = [c \in Claims |-> Unset]
    /\ since = [c \in Claims |-> IF s.claims[c].hash = Unset THEN Unset ELSE s.claims[c].hash[2]]
    /\ changes = s.changes

ConditionsInit == InitFrom(Starts)
HashReconcile == HashReads \/ updateNodeClaimHash \/ HashWrites

ConditionsNext ==
    \/ \E c \in Claims : Decides(c) \/ Patches(c) \/ PodEvent(c) \/ ClaimMoves(c) \/ ClaimCreated(c) \/ CloudChanges(c)
    \/ HashReconcile \/ Tick \/ CacheExpires \/ PoolEdited

\* A claim is looked at again after five minutes, a NodePool at every event, the cache
\* forgets after thirty minutes, and time passes.
ConditionsFairness ==
    /\ \A c \in Claims : WF_conditionVars(Decides(c)) /\ WF_conditionVars(Patches(c))
    /\ WF_conditionVars(HashReconcile) /\ WF_conditionVars(Tick) /\ WF_conditionVars(CacheExpires)

ConditionsSpec == ConditionsInit /\ [][ConditionsNext]_conditionVars /\ ConditionsFairness

--------------------------------------------------------------------------------
IdleLongEnough ==
    \A c \in Claims : ~claims[c].consolidatable /\ claims'[c].consolidatable
        => handled[c] = Unset \/ handled[c] > decided[c].after - Dedupe

(* A claim becomes Consolidatable only when the last pod event handled on    *)
(* its node is as old as consolidateAfter, give or take the deduplication    *)
(* of events: the optimistic lock rejects a decision overtaken by an event   *)
(* (nodeclaim/disruption/controller.go:98-107, podevents/controller.go:82).  *)
ConsolidatableIsIdle == [][IdleLongEnough]_conditionVars

Drifts(c) ==
    \/ since[c] # nodePool.spec
    \/ claims[c].label \notin nodePool.admits
    \/ c \in old \cap withdrawn
    \/ c \in replaced

ConditionsRight ==
    nodePool.exists => \A c \in Claims : claims[c].alive =>
        /\ claims[c].launched => (claims[c].drifted # Unset <=> Drifts(c))
        /\ ~nodePool.static => (claims[c].consolidatable <=> nodePool.after # Unset /\ claims[c].initialized # Unset)

(* In a quiet cluster the conditions become what they should be: a launched  *)
(* claim is Drifted exactly when it differs from its NodePool, its type is   *)
(* gone or the cloud says so - through a migration of hash versions cut      *)
(* short, a NodePool edited meanwhile and cached checks - and Consolidatable *)
(* exactly when consolidation is on and the node was idle long enough        *)
(* (drift.go:53-131, consolidation.go:39-88, nodepool/hash/controller.go).   *)
ConditionsSettle == <>[]ConditionsRight
==============================================================================
