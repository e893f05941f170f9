------------------------------ MODULE NodeRepair ------------------------------
(***************************************************************************)
(* Node repair: the provider's repair policies are matched with the        *)
(* conditions of a Node when cluster state hears of it, the matches are    *)
(* resolved against the clock by each pass of the disruption controller,   *)
(* and the pass starts one command: a reboot in place, a replacement, or a *)
(* deletion first where no replacement can be staged.                      *)
(*                                                                         *)
(* A timestamp is kept as its age, up to Oldest.  The steps of a reboot    *)
(* are in Reboot, those of the other commands in DisruptionQueue, the node *)
(* counts of static NodePools in StaticCapacity: a command is under way    *)
(* until it ends here.                                                     *)
(***************************************************************************)
EXTENDS Integers, Sequences, FiniteSets, SequencesExt

CONSTANTS
    agingConstant, rebootHistoryWindow, rebootsBeforeReplacement,
    Oldest,    \* bound: the age at which ages stop
    Unset

VARIABLES
    setup,    \* the repair policies, the NodePools and whether terminate-first is enabled
    nodes,    \* the Nodes and NodeClaims on the API server; the reboots of RebootHistory
    seen,     \* the Nodes of cluster state, with their repairPolicyMatches
    changes   \* what may still happen to the Nodes

vars == <<setup, nodes, seen, changes>>

Nodes == DOMAIN nodes
Pool(n) == setup.pools[nodes[n].pool]
Later(a) == IF a \in {Unset, Oldest} THEN a ELSE a + 1
Younger(a, b) == IF a < b THEN a ELSE b

-----------------------------------------------------------------------------
(* RepairPolicyMatcher.  The reasons a policy's expression matches are a set; *)
(* the fallback has none.  Condition types are numbered in name order.        *)

Policies == setup.policies
IsFallback(p) == p.reasons = {}
For(p, c) == p.type = c.type /\ p.status = c.status

validateRepairPolicy(p) ==
    /\ p.status \in {"True", "False", "Unknown"}
    /\ p.toleration >= 0 /\ (p.tgp # Unset => p.tgp >= 0)
    /\ p.priority \in 0..100 /\ p.action \in {"ReplaceNode", "RebootNode"}

newRepairPolicyMatcher(ps) ==
    /\ \A i \in DOMAIN ps : validateRepairPolicy(ps[i])
    /\ \E i \in DOMAIN ps : IsFallback(ps[i]) /\ ps[i].action = "ReplaceNode"
    /\ \A i, j \in DOMAIN ps : IsFallback(ps[i]) /\ IsFallback(ps[j]) => i = j

denseRanks(priority) == Cardinality({p.priority : p \in {q \in Range(Policies) : q.priority < priority}})

Matches(c) == \E p \in Range(Policies) : For(p, c)

newMatch(p, c, created) ==
    [policy |-> p, type |-> c.type, rank |-> denseRanks(p.priority), age |-> Younger(c.age, created)]

MatchesOf(c, created) ==
    LET specific == SelectSeq(Policies, LAMBDA p : For(p, c) /\ c.reason \in p.reasons)
        policies == IF specific = <<>> THEN SelectSeq(Policies, IsFallback) ELSE specific
    IN  IF Matches(c) THEN [i \in DOMAIN policies |-> newMatch(policies[i], c, created)] ELSE <<>>

Match(node) == FlattenSeq([i \in DOMAIN node.conds |-> MatchesOf(node.conds[i], node.created)])

MatchInputsEqualNoReason(a, b) ==
    /\ a.created = b.created /\ Len(a.conds) = Len(b.conds)
    /\ \A i \in DOMAIN a.conds : [a.conds[i] EXCEPT !.reason = ""] = [b.conds[i] EXCEPT !.reason = ""]

MatchInputsEqual(a, b) == a.created = b.created /\ a.conds = b.conds

matchRepairPolicies(node, old) == IF MatchInputsEqual(old, node) THEN old.matches ELSE Match(node)

-----------------------------------------------------------------------------
(* Resolve.  The time since a policy became eligible is since; the later it   *)
(* became so, the smaller.                                                    *)

NoResult == [action |-> "", type |-> 0, since |-> 0, priority |-> 0, tgp |-> Unset, tgpType |-> 0, tgpSince |-> 0,
             rank |-> 0, scored |-> 0]

(* Times agingConstant. *)
Score(rank, since) == rank * agingConstant + since
ScoreAt(r) == IF r.action = "" THEN 0 ELSE Score(r.rank, r.scored)

mergeScore(r, m, since) ==
    IF r.action = "" \/ Score(m.rank, since) > ScoreAt(r) THEN [r EXCEPT !.rank = m.rank, !.scored = since] ELSE r

shorterTerminationGracePeriod(r, m, since) ==
    \/ r.tgp = Unset \/ m.policy.tgp < r.tgp
    \/ /\ m.policy.tgp = r.tgp
       /\ since > r.tgpSince \/ (since = r.tgpSince /\ m.type < r.tgpType)

mergeBound(r, m, since) ==
    IF m.policy.tgp # Unset /\ shorterTerminationGracePeriod(r, m, since)
    THEN [r EXCEPT !.tgp = m.policy.tgp, !.tgpType = m.type, !.tgpSince = since] ELSE r

IsMoreDisruptiveThan(a, b) == a = "ReplaceNode" /\ b = "RebootNode"

Selected(r, m, since) ==
    \/ r.action = "" \/ IsMoreDisruptiveThan(m.policy.action, r.action)
    \/ /\ m.policy.action = r.action
       /\ \/ m.policy.priority > r.priority
          \/ m.policy.priority = r.priority /\ since > r.since
          \/ m.policy.priority = r.priority /\ since = r.since /\ m.type < r.type

mergeLast(r, m, since) ==
    IF since < 0 THEN r
    ELSE [mergeBound(mergeScore(r, m, since), m, since) EXCEPT
            !.action = m.policy.action, !.type = m.type, !.since = since, !.priority = m.policy.priority]

mergePolicy(r, m, since) ==
    LET merged == mergeBound(mergeScore(r, m, since), m, since)
    IN  IF since < 0 THEN r
        ELSE IF Selected(r, m, since)
        THEN [merged EXCEPT !.action = m.policy.action, !.type = m.type, !.since = since, !.priority = m.policy.priority]
        ELSE merged

Since(m, ended) == (IF ended = Unset THEN m.age ELSE Younger(m.age, ended)) - m.policy.toleration

Resolve(matches, ended) == FoldLeft(LAMBDA r, m : mergePolicy(r, m, Since(m, ended)), NoResult, matches)

-----------------------------------------------------------------------------
(* RebootHistory: at most rebootsBeforeReplacement reboots by NodeClaim UID.  *)

recentReboots(n) == SelectSeq(nodes[n].reboots, LAMBDA a : a < rebootHistoryWindow)

RecordCommittedReboot(n) == IF Len(recentReboots(n)) >= rebootsBeforeReplacement THEN nodes[n].reboots
                            ELSE recentReboots(n) \o <<0>>

GetRepairResult(n) == Resolve(seen[n].matches, nodes[n].ended)

NeverEscalates(n) == GetRepairResult(n)

Escalated(n) ==
    LET r == GetRepairResult(n)
    IN  IF r.action = "RebootNode" /\ Len(recentReboots(n)) >= rebootsBeforeReplacement
        THEN [r EXCEPT !.action = "ReplaceNode"] ELSE r

-----------------------------------------------------------------------------
(* A pass of the repair method. *)

Candidate(n) == nodes[n].state = "up"

Unbounded(n, r) == nodes[n].blocked /\ r.tgp = Unset /\ nodes[n].tgp = Unset
ShouldDisrupt(n) == Candidate(n) /\ Escalated(n).action # "" /\ ~nodes[n].veto /\ ~Unbounded(n, Escalated(n))

(* More than a fifth of the Nodes of the NodePool, rounded up, is unhealthy. *)
breakerTripped(p) ==
    LET members == {n \in Nodes : nodes[n].pool = p}
        unhealthy == {n \in members : \E c \in Range(nodes[n].conds) : Matches(c)}
    IN  Cardinality(unhealthy) > (Cardinality(members) + 4) \div 5

RebootReinitializing(n) == nodes[n].state = "up" /\ ~nodes[n].init /\ nodes[n].ended # Unset
Disrupting(n) ==
    \/ nodes[n].state = "rebooting" \/ RebootReinitializing(n)
    \/ nodes[n].init /\ nodes[n].state = "replacing"
Budget(p) ==
    LET left == setup.pools[p].budget - Cardinality({n \in Nodes : nodes[n].pool = p /\ Disrupting(n)})
    IN  IF left < 0 THEN 0 ELSE left

effectiveDrainBound(n, r) ==
    IF r.tgp = Unset \/ nodes[n].tgp = Unset THEN r.tgp ELSE Younger(r.tgp, nodes[n].tgp)

(* The candidate of a static NodePool: no replacement while it scales down;   *)
(* without a slot for one, it is deleted first if the pool can refill.        *)
StaticCommand(n) ==
    LET p == Pool(n)
        full == setup.terminateFirst /\ p.full
    IN  CASE p.surplus \/ (full /\ ~nodes[n].holdsOffered) -> "skip"
          [] ~p.surplus /\ ~full /\ ~p.atLimit -> "replace"
          [] OTHER -> IF setup.terminateFirst /\ p.refillable THEN "terminate" ELSE "skip"

(* What the two simulations with the candidate's pods come to: they fit, they *)
(* fit with its reservation slot credited back, or they do not.               *)
SimulatedCommand(n) ==
    CASE nodes[n].room = "fits" -> "replace"
      [] nodes[n].room = "credit" /\ setup.terminateFirst -> "terminate"
      [] OTHER -> "skip"

Command(n) ==
    IF breakerTripped(nodes[n].pool) \/ (nodes[n].init /\ Budget(nodes[n].pool) = 0) THEN "skip"
    ELSE IF Escalated(n).action = "RebootNode" THEN "reboot"
    ELSE IF Pool(n).static THEN StaticCommand(n)
    ELSE SimulatedCommand(n)

Before(m, n) ==
    LET a == ScoreAt(Escalated(m)) b == ScoreAt(Escalated(n))
    IN  \/ a > b
        \/ a = b /\ nodes[m].cost < nodes[n].cost
        \/ a = b /\ nodes[m].cost = nodes[n].cost /\ m < n

Able == {n \in Nodes : ShouldDisrupt(n) /\ Command(n) # "skip"}

Commanded(n) ==
    LET node == [nodes[n] EXCEPT !.bound = effectiveDrainBound(n, Escalated(n))]
    IN  IF Command(n) = "reboot" THEN [node EXCEPT !.state = "rebooting", !.reboots = RecordCommittedReboot(n)]
        ELSE [node EXCEPT !.state = "replacing"]

computeCommands ==
    /\ \E n \in Able :
        /\ \A m \in Able \ {n} : Before(n, m)
        /\ nodes' = [nodes EXCEPT ![n] = Commanded(n)]
    /\ UNCHANGED <<setup, seen, changes>>

-----------------------------------------------------------------------------
(* The end of a command: a fresh Node in place of the old one, or, where the  *)
(* command is given up, the old one.                                          *)

Fresh(n) == [nodes[n] EXCEPT !.conds = <<>>, !.created = 0, !.init = TRUE, !.state = "up", !.ended = Unset,
                             !.reboots = <<>>, !.veto = FALSE, !.blocked = FALSE, !.bound = Unset]

Replaced(n) ==
    /\ nodes[n].state = "replacing"
    /\ nodes' = [nodes EXCEPT ![n] = Fresh(n)]
    /\ seen' = [seen EXCEPT ![n] = [conds |-> <<>>, created |-> 0, matches |-> <<>>]]
    /\ UNCHANGED <<setup, changes>>

GivenUp(n) ==
    /\ nodes[n].state = "replacing" /\ changes > 0
    /\ nodes' = [nodes EXCEPT ![n].state = "up", ![n].bound = Unset]
    /\ changes' = changes - 1
    /\ UNCHANGED <<setup, seen>>

(* A reboot leaves the Node uninitialized; it may have helped or not. *)
Rebooted(n) ==
    /\ nodes[n].state = "rebooting"
    /\ \E conds \in {<<>>, nodes[n].conds} :
        nodes' = [nodes EXCEPT ![n] = [@ EXCEPT !.state = "up", !.conds = conds, !.init = FALSE, !.ended = 0,
                                                !.bound = Unset]]
    /\ UNCHANGED <<setup, seen, changes>>

Ready(n) == \A c \in Range(nodes[n].conds) : c.type # 1
Initialized(n) ==
    /\ nodes[n].state = "up" /\ ~nodes[n].init /\ Ready(n)
    /\ nodes' = [nodes EXCEPT ![n].init = TRUE]
    /\ UNCHANGED <<setup, seen, changes>>

(* UpdateNode of cluster state.  A replaced Node is another one. *)
UpdateNode(n) ==
    /\ <<seen[n].conds, seen[n].created>> # <<nodes[n].conds, nodes[n].created>>
    /\ seen' = [seen EXCEPT ![n] = [conds |-> nodes[n].conds, created |-> nodes[n].created,
                                    matches |-> matchRepairPolicies(nodes[n], seen[n])]]
    /\ UNCHANGED <<setup, nodes, changes>>

-----------------------------------------------------------------------------
(* The kubelet, the user and the process. *)

ConditionChanges(n) ==
    /\ changes > 0
    /\ \E conds \in setup.conditions :
        /\ conds # nodes[n].conds
        /\ nodes' = [nodes EXCEPT ![n].conds = conds]
    /\ changes' = changes - 1
    /\ UNCHANGED <<setup, seen>>

VetoLifted(n) ==
    /\ nodes[n].veto
    /\ nodes' = [nodes EXCEPT ![n].veto = FALSE]
    /\ UNCHANGED <<setup, seen, changes>>

Restart ==
    /\ changes > 0 /\ \E n \in Nodes : nodes[n].reboots # <<>>
    /\ nodes' = [n \in Nodes |-> [nodes[n] EXCEPT !.reboots = <<>>]]
    /\ changes' = changes - 1
    /\ UNCHANGED <<setup, seen>>

Aged(conds) == [i \in DOMAIN conds |-> [conds[i] EXCEPT !.age = Later(@)]]

(* A pass, the delivery of an event and a reboot take less than a tick. *)
Tick ==
    /\ Able = {}
    /\ \A n \in Nodes : nodes[n].state # "rebooting" /\ seen[n].conds = nodes[n].conds
    /\ nodes' = [n \in Nodes |-> [nodes[n] EXCEPT !.conds = Aged(@), !.created = Later(@), !.ended = Later(@),
                                    !.reboots = [i \in DOMAIN @ |-> Later(@[i])]]]
    /\ seen' = [n \in Nodes |-> [seen[n] EXCEPT !.conds = Aged(@), !.created = Later(@), !.matches = Aged(@)]]
    /\ UNCHANGED <<setup, changes>>

-----------------------------------------------------------------------------
InitFrom(setups) ==
    /\ \E s \in setups :
        /\ newRepairPolicyMatcher(s.policies)
        /\ setup = [policies |-> s.policies, pools |-> s.pools, terminateFirst |-> s.terminateFirst,
                    conditions |-> s.conditions]
        /\ nodes = s.nodes /\ changes = s.changes
    /\ seen = [n \in Nodes |-> [conds |-> nodes[n].conds, created |-> nodes[n].created, matches |-> Match(nodes[n])]]

CommandsEnd == \E n \in Nodes : Replaced(n) \/ Rebooted(n)
NodesReport == \E n \in Nodes : Initialized(n) \/ UpdateNode(n)

Next ==
    \/ computeCommands \/ CommandsEnd \/ NodesReport \/ Restart \/ Tick
    \/ \E n \in Nodes : GivenUp(n) \/ ConditionChanges(n) \/ VetoLifted(n)

-----------------------------------------------------------------------------
(* What the conditions cluster state has seen ask for: the most disruptive    *)
(* action of an eligible policy, the shortest bound, the highest score.       *)

Eligible(n) == {m \in Range(Match(seen[n])) : Since(m, nodes[n].ended) >= 0}

Decides(r, n) ==
    LET e == Eligible(n)
        acting == {m \in e : m.policy.action = r.action}
        bounds == {m.policy.tgp : m \in e} \ {Unset}
    IN  /\ r.action = IF \E m \in e : m.policy.action = "ReplaceNode" THEN "ReplaceNode"
                      ELSE IF e # {} THEN "RebootNode" ELSE ""
        /\ r.tgp = IF bounds = {} THEN Unset ELSE Min(bounds)
        /\ ScoreAt(r) = IF e = {} THEN 0 ELSE Max({Score(m.rank, Since(m, nodes[n].ended)) : m \in e})
        /\ e # {} => \E m \in acting :
                        /\ m.type = r.type
                        /\ \A o \in acting : <<m.policy.priority, Since(m, nodes[n].ended)>> =
                                                <<o.policy.priority, Since(o, nodes[n].ended)>> => m.type <= o.type
                        /\ \A o \in acting : \/ m.policy.priority > o.policy.priority
                                             \/ /\ m.policy.priority = o.policy.priority
                                                /\ Since(m, nodes[n].ended) >= Since(o, nodes[n].ended)

(* The decision for a Node, resolved from the matches that cluster state      *)
(* keeps, is what the conditions cluster state has seen ask for, in whatever  *)
(* order the kubelet lists them (health/policy.go:375-426), and a Node with   *)
(* pods that block eviction is drained under a bound.                         *)
RepairDecided ==
    \A n \in Nodes :
        /\ \A order \in SetToSeqs(DOMAIN seen[n].matches) :
            Decides(Resolve([i \in DOMAIN order |-> seen[n].matches[order[i]]], nodes[n].ended), n)
        /\ nodes[n].state # "up" /\ nodes[n].blocked => nodes[n].bound # Unset \/ nodes[n].tgp # Unset

(* Unhealthy for as long as its policies tolerate, and nothing that a user or *)
(* the provider has to change stands in the way.                              *)
Waiting(n) ==
    /\ nodes[n].state = "up" /\ ~nodes[n].veto
    /\ LET r == Resolve(Match(nodes[n]), nodes[n].ended)
       IN  r.action # "" /\ ~Unbounded(n, r)
    /\ ~breakerTripped(nodes[n].pool) /\ Pool(n).budget > 0
    /\ IF Pool(n).static THEN StaticCommand(n) # "skip" ELSE SimulatedCommand(n) # "skip"

(* What repair comes to once the Nodes are left alone: every unhealthy one is *)
(* repaired, by a reboot that helps, or by a replacement after                *)
(* rebootsBeforeReplacement that did not.                                     *)
AllRepaired == \A n \in Nodes : ~Waiting(n) /\ nodes[n].state = "up"
=============================================================================
