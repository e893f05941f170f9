------------------------------ MODULE Consolidation ------------------------------
(***************************************************************************)
(* The three consolidation methods of the disruption controller: Emptiness,*)
(* MultiNodeConsolidation and SingleNodeConsolidation.  A pass of a method *)
(* (a job) collects candidates, budgets and NodePool totals, simulates     *)
(* rescheduling one batch of candidates after another, and validates the   *)
(* command it settles on 15 seconds later.  Every simulation and check     *)
(* reads the cluster anew, so pods, nodes and offerings change in between. *)
(*                                                                         *)
(* Pods are of one size.  A node counts its pods and its cheap pods, the   *)
(* ones whose eviction cost clamps to zero.  The scheduler a simulation    *)
(* runs (module Scheduler) is abstracted to how many pods find room where. *)
(* The orchestration queue (module DisruptionQueue) is abstracted to       *)
(* StartCommand and Complete.                                              *)
(***************************************************************************)
EXTENDS InstanceTypes, SequencesExt

CONSTANTS
    Setups,           \* the clusters to start from
    MinInstanceTypesForSpotToSpotConsolidation,
    BalancedK,        \* v1.BalancedK
    MaxChanges,       \* bound: changes of the cluster from outside
    MaxTimeouts,      \* bound: passes of single-node consolidation cut short
    MaxNodes          \* bound: nodes ever created

VARIABLES
    setup,         \* the pools, their policies and budgets, the template of new nodes
    types,         \* instance type -> its record, with the offerings as they are now
    nodes,         \* node -> its state
    pending,       \* pods waiting for a node
    consolidated,  \* methods whose lastConsolidationState is the cluster's
    unseen,        \* SingleNodeConsolidation.PreviouslyUnseenNodePools
    job,           \* the pass in progress
    running,       \* the command the queue executes: its candidates and replacement
    last,          \* history: the last launch of a replacement
    missed,        \* history: passes in a row that timed out before they saw a pool
    changes, timeouts

env == <<setup, types, nodes, pending>>
vars == <<setup, types, nodes, pending, consolidated, unseen, job, running, last, missed, changes, timeouts>>

Methods == <<"Emptiness", "Multi", "Single">>
NoCmd == [cands |-> <<>>, its |-> {}, reqs |-> <<>>]
Nothing == [cands |-> {}, new |-> {}]
NoLaunch == [price |-> 0, source |-> 1, same |-> {}, steady |-> TRUE]

Decision(cmd) == IF cmd.cands = <<>> THEN "no-op" ELSE IF cmd.its = {} THEN "delete" ELSE "replace"

Names(cs) == {c.node : c \in ToSet(cs)}

(***************************************************************************)
(* Candidates.                                                             *)
(***************************************************************************)
NodePrice(n) ==
    LET ofs == {o \in types[n.type].offerings : Only(o, Zone) = n.zone /\ Only(o, CapacityType) = n.ct}
    IN  IF ofs = {} THEN 0 ELSE (CHOOSE o \in ofs : TRUE).price

\* One for the node itself and one for each pod that is not free to evict.
RescheduleDisruptionCost(n) == 1 + n.pods

IsEmpty(c) == c.cost <= 1

NewCandidate(id) ==
    LET n == nodes[id]
    IN  [node |-> id, pool |-> n.pool, type |-> n.type, ct |-> n.ct,
         price |-> NodePrice(n), cost |-> RescheduleDisruptionCost(n), pods |-> n.pods + n.cheap]

\* Initialized, not nominated, not being deleted: ValidateNodeDisruptable.
Candidates == {NewCandidate(id) : id \in {i \in DOMAIN nodes :
                   nodes[i].init /\ ~nodes[i].nominated /\ ~nodes[i].deleting}}

ShouldDisrupt(method, c) ==
    IF method = "Emptiness" THEN IsEmpty(c)
    ELSE ~IsEmpty(c) /\ setup.policy[c.pool] # "WhenEmpty"

GetCandidates(method) == {c \in Candidates : ShouldDisrupt(method, c)}

\* What a pool may still lose: its budget less the nodes already going.
BudgetMapping ==
    [p \in setup.pools |->
        LET going == Cardinality({i \in DOMAIN nodes : nodes[i].pool = p /\ nodes[i].init /\ nodes[i].deleting})
        IN  IF setup.budget[p] > going THEN setup.budget[p] - going ELSE 0]

\* Cost of the candidates, and disruption cost of every node, of a pool.
computeNodePoolTotals ==
    [p \in setup.pools |->
        [cost |-> MapThenSumSet(LAMBDA c : c.price, {c \in Candidates : c.pool = p}),
         disruption |-> MapThenSumSet(LAMBDA i : RescheduleDisruptionCost(nodes[i]),
                                        {i \in DOMAIN nodes : nodes[i].pool = p})]]

Before(s, a, b) == \E i, j \in DOMAIN s : i < j /\ s[i] = a /\ s[j] = b
RankInPool(s, c) == Cardinality({d \in ToSet(s) : d.pool = c.pool /\ Before(s, d, c)})

\* Highest price per unit of disruption first; equals in any order.
ByRatio(a, b) == a.price * b.cost >= b.price * a.cost
SortedCandidates(S) == {s \in SetToSeqs(S) : \A i, j \in DOMAIN s : i < j => ByRatio(s[i], s[j])}

ShuffledAnew(S) ==
    {s \in SetToSeqs(S) :
        /\ \A i, j \in DOMAIN s : i < j /\ s[i].pool = s[j].pool => ByRatio(s[i], s[j])
        /\ \A i, j \in DOMAIN s : i < j => RankInPool(s, s[i]) <= RankInPool(s, s[j])}

\* Sorted within each pool and interweaved by pool, the pools that earlier
\* passes did not reach first.
ShuffledCandidates(S) ==
    {s \in SetToSeqs(S) :
        /\ \A i, j \in DOMAIN s : i < j /\ s[i].pool = s[j].pool => ByRatio(s[i], s[j])
        /\ \E order \in SetToSeqs({c.pool : c \in S}) :
              /\ \A p, q \in ToSet(order) : p \in unseen /\ q \notin unseen => Before(order, p, q)
              /\ \A i, j \in DOMAIN s : i < j =>
                    \/ RankInPool(s, s[i]) < RankInPool(s, s[j])
                    \/ RankInPool(s, s[i]) = RankInPool(s, s[j]) /\ Before(order, s[i].pool, s[j].pool)}

\* The candidates the budgets let through, in order, each taking one unit.
WithinBudget(s, budget) == SelectSeq(s, LAMBDA c : RankInPool(s, c) < budget[c.pool])

(***************************************************************************)
(* SimulateScheduling: where the pods of the candidates, the pods of nodes *)
(* already going and the pending pods find room once the candidates are    *)
(* gone.  The candidates' pods are the ones they had when collected.       *)
(* Initialized nodes are filled first, then uninitialized ones, then new   *)
(* NodeClaims; which pod goes where depends on their order.                *)
(***************************************************************************)
Pods(id) == nodes[id].pods + nodes[id].cheap
Room(id) == types[nodes[id].type].cap - Pods(id)
SumPods(ids) == MapThenSumSet(Pods, ids)
SumRoom(ids) == MapThenSumSet(Room, ids)

Fitting(k, reqs) == {t \in DOMAIN types : fits(types[t], k, reqs)}

NewNodeClaims(left) ==
    LET size == {types[t].cap : t \in Fitting(1, setup.reqs)}
        full == (left - 1) \div Max(size)
    IN  IF left = 0 THEN [count |-> 0, its |-> {}, stranded |-> 0]
        ELSE IF size = {} THEN [count |-> 0, its |-> {}, stranded |-> left]
        ELSE [count |-> full + 1, its |-> Fitting(left - full * Max(size), setup.reqs), stranded |-> 0]

\* Pods of candidates must find a place on an initialized or a new node; pods
\* that were pending before may stay so.
Blocked(moved, others, uninitialized, stranded) ==
    {b \in BOOLEAN :
        IF b THEN (uninitialized > 0 /\ moved > 0) \/ (stranded > 0 /\ others + moved > pending)
             ELSE stranded <= pending /\ uninitialized + stranded <= others}

Simulate(cs) ==
    LET ids == {c.node : c \in cs}
        moved == MapThenSumSet(LAMBDA c : c.pods, cs)
        going == {i \in DOMAIN nodes : nodes[i].deleting}
        rest == DOMAIN nodes \ (going \cup ids)
        others == SumPods(going) + pending
        need == moved + others
        onReady == Min({need, SumRoom({i \in rest : nodes[i].init})})
        onUninitialized == Min({need - onReady, SumRoom({i \in rest : ~nodes[i].init})})
        new == NewNodeClaims(need - onReady - onUninitialized)
    IN  IF ids \cap going # {} THEN {[ok |-> FALSE, count |-> 0, its |-> {}]}
        ELSE {[ok |-> ~b, count |-> new.count, its |-> new.its] :
                b \in Blocked(moved, others, onUninitialized, new.stranded)}

(***************************************************************************)
(* computeConsolidation.  The sets of results stand for ties in price.     *)
(***************************************************************************)
SumPrices(cs) == MapThenSumSet(LAMBDA c : c.price, ToSet(cs))

NoDearer(its, reqs, maxPrice) ==
    {t \in its : WorstLaunchPrice(Launchable(types[t].offerings), reqs) <= maxPrice}

RemoveInstanceTypeOptionsByPrice(its, reqs, maxPrice) ==
    {t \in its : WorstLaunchPrice(Launchable(types[t].offerings), reqs) < maxPrice}

\* The options left, none when minValues is no longer met.
CheaperOptions(its, reqs, maxPrice) ==
    LET left == RemoveInstanceTypeOptionsByPrice(its, reqs, maxPrice)
    IN  IF SatisfiesMinValues(types, left, reqs) THEN left ELSE {}

WithFallback(reqs) == reqs
OnlySpot(reqs) == Add(reqs, CapacityType :> In({"spot"}))

hasSpotOffering(its, reqs) ==
    \E t \in its : CompatibleOfferings(CompatibleOfferings(Launchable(types[t].offerings), reqs),
                                       CapacityTypeClassRequirements("spot")) # {}

Replace(cs, its, reqs) == IF its = {} THEN NoCmd ELSE [cands |-> cs, its |-> its, reqs |-> reqs]

\* The cheapest options, no more than are needed for the flexibility asked for.
SpotOptions(its, reqs) ==
    LET Few == MinInstanceTypesForSpotToSpotConsolidation
        First(S, n) == FirstByPrice(types, S, setup.reqs, n)
    IN  {S \in UNION {First(its, n) : n \in Few..Cardinality(its)} :
            /\ SatisfiesMinValues(types, S, reqs)
            /\ Cardinality(S) > Few =>
                  \A R \in First(S, Cardinality(S) - 1) : ~SatisfiesMinValues(types, R, reqs)}

computeSpotToSpotConsolidation(cs, its, price) ==
    LET reqs == OnlySpot(setup.reqs)
        spot == {t \in its : CompatibleOfferings(Available(types[t].offerings), reqs) # {}}
        left == CheaperOptions(spot, reqs, price)
    IN  IF ~setup.spotToSpot THEN {NoCmd}
        ELSE IF Len(cs) > 1 THEN {Replace(cs, left, reqs)}
        ELSE IF Cardinality(left) < MinInstanceTypesForSpotToSpotConsolidation THEN {NoCmd}
        ELSE {Replace(cs, S, reqs) : S \in SpotOptions(left, reqs)}

computeConsolidation(cs, r) ==
    LET allSpot == \A c \in ToSet(cs) : c.ct = "spot"
        ct == Get(setup.reqs, CapacityType)
        left == CheaperOptions(r.its, setup.reqs, SumPrices(cs))
        both == HasCapacityTypeClass(ct, "spot") /\ HasCapacityTypeClass(ct, "on-demand")
    IN  IF ~r.ok \/ r.count > 1 THEN {NoCmd}
        ELSE IF r.count = 0 THEN {[NoCmd EXCEPT !.cands = cs]}
        ELSE IF allSpot /\ Has(ct, "spot") THEN computeSpotToSpotConsolidation(cs, r.its, SumPrices(cs))
        ELSE {Replace(cs, left, IF both /\ hasSpotOffering(left, setup.reqs)
                                THEN OnlySpot(setup.reqs) ELSE setup.reqs)}

\* Multi-node: with a candidate's own type among the options, the replacement
\* must be cheaper than the cheapest such candidate, or it could just stay.
filterOutSameInstanceType(cmd) ==
    LET Known(t) == {c.price : c \in {d \in ToSet(cmd.cands) : d.type = t /\ d.price > 0}}
        same == cmd.its \cap {c.type : c \in ToSet(cmd.cands)}
        caps == {IF Known(t) = {} THEN 0 ELSE Min(Known(t)) : t \in same}
    IN  IF same = {} \/ cmd.its = {} THEN cmd
        ELSE Replace(cmd.cands, CheaperOptions(cmd.its, cmd.reqs, Min(caps)), cmd.reqs)

(***************************************************************************)
(* Balanced scoring.  Fractions are compared by multiplying out.           *)
(***************************************************************************)
SourceCost(cmd) == SumPrices(cmd.cands)

\* The price of the first option; with no offering of it left, nothing.
DestinationCosts(cmd) ==
    IF cmd.its = {} THEN {0}
    ELSE LET Price(t) == CheapestLaunch(types[t], cmd.reqs)
         IN  {IF Price(t) = MaxPrice THEN 0 ELSE Price(t) :
                t \in UNION FirstByPrice(types, cmd.its, setup.reqs, 1)}

\* savings / by of the total cost against disruption of the total disruption.
Approved(savings, by, disruption, totals) ==
    /\ totals.cost > 0 /\ totals.disruption > 0
    /\ savings > 0
    /\ savings * totals.disruption * BalancedK >= disruption * totals.cost * by

CandidatesOf(cmd, p) == {c \in ToSet(cmd.cands) : c.pool = p}
PoolDisruptionCost(cmd, p) == MapThenSumSet(LAMBDA c : c.cost, CandidatesOf(cmd, p))

EvaluateBalancedMove(cmd, savings, totals) ==
    LET pools == {c.pool : c \in ToSet(cmd.cands)}
        Price(p) == MapThenSumSet(LAMBDA c : c.price, CandidatesOf(cmd, p))
        Cost(p) == PoolDisruptionCost(cmd, p)
        Shared == SourceCost(cmd) > 0 /\ Cardinality(pools) > 1
    IN  \A p \in pools : setup.policy[p] = "Balanced" =>
            IF Shared THEN Approved(savings * Price(p), SourceCost(cmd), Cost(p), totals[p])
                      ELSE Approved(savings, 1, Cost(p), totals[p])

ApproveCommand(cmd, totals) ==
    {EvaluateBalancedMove(cmd, SourceCost(cmd) - dest, totals) : dest \in DestinationCosts(cmd)}

\* Deleting the candidate, without a replacement to pay for, would be approved.
CanPassThreshold(c, totals) ==
    setup.policy[c.pool] # "Balanced" \/ totals[c.pool].cost <= 0
    \/ Approved(c.price, 1, c.cost, totals[c.pool])

(***************************************************************************)
(* The passes of the methods.                                              *)
(***************************************************************************)
Idle(turn) == [phase |-> "idle", turn |-> turn]
Pass(method) == IF method = "Single" THEN Idle(1) ELSE Idle(IF method = "Multi" THEN 3 ELSE 2)

\* Nothing found: unless a budget was the reason, wait for the cluster to change.
Conclude(method, constrained) ==
    /\ consolidated' = IF constrained THEN consolidated ELSE consolidated \cup {method}
    /\ job' = Pass(method)

\* GetCandidates finds nothing, or nothing changed since the last time.
Skip ==
    /\ job.phase = "idle"
    /\ GetCandidates(Methods[job.turn]) = {} \/ Methods[job.turn] \in consolidated
    /\ job' = Pass(Methods[job.turn])
    /\ UNCHANGED <<env, consolidated, unseen, running, last, missed, changes, timeouts>>

\* A command under way: its candidates as last checked, whether no offering
\* came back, and whether room was taken since that check.
Wait(method, cmd) ==
    [phase |-> "wait", method |-> method, cmd |-> cmd, checked |-> {}, steady |-> TRUE, late |-> FALSE]

Starts(method) == job.phase = "idle" /\ Methods[job.turn] = method
                  /\ GetCandidates(method) # {} /\ method \notin consolidated

Emptiness ==
    /\ Starts("Emptiness")
    /\ \E s \in SortedCandidates(GetCandidates("Emptiness")) :
          LET empty == WithinBudget(s, BudgetMapping)
          IN  IF empty = <<>> THEN Conclude("Emptiness", empty # s)
              ELSE /\ job' = Wait("Emptiness", [NoCmd EXCEPT !.cands = empty])
                   /\ UNCHANGED consolidated
    /\ UNCHANGED <<env, unseen, running, last, missed, changes, timeouts>>

Multi ==
    /\ Starts("Multi")
    /\ \E s \in SortedCandidates(GetCandidates("Multi")) :
          LET cs == WithinBudget(s, BudgetMapping)
          IN  job' = [phase |-> "search", cands |-> cs, min |-> 1, max |-> Len(cs) - 1, saved |-> NoCmd,
                      constrained |-> cs # s, totals |-> computeNodePoolTotals, steady |-> TRUE]
    /\ UNCHANGED <<env, consolidated, unseen, running, last, missed, changes, timeouts>>

\* One round of the binary search for the longest prefix that consolidates.
Search ==
    /\ job.phase = "search" /\ job.min <= job.max
    /\ LET mid == (job.min + job.max) \div 2
           batch == SubSeq(job.cands, 1, mid + 1)
       IN  \E r \in Simulate(ToSet(batch)) : \E c \in computeConsolidation(batch, r) :
           \E cmd \in {filterOutSameInstanceType(c)} : \E approved \in ApproveCommand(cmd, job.totals) :
              job' = IF Decision(cmd) # "no-op" /\ approved
                     THEN [job EXCEPT !.saved = cmd, !.min = mid + 1, !.steady = TRUE]
                     ELSE [job EXCEPT !.max = mid - 1]
    /\ UNCHANGED <<env, consolidated, unseen, running, last, missed, changes, timeouts>>

SearchEnds ==
    /\ job.phase = "search" /\ job.min > job.max
    /\ IF job.saved = NoCmd THEN Conclude("Multi", job.constrained)
       ELSE job' = [Wait("Multi", job.saved) EXCEPT !.steady = job.steady] /\ UNCHANGED consolidated
    /\ UNCHANGED <<env, unseen, running, last, missed, changes, timeouts>>

\* The minute is over: the last saved command is used, or, as if the search had
\* ended, none.
SearchTimesOut ==
    /\ job.phase = "search" /\ job.min <= job.max
    /\ timeouts < MaxTimeouts /\ timeouts' = timeouts + 1
    /\ job' = [job EXCEPT !.max = job.min - 1]
    /\ UNCHANGED <<env, consolidated, unseen, running, last, missed, changes>>

\* The API server fails: the whole loop starts over.
SearchFails ==
    /\ job.phase = "search" /\ job.min <= job.max
    /\ changes < MaxChanges /\ changes' = changes + 1
    /\ job' = Idle(1)
    /\ UNCHANGED <<env, consolidated, unseen, running, last, missed, timeouts>>

Single ==
    /\ Starts("Single")
    /\ \E s \in ShuffledCandidates(GetCandidates("Single")) :
          job' = [phase |-> "single", cands |-> s, next |-> 1, budget |-> BudgetMapping,
                  unseen |-> {c.pool : c \in ToSet(s)}, constrained |-> FALSE, totals |-> computeNodePoolTotals]
    /\ UNCHANGED <<env, consolidated, unseen, running, last, missed, changes, timeouts>>

Seen(p) == missed' = [missed EXCEPT ![p] = 0]

\* The next candidate of a single-node pass.
Consider ==
    /\ job.phase = "single" /\ job.next <= Len(job.cands)
    /\ LET c == job.cands[job.next]
           on == [job EXCEPT !.next = @ + 1, !.unseen = @ \ {c.pool}]
       IN  /\ IF job.budget[c.pool] = 0 THEN job' = [on EXCEPT !.constrained = TRUE]
              ELSE IF ~CanPassThreshold(c, job.totals) THEN job' = on
              ELSE \E r \in Simulate({c}) : \E cmd \in computeConsolidation(<<c>>, r) :
                   \E approved \in ApproveCommand(cmd, job.totals) :
                      job' = IF Decision(cmd) # "no-op" /\ approved THEN Wait("Single", cmd) ELSE on
           /\ Seen(c.pool)
    /\ UNCHANGED <<env, consolidated, unseen, running, last, changes, timeouts>>

SingleEnds ==
    /\ job.phase = "single" /\ job.next > Len(job.cands)
    /\ Conclude("Single", job.constrained)
    /\ unseen' = job.unseen
    /\ UNCHANGED <<env, running, last, missed, changes, timeouts>>

\* Three minutes are over; the first candidate is looked at in any case.
SingleTimesOut ==
    /\ job.phase = "single" /\ job.next \in 2..Len(job.cands)
    /\ timeouts < MaxTimeouts /\ timeouts' = timeouts + 1
    /\ unseen' = job.unseen
    /\ job' = Pass("Single")
    /\ missed' = [p \in DOMAIN missed |-> IF p \in job.unseen THEN missed[p] + 1 ELSE missed[p]]
    /\ UNCHANGED <<env, consolidated, running, last, changes>>

(***************************************************************************)
(* Validation: the candidates, the command, the candidates again.          *)
(***************************************************************************)
\* The candidates as they are now, if each still is one and the budgets allow
\* them all; for Emptiness, those for which it is so.
validateCandidates(method, cs) ==
    LET now == {c \in GetCandidates(method) : c.node \in Names(cs)}
        kept == {ToSet(WithinBudget(s, BudgetMapping)) : s \in SetToSeqs(now)}
    IN  IF method = "Emptiness" THEN kept
        ELSE IF Cardinality(now) = Len(cs) /\ now \in kept THEN {now} ELSE {{}}

SomeInCommon(lhs, rhs) == lhs \cap rhs # {}
instanceTypesAreSubset(lhs, rhs) == lhs \subseteq rhs

validateCommand(cmd, r) ==
    /\ r.ok
    /\ IF cmd.its = {} THEN r.count = 0
       ELSE r.count = 1 /\ instanceTypesAreSubset(cmd.its, r.its)

Abandon == job' = Pass(job.method) /\ UNCHANGED <<env, running, last>>

ValidateCandidates ==
    /\ job.phase = "wait" /\ job.method # "Emptiness"
    /\ \E S \in validateCandidates(job.method, job.cmd.cands) :
          IF S = {} THEN Abandon
          ELSE job' = [job EXCEPT !.phase = "command", !.checked = S, !.late = FALSE] /\ UNCHANGED <<env, running, last>>
    /\ UNCHANGED <<consolidated, unseen, missed, changes, timeouts>>

\* A candidate that is deleting by now is an error: the loop starts over.
ValidateCommand ==
    /\ job.phase = "command"
    /\ IF \E c \in job.checked : c.node \in DOMAIN nodes /\ nodes[c.node].deleting
       THEN job' = Idle(1) /\ UNCHANGED <<env, running, last>>
       ELSE \E r \in Simulate(job.checked) :
              IF validateCommand(job.cmd, r)
              THEN job' = [job EXCEPT !.phase = "recheck"] /\ UNCHANGED <<env, running, last>>
              ELSE Abandon
    /\ UNCHANGED <<consolidated, unseen, missed, changes, timeouts>>

(***************************************************************************)
(* The queue: the candidates are marked and the replacement launched.  The *)
(* cloud provider may pick any option and, of its launchable offerings, any*)
(* of the first class in the order of precedence.                          *)
(***************************************************************************)
LaunchOfferings(t, reqs) ==
    LET OfClass(i) == CompatibleOfferings(CompatibleOfferings(Launchable(types[t].offerings), reqs),
                          CapacityTypeClassRequirements(CapacityTypeClassPrecedence[i]))
        classes == {i \in 1..3 : OfClass(i) # {}}
    IN  IF classes = {} THEN {} ELSE OfClass(Min(classes))

FreeId == Min((1..MaxNodes) \ DOMAIN nodes)

Mark(ids) == [i \in DOMAIN nodes |-> [nodes[i] EXCEPT !.deleting = @ \/ i \in ids]]

Launch(cmd) ==
    \E t \in cmd.its : \E o \in LaunchOfferings(t, cmd.reqs) :
        /\ nodes' = FreeId :> [pool |-> setup.new, type |-> t, ct |-> Only(o, CapacityType), zone |-> Only(o, Zone),
                               pods |-> 0, cheap |-> 0, init |-> FALSE, nominated |-> FALSE, deleting |-> FALSE]
                    @@ Mark(Names(cmd.cands))
        /\ running' = running \cup {[cands |-> Names(cmd.cands), new |-> {FreeId}]}
        /\ last' = [price |-> o.price, source |-> SourceCost(cmd), steady |-> job.steady,
                    same |-> IF job.method # "Multi" THEN {}
                             ELSE {c.price : c \in {d \in ToSet(cmd.cands) : d.type = t}}]

Delete(ids) ==
    /\ nodes' = Mark(ids)
    /\ running' = running \cup {[cands |-> ids, new |-> {}]}
    /\ UNCHANGED last

Started == job' = Idle(1) /\ consolidated' = {}

StartEmptiness ==
    /\ job.phase = "wait" /\ job.method = "Emptiness"
    /\ \E S \in validateCandidates("Emptiness", job.cmd.cands) :
          IF S = {} THEN Abandon /\ UNCHANGED consolidated
                    ELSE Delete({c.node : c \in S}) /\ Started
    /\ UNCHANGED <<setup, types, pending, unseen, missed, changes, timeouts>>

StartCommand ==
    /\ job.phase = "recheck"
    /\ \E S \in validateCandidates(job.method, job.cmd.cands) :
          IF S = {} THEN Abandon /\ UNCHANGED consolidated
          ELSE IF job.cmd.its = {} THEN Delete(Names(job.cmd.cands)) /\ Started
          ELSE IF \A t \in job.cmd.its : LaunchOfferings(t, job.cmd.reqs) = {}
          THEN job' = Idle(1) /\ UNCHANGED <<nodes, running, last, consolidated>>
          ELSE Launch(job.cmd) /\ Started
    /\ UNCHANGED <<setup, types, pending, unseen, missed, changes, timeouts>>

\* A change while a job is under way, as far as the properties tell it apart.
Meanwhile(taken, flipped) ==
    job' = IF job.phase \in {"wait", "command", "recheck"}
           THEN [job EXCEPT !.late = @ \/ taken, !.steady = @ /\ ~flipped]
           ELSE IF job.phase = "search" THEN [job EXCEPT !.steady = @ /\ ~flipped]
           ELSE job

\* k pods spread over the nodes ids, lowest first, given the room of each.
Share(k, id, ids, room) ==
    LET before == MapThenSumSet(LAMBDA j : room[j], {j \in ids : j < id})
    IN  IF k <= before THEN 0 ELSE Min({k - before, room[id]})

\* The replacement is initialized, the candidates are drained and go.
Complete(c) ==
    LET up == [i \in DOMAIN nodes |-> [nodes[i] EXCEPT !.init = @ \/ i \in c.new]]
        ids == {i \in DOMAIN nodes : up[i].init /\ ~up[i].deleting}
        room == [i \in ids |-> Room(i)]
        pods == MapThenSumSet(LAMBDA i : nodes[i].pods, c.cands \cap DOMAIN nodes)
        cheap == MapThenSumSet(LAMBDA i : nodes[i].cheap, c.cands \cap DOMAIN nodes)
        rest == [i \in ids |-> room[i] - Share(pods, i, ids, room)]
        short == pods + cheap - SumRoom(ids)
    IN  /\ c \in running
        /\ nodes' = [i \in DOMAIN nodes \ c.cands |->
                        IF i \in ids
                        THEN [up[i] EXCEPT !.pods = @ + Share(pods, i, ids, room),
                                           !.cheap = @ + Share(cheap, i, ids, rest)]
                        ELSE up[i]]
        /\ pending' = pending + (IF short > 0 THEN short ELSE 0)
        /\ running' = running \ {c}
        /\ consolidated' = {}
        /\ Meanwhile(TRUE, FALSE)
        /\ UNCHANGED <<setup, types, unseen, last, missed, changes, timeouts>>

(***************************************************************************)
(* Everything else that changes the cluster.                               *)
(***************************************************************************)
Change == changes < MaxChanges /\ changes' = changes + 1

PodArrives ==
    /\ Change
    /\ pending' = pending + 1
    /\ UNCHANGED <<setup, types, nodes, consolidated, unseen, job, running, last, missed, timeouts>>

Bind(id) ==
    /\ pending > 0 /\ Room(id) > 0 /\ ~nodes[id].deleting /\ nodes[id].init
    /\ pending' = pending - 1
    /\ nodes' = [nodes EXCEPT ![id].pods = @ + 1]
    /\ consolidated' = {}
    /\ Meanwhile(TRUE, FALSE)
    /\ UNCHANGED <<setup, types, unseen, running, last, missed, changes, timeouts>>

PodGone(id) ==
    /\ Change /\ nodes[id].pods > 0
    /\ nodes' = [nodes EXCEPT ![id].pods = @ - 1]
    /\ consolidated' = {}
    /\ UNCHANGED <<setup, types, pending, unseen, job, running, last, missed, timeouts>>

Nominate(id) ==
    /\ Change /\ ~nodes[id].deleting
    /\ nodes' = [nodes EXCEPT ![id].nominated = ~@]
    /\ UNCHANGED <<setup, types, pending, consolidated, unseen, job, running, last, missed, timeouts>>

DeletedElsewhere(id) ==
    /\ Change /\ ~nodes[id].deleting
    /\ nodes' = [nodes EXCEPT ![id].deleting = TRUE]
    /\ consolidated' = {}
    /\ Meanwhile(TRUE, FALSE)
    /\ UNCHANGED <<setup, types, pending, unseen, running, last, missed, timeouts>>

Terminates(id) ==
    /\ nodes[id].deleting /\ \A c \in running : id \notin c.cands \cup c.new
    /\ nodes' = [i \in DOMAIN nodes \ {id} |-> nodes[i]]
    /\ pending' = pending + Pods(id)
    /\ consolidated' = {}
    /\ UNCHANGED <<setup, types, unseen, job, running, last, missed, changes, timeouts>>

\* An offering runs out or comes back: the cluster state does not notice.
Flip(t, o) ==
    /\ Change
    /\ types' = [types EXCEPT ![t].offerings = (@ \ {o}) \cup {[o EXCEPT !.available = ~@]}]
    /\ Meanwhile(FALSE, ~o.available)
    /\ UNCHANGED <<setup, nodes, pending, consolidated, unseen, running, last, missed, timeouts>>

NeverExpires == FALSE /\ UNCHANGED vars
\* Five minutes after the last change ConsolidationState moves on its own.
Expire ==
    /\ consolidated # {}
    /\ consolidated' = {}
    /\ UNCHANGED <<env, unseen, job, running, last, missed, changes, timeouts>>

InitFrom(S) ==
    /\ setup \in S
    /\ types = setup.types /\ nodes = setup.nodes /\ pending = setup.pending
    /\ consolidated = {} /\ unseen = {} /\ job = Idle(1) /\ running = {}
    /\ last = NoLaunch /\ missed = [p \in setup.pools |-> 0]
    /\ changes = 0 /\ timeouts = 0

Init == InitFrom(Setups)

Loop == \/ Skip \/ Emptiness \/ Multi \/ Search \/ SearchEnds
        \/ Single \/ Consider \/ SingleEnds
        \/ ValidateCandidates \/ ValidateCommand \/ StartEmptiness \/ StartCommand

Queue == \E c \in running : Complete(c)

Environment ==
    \/ SearchTimesOut \/ SearchFails \/ SingleTimesOut \/ PodArrives
    \/ \E id \in DOMAIN nodes : Bind(id) \/ PodGone(id) \/ Nominate(id) \/ DeletedElsewhere(id) \/ Terminates(id)
    \/ \E t \in DOMAIN types : \E o \in types[t].offerings : Flip(t, o)

Next == Loop \/ Queue \/ Expire \/ Environment

NothingRuns == running = {}

\* The loop never stops (every step of Loop changes job, and between two of them
\* the other steps that do are few), a command ends (every step of Queue shrinks
\* running), and ConsolidationState expires.
Fairness ==
    /\ []<><<TRUE>>_job
    /\ []<>NothingRuns \/ []<><<TRUE>>_running
    /\ WF_vars(Expire)
Spec == Init /\ [][Next]_vars /\ Fairness

(***************************************************************************)
(* Properties.                                                             *)
(***************************************************************************)
TypeOK ==
    /\ pending \in Nat /\ consolidated \subseteq ToSet(Methods) /\ unseen \subseteq setup.pools
    /\ DOMAIN nodes \subseteq 1..MaxNodes

\* A replacement, whichever of its options the cloud provider launches, costs
\* less than the nodes it replaces together, and for a multi-node command less
\* than any node of its own type among them (RemoveInstanceTypeOptionsByPrice-
\* AndMinValues, filterOutSameInstanceType and the requirement for spot keep an
\* on-demand fallback from being launched), even when offerings have run out since
\* the command was computed.  An offering that came back may cost more.
CheaperLaunch ==
    last.steady => last.price < last.source /\ \A p \in last.same : last.price < p

StartedWithRoom ==
    \A c \in running' \ running :
        ~job.late =>
            LET ready == {i \in DOMAIN nodes' : nodes'[i].init /\ ~nodes'[i].deleting} \cup c.new
                need == MapThenSumSet(LAMBDA i : nodes[i].pods, c.cands)
            IN  need <= MapThenSumSet(LAMBDA i : types[nodes'[i].type].cap - nodes'[i].pods - nodes'[i].cheap, ready)

\* When a command starts, the pods of its candidates have room on the nodes that
\* stay and on the replacement, whichever type it is: validateCommand repeats the
\* simulation after the delay.  Excepted are pods bound and nodes deleted after the
\* candidates were checked, and pods that cost nothing to evict.
RoomKept == [][StartedWithRoom]_vars

\* Once the cluster is left alone consolidation comes to rest: replacing gets
\* cheaper every time and deleting removes a node, so no sequence of commands
\* repeats itself.
ConsolidationSettles == <>[][nodes' = nodes]_nodes

\* A node whose removal or replacement every simulation offers, the budget and the
\* score allowing it.
Move(c) ==
    /\ BudgetMapping[c.pool] > 0
    /\ \A r \in Simulate({c}) : \A cmd \in computeConsolidation(<<c>>, r) :
          Decision(cmd) # "no-op" /\ ApproveCommand(cmd, computeNodePoolTotals) = {TRUE}

\* No saving is left behind for good: markConsolidated records the state of the
\* cluster at the end of a pass, so a change during the pass is missed, and a pass
\* that timed out counts as done; ConsolidationState expires, and the node is
\* looked at again.  Nor does CanPassThreshold drop a node that would be approved.
NoMoveLeft == \A c \in GetCandidates("Single") : ~Move(c)
MovesTaken == <>[]NoMoveLeft

\* Single-node consolidation cut short by its timeout takes the pools in turn: of
\* two pools, none is left out of two such passes in a row.
PoolsTakeTurns == \A p \in setup.pools : missed[p] <= 1
==================================================================================
