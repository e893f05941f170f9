--------------------------- MODULE DisruptionQueue ---------------------------
(***************************************************************************)
(* Voluntary disruption: the singleton disruption controller, which cleans *)
(* up after earlier commands, computes budgets and candidates and starts a *)
(* command, and the orchestration queue, which waits for the replacements  *)
(* of a command and deletes its candidates or gives up.  Cluster state is  *)
(* the set of nodes marked for deletion plus the claims as the informer    *)
(* has seen them.                                                          *)
(*                                                                         *)
(* Which nodes a method likes (policy, pods, budgets of pods, nominations, *)
(* the scheduling simulation) is free: any subset of the disruptable nodes *)
(* within the budget.  Static NodePools are in StaticCapacity.             *)
(***************************************************************************)
EXTENDS Integers, Sequences, FiniteSets, FiniteSetsExt

CONSTANTS
    Nodes,          \* initialized nodes, each with its NodeClaim
    Pool,           \* Nodes -> NodePools
    Pools,          \* NodePools
    Lag,            \* which informers can be behind: "claim", "node"
    MinRetry, MaxRetry, RetryScale,   \* retry durations, in ticks
    MaxCmds, MaxRepl, MaxAge,         \* bounds: commands at once, replacements of one, its age
    Scenarios       \* the nodes there are, the budgets of each NodePool, the reasons of the
                    \* methods in the order of NewMethods, and bounds: replacements and age of a
                    \* command, API errors, deletions by others, changes of readiness, restarts

Reasons == {"Unhealthy", "Empty", "Drifted", "Underutilized"}

Budgets == [percent : BOOLEAN, nodes : Nat, reasons : SUBSET Reasons]
Environments ==
    [nodes : SUBSET Nodes, budgets : [Pools -> SUBSET Budgets], methods : Seq(Reasons), repl : 0..MaxRepl,
     age : 0..MaxAge, errors : Nat, external : Nat, flips : Nat, restarts : Nat]

ASSUME DisruptionAssumption ==
    /\ IsFiniteSet(Nodes) /\ Pool \in [Nodes -> Pools] /\ Lag \subseteq {"claim", "node"}
    /\ {MinRetry, MaxRetry, RetryScale, MaxCmds, MaxRepl, MaxAge} \subseteq Nat /\ MinRetry <= MaxRetry
    /\ Scenarios \subseteq Environments /\ \A s \in Scenarios : s.methods # <<>>

VARIABLES
    claim,      \* the NodeClaim of each node on the API server
    seen,       \* the same as cluster state has it
    byCmd,      \* deleting nodes whose claim a command deleted (history)
    node,       \* the disrupted taint of each Node, and the taint a read returns
    notReady,   \* nodes that are NotReady
    marked,     \* StateNode.markedForDeletion
    ctl,        \* the disruption controller: where it is, and its method
    cmds,       \* commands by id
    queue,      \* Queue.ProviderIDToCommand, 0 for no entry
    env         \* the scenario, with the disturbances left

vars == <<claim, seen, byCmd, node, notReady, marked, ctl, cmds, queue, env>>

Ids == 1..MaxCmds
ClaimPhases == {"live", "deleting", "terminating", "gone"}

(* A command: its candidates, the one whose claim is its key in the          *)
(* workqueue, how many replacements it plans, their claims once created and  *)
(* the ones it knows to be initialized, its age and its retry duration.      *)
Cmds == [phase : {"none", "draft", "wait", "dropped", "delete", "rollback", "complete"},
         reason : Reasons, cands : SUBSET Nodes, key : SUBSET Nodes, k : 0..MaxRepl,
         repl : Seq({"new", "seen", "init", "gone", "lost"}), known : SUBSET Nat,
         age : 0..MaxAge, limit : 0..MaxRetry, ok : BOOLEAN]
NoCmd == [phase |-> "none", reason |-> "Empty", cands |-> {}, key |-> {}, k |-> 0,
          repl |-> <<>>, known |-> {}, age |-> 0, limit |-> 0, ok |-> FALSE]
Controllers == [pc : {"idle", "method", "validate", "start", "create", "mark", "enqueue"}, m : Nat, c : 0..MaxCmds]
Idle == [pc |-> "idle", m |-> 1, c |-> 0]

-----------------------------------------------------------------------------
(* Budgets *)

GetAllowedDisruptions(b, numNodes) ==
    IF b.percent THEN (b.nodes * numNodes + 99) \div 100 ELSE b.nodes

Unlimited == 2147483647

GetAllowedDisruptionsByReason(p, r, numNodes) ==
    Min({Unlimited} \cup {GetAllowedDisruptions(b, numNodes) : b \in {x \in env.budgets[p] : r \in x.reasons}})

MarkedForDeletion(n) == n \in marked \/ seen[n] \in {"deleting", "terminating"}

(* A node whose instance is terminating counts neither way. *)
Counted(p) == {n \in Nodes : Pool[n] = p /\ seen[n] \in {"live", "deleting"}}

OnlyDeleting(p, r) ==
    {n \in Counted(p) : seen[n] = "deleting" \/ (n \in notReady /\ r # "Unhealthy")}

Disrupting(p, r) ==
    {n \in Counted(p) : MarkedForDeletion(n) \/ (n \in notReady /\ r # "Unhealthy")}

Budget(p, r) ==
    Max({0, GetAllowedDisruptionsByReason(p, r, Cardinality(Counted(p))) - Cardinality(Disrupting(p, r))})

WithinBudget(C, r) ==
    \A p \in Pools : Cardinality({n \in C : Pool[n] = p}) <= Budget(p, r)

HasAny(C) == \E n \in C : queue[n] # 0
Disruptable == {n \in Nodes : seen[n] = "live" /\ n \notin marked /\ queue[n] = 0}

-----------------------------------------------------------------------------
(* RequireNoScheduleTaint on one node.  It reads the Node, changes nothing   *)
(* when the read has the wanted taint, and else patches under the read's     *)
(* resource version; retries that run out are an error.                      *)

Tainted(n, v) == [node[n] EXCEPT !.taint = v, !.seen = IF "node" \in Lag THEN @ ELSE v]
TaintResults(n, add) ==
    LET keep(ok, cost) == [ok |-> ok, node |-> node[n], cost |-> cost]
    IN  CASE seen[n] = "gone" \/ node[n].seen = add -> {keep(TRUE, 0)}
          [] node[n].seen # node[n].taint           -> {keep(FALSE, 0)}
          [] OTHER -> {[ok |-> TRUE, node |-> Tainted(n, add), cost |-> 0], keep(FALSE, 1)}

(* A result for each node of C within the errors left. *)
Cost(f) == Cardinality({n \in DOMAIN f : f[n].cost # 0})
TaintAll(C, add) ==
    {f \in [C -> UNION {TaintResults(n, add) : n \in C}] :
        (\A n \in C : f[n] \in TaintResults(n, add)) /\ Cost(f) <= env.errors}
After(f) == [n \in Nodes |-> IF n \in DOMAIN f THEN f[n].node ELSE node[n]]
Spend(k) == env' = [env EXCEPT !.errors = @ - k]

-----------------------------------------------------------------------------
(* The disruption controller *)

EveryNode == {n \in Nodes : seen[n] # "gone"}
NoNode == {}

Outdated == {n \in Nodes : seen[n] # "gone" /\ queue[n] = 0 /\ ~MarkedForDeletion(n)}

Goto(pc) == ctl' = [ctl EXCEPT !.pc = pc]
SetCmd(c, r) == cmds' = [cmds EXCEPT ![c] = r]

Cleanup ==
    /\ ctl.pc = "idle"
    /\ \E f \in TaintAll(Outdated, FALSE) :
          /\ node' = After(f)
          /\ Spend(Cost(f))
          /\ ctl' = IF \A n \in DOMAIN f : f[n].ok THEN [Idle EXCEPT !.pc = "method"] ELSE Idle
    /\ UNCHANGED <<claim, seen, byCmd, notReady, marked, cmds, queue>>

NextMethod == IF ctl.m < Len(env.methods) THEN [ctl EXCEPT !.pc = "method", !.m = @ + 1, !.c = 0] ELSE Idle

MethodPasses ==
    /\ ctl.pc = "method"
    /\ ctl' = NextMethod
    /\ UNCHANGED <<claim, seen, byCmd, node, notReady, marked, cmds, queue, env>>

(* A method offers candidates within its budget.  Emptiness and              *)
(* consolidation wait and validate them; drift and repair, which take one    *)
(* candidate, start at once.                                                 *)
Single(r) == r \in {"Unhealthy", "Drifted"}

ComputeCommands(C, k) ==
    LET r == env.methods[ctl.m]
    IN  /\ ctl.pc = "method"
        /\ C # {} /\ C \subseteq Disruptable /\ WithinBudget(C, r)
        /\ Single(r) => Cardinality(C) = 1
        /\ k <= CASE r = "Empty" -> 0 [] r = "Underutilized" -> 1 [] OTHER -> env.repl
        /\ \E c \in Ids :
              /\ cmds[c] = NoCmd /\ \A d \in 1..(c - 1) : cmds[d] # NoCmd
              /\ SetCmd(c, [NoCmd EXCEPT !.phase = "draft", !.reason = r, !.cands = C, !.k = k])
              /\ ctl' = [ctl EXCEPT !.pc = IF Single(r) THEN "start" ELSE "validate", !.c = c]
        /\ UNCHANGED <<claim, seen, byCmd, node, notReady, marked, queue, env>>

(* Emptiness keeps the candidates that are still valid, consolidation wants  *)
(* all of them.                                                              *)
Validate(V) ==
    LET c == ctl.c
        cmd == cmds[c]
    IN  /\ ctl.pc = "validate"
        /\ V # {} /\ V \subseteq cmd.cands \cap Disruptable /\ WithinBudget(V, cmd.reason)
        /\ cmd.reason = "Underutilized" => V = cmd.cands
        /\ SetCmd(c, [cmd EXCEPT !.cands = V])
        /\ Goto("start")
        /\ UNCHANGED <<claim, seen, byCmd, node, notReady, marked, queue, env>>

Invalid ==
    /\ ctl.pc = "validate"
    /\ SetCmd(ctl.c, NoCmd)
    /\ ctl' = NextMethod
    /\ UNCHANGED <<claim, seen, byCmd, node, notReady, marked, queue, env>>

-----------------------------------------------------------------------------
(* Queue.StartCommand *)

Abandon == SetCmd(ctl.c, NoCmd) /\ ctl' = Idle

(* markDisrupted: the taint, and then the claim's condition, whose patch can *)
(* fail too (E).  Only a delete can go on without some of its candidates.    *)
MarksEarly(E) ==
    /\ ctl.pc = "start" /\ E = {}
    /\ \E f \in TaintAll(cmds[ctl.c].cands, TRUE) : node' = After(f) /\ Spend(Cost(f))
    /\ marked' = marked \cup cmds[ctl.c].cands
    /\ Goto("create")
    /\ UNCHANGED <<claim, seen, byCmd, notReady, cmds, queue>>

MarkDisrupted(E) ==
    LET cmd == cmds[ctl.c]
    IN  /\ ctl.pc = "start"
        /\ E \subseteq cmd.cands
        /\ IF HasAny(cmd.cands) THEN Abandon /\ UNCHANGED <<node, env>>
           ELSE \E f \in TaintAll(cmd.cands, TRUE) :
                  LET ok == {n \in cmd.cands : f[n].ok} \ E
                  IN  /\ Cost(f) + Cardinality(E) <= env.errors
                      /\ node' = After(f)
                      /\ Spend(Cost(f) + Cardinality(E))
                      /\ IF ok # cmd.cands /\ (cmd.k > 0 \/ ok = {}) THEN Abandon
                         ELSE SetCmd(ctl.c, [cmd EXCEPT !.cands = ok]) /\ Goto("create")
        /\ UNCHANGED <<claim, seen, byCmd, notReady, marked, queue>>

CreateReplacements ==
    LET cmd == cmds[ctl.c]
    IN  /\ ctl.pc = "create"
        /\ SetCmd(ctl.c, [cmd EXCEPT !.repl = [i \in 1..cmd.k |-> "new"]])
        /\ Goto("mark")
        /\ UNCHANGED <<claim, seen, byCmd, node, notReady, marked, queue, env>>

CreateFails ==
    /\ ctl.pc = "create" /\ cmds[ctl.c].k > 0 /\ env.errors > 0
    /\ Abandon /\ Spend(1)
    /\ UNCHANGED <<claim, seen, byCmd, node, notReady, marked, queue>>

MarkForDeletion ==
    /\ ctl.pc = "mark"
    /\ marked' = marked \cup (cmds[ctl.c].cands \cap EveryNode)
    /\ Goto("enqueue")
    /\ UNCHANGED <<claim, seen, byCmd, node, notReady, cmds, queue, env>>

(* The claim of the first candidate alone goes to the workqueue. *)
Enqueue ==
    LET c == ctl.c
    IN  /\ ctl.pc = "enqueue"
        /\ queue' = [n \in Nodes |-> IF n \in cmds[c].cands THEN c ELSE queue[n]]
        /\ \E n \in cmds[c].cands : SetCmd(c, [cmds[c] EXCEPT !.phase = "wait", !.key = {n}])
        /\ ctl' = Idle
        /\ UNCHANGED <<claim, seen, byCmd, node, notReady, marked, env>>

-----------------------------------------------------------------------------
(* Queue.Reconcile *)

NoTimeout == env.age

GetMaxRetryDuration ==
    LET d == RetryScale * Cardinality({n \in Nodes : queue[n] # 0})
    IN  Max({MinRetry, Min({d, MaxRetry})})

(* What matters no more of a command is forgotten. *)
Over(cmd, phase) == [NoCmd EXCEPT !.phase = phase, !.reason = cmd.reason, !.cands = cmd.cands]
Fail(cmd) == Over(cmd, "rollback")
Finish(cmd) == Over(cmd, "complete")

(* The request of a claim that is gone is dropped before Reconcile is called *)
(* (reconcile.AsReconciler).                                                 *)
KeyGone(c) ==
    /\ cmds[c].phase = "wait" /\ \A n \in cmds[c].key : seen[n] = "gone"
    /\ SetCmd(c, Over(cmds[c], "dropped"))
    /\ UNCHANGED <<claim, seen, byCmd, node, notReady, marked, ctl, queue, env>>

RegisteredIsEnough(s) == s \in {"seen", "init"}
Initialized(s) == s = "init"

(* A replacement that a read does not find is deleted only if cluster state  *)
(* has lost it too.                                                          *)
Deleted(s) == s \in {"gone", "lost"}

(* The first half of waitOrTerminate. *)
WaitForReplacements(c) ==
    LET cmd == cmds[c]
        open == DOMAIN cmd.repl \ cmd.known
        known == cmd.known \cup {i \in open : Initialized(cmd.repl[i])}
        deleted == \E i \in open : Deleted(cmd.repl[i])
        waiting == known # DOMAIN cmd.repl
        late == cmd.age > GetMaxRetryDuration
    IN  /\ cmd.phase = "wait" /\ \E n \in cmd.key : seen[n] # "gone"
        /\ SetCmd(c, CASE deleted \/ (waiting /\ late) -> Fail(cmd)
                       [] waiting /\ ~deleted /\ ~late -> [cmd EXCEPT !.known = known]
                       [] OTHER -> [cmd EXCEPT !.known = known, !.phase = "delete", !.limit = GetMaxRetryDuration])
        /\ UNCHANGED <<claim, seen, byCmd, node, notReady, marked, ctl, queue, env>>

(* The second half, where the deletes of F fail.  Past the retry duration    *)
(* any result is a failure, a success too.                                   *)
DeleteCandidates(c, F) ==
    LET cmd == cmds[c]
        D == {n \in cmd.cands \ F : claim[n] = "live"}
    IN  /\ cmd.phase = "delete" /\ F \subseteq cmd.cands /\ Cardinality(F) <= env.errors
        /\ claim' = [n \in Nodes |-> IF n \in D THEN "deleting" ELSE claim[n]]
        /\ seen' = IF "claim" \in Lag THEN seen ELSE claim'
        /\ byCmd' = byCmd \cup D
        /\ Spend(Cardinality(F))
        /\ SetCmd(c, CASE cmd.age > cmd.limit -> Fail(cmd)
                       [] cmd.age <= cmd.limit /\ F # {} -> [cmd EXCEPT !.phase = "wait", !.limit = 0]
                       [] OTHER -> [Finish(cmd) EXCEPT !.ok = TRUE])
        /\ UNCHANGED <<node, notReady, marked, ctl, queue>>

(* Errors of the rollback are logged and forgotten. *)
Rollback(c) ==
    /\ cmds[c].phase = "rollback"
    /\ \E f \in TaintAll(cmds[c].cands, FALSE) : node' = After(f) /\ Spend(Cost(f))
    /\ SetCmd(c, Finish(cmds[c]))
    /\ UNCHANGED <<claim, seen, byCmd, notReady, marked, ctl, queue>>

CompleteFirst(c) ==
    LET cmd == cmds[c]
    IN  /\ cmd.phase = "complete"
        /\ marked' = IF cmd.ok THEN marked ELSE marked \ cmd.cands
        /\ \E n \in cmd.cands : queue' = [queue EXCEPT ![n] = 0]
        /\ SetCmd(c, NoCmd)
        /\ UNCHANGED <<claim, seen, byCmd, node, notReady, ctl, env>>

CompleteCommand(c) ==
    LET cmd == cmds[c]
    IN  /\ cmd.phase = "complete"
        /\ marked' = IF cmd.ok THEN marked ELSE marked \ cmd.cands
        /\ queue' = [n \in Nodes |-> IF n \in cmd.cands THEN 0 ELSE queue[n]]
        /\ SetCmd(c, NoCmd)
        /\ UNCHANGED <<claim, seen, byCmd, node, notReady, ctl, env>>

-----------------------------------------------------------------------------
(* The world *)

(* The claim is deleted by something else: its user, expiration, health. *)
DeletedElsewhere(n) ==
    /\ claim[n] = "live" /\ env.external > 0
    /\ claim' = [claim EXCEPT ![n] = "deleting"]
    /\ env' = [env EXCEPT !.external = @ - 1]
    /\ UNCHANGED <<seen, byCmd, node, notReady, marked, ctl, cmds, queue>>

(* The node is tainted and drained, its instance goes, then its claim. *)
Terminates(n) ==
    /\ claim[n] \in {"deleting", "terminating"}
    /\ claim' = [claim EXCEPT ![n] = IF @ = "deleting" THEN "terminating" ELSE "gone"]
    /\ node' = [node EXCEPT ![n] = [taint |-> TRUE, seen |-> TRUE]]
    /\ byCmd' = byCmd \ {n} /\ notReady' = notReady \ {n}
    /\ UNCHANGED <<seen, marked, ctl, cmds, queue, env>>

ClaimInformer(n) ==
    /\ seen[n] # claim[n]
    /\ seen' = [seen EXCEPT ![n] = claim[n]]
    /\ marked' = IF claim[n] = "gone" THEN marked \ {n} ELSE marked
    /\ UNCHANGED <<claim, byCmd, node, notReady, ctl, cmds, queue, env>>

NodeInformer(n) ==
    /\ node[n].seen # node[n].taint
    /\ node' = [node EXCEPT ![n].seen = node[n].taint]
    /\ UNCHANGED <<claim, seen, byCmd, notReady, marked, ctl, cmds, queue, env>>

FlipReady(n) ==
    /\ claim[n] = "live" /\ env.flips > 0
    /\ notReady' = IF n \in notReady THEN notReady \ {n} ELSE notReady \cup {n}
    /\ env' = [env EXCEPT !.flips = @ - 1]
    /\ UNCHANGED <<claim, seen, byCmd, node, marked, ctl, cmds, queue>>

(* A replacement becomes visible to reads, initializes, or is deleted: its   *)
(* launch failed, it did not register in time, or it is disrupted itself.    *)
ReplacementStep(c, i) ==
    /\ i \in DOMAIN cmds[c].repl
    /\ \E s \in CASE cmds[c].repl[i] = "new"  -> {"seen"}
                   [] cmds[c].repl[i] = "seen" -> {"init", "gone"}
                   [] cmds[c].repl[i] = "init" -> {"lost"}
                   [] OTHER -> {} :
          SetCmd(c, [cmds[c] EXCEPT !.repl[i] = s])
    /\ UNCHANGED <<claim, seen, byCmd, node, notReady, marked, ctl, queue, env>>

Ages(cmd) == cmd.phase \in {"draft", "wait", "delete"} /\ cmd.age < env.age
Tick ==
    /\ \E c \in Ids : Ages(cmds[c])
    /\ cmds' = [c \in Ids |-> IF Ages(cmds[c]) THEN [cmds[c] EXCEPT !.age = @ + 1] ELSE cmds[c]]
    /\ UNCHANGED <<claim, seen, byCmd, node, notReady, marked, ctl, queue, env>>

(* Commands and marks are in memory; the caches are filled again. *)
Restart ==
    /\ env.restarts > 0
    /\ env' = [env EXCEPT !.restarts = @ - 1]
    /\ ctl' = Idle /\ cmds' = [c \in Ids |-> NoCmd] /\ queue' = [n \in Nodes |-> 0]
    /\ marked' = {} /\ seen' = claim
    /\ node' = [n \in Nodes |-> [node[n] EXCEPT !.seen = node[n].taint]]
    /\ UNCHANGED <<claim, byCmd, notReady>>

-----------------------------------------------------------------------------
Init ==
    /\ env \in Scenarios
    /\ claim = [n \in Nodes |-> IF n \in env.nodes THEN "live" ELSE "gone"] /\ seen = claim /\ byCmd = {}
    /\ node = [n \in Nodes |-> [taint |-> FALSE, seen |-> FALSE]]
    /\ notReady = {} /\ marked = {}
    /\ ctl = Idle /\ cmds = [c \in Ids |-> NoCmd] /\ queue = [n \in Nodes |-> 0]

Controller ==
    \/ Cleanup \/ MethodPasses \/ Invalid
    \/ \E C \in SUBSET Nodes : (\E k \in 0..MaxRepl : ComputeCommands(C, k)) \/ Validate(C) \/ MarkDisrupted(C)
    \/ CreateReplacements \/ CreateFails \/ MarkForDeletion \/ Enqueue

QueueStep(c) ==
    \/ KeyGone(c) \/ WaitForReplacements(c) \/ Rollback(c) \/ CompleteCommand(c)
    \/ \E F \in SUBSET Nodes : DeleteCandidates(c, F)

Next ==
    \/ Controller \/ Tick \/ Restart
    \/ \E c \in Ids : QueueStep(c) \/ \E i \in 1..MaxRepl : ReplacementStep(c, i)
    \/ \E n \in Nodes : \/ DeletedElsewhere(n) \/ Terminates(n) \/ FlipReady(n)
                        \/ ClaimInformer(n) \/ NodeInformer(n)

Spec == Init /\ [][Next]_vars

(* The controller and the queue keep running, the informers deliver, time    *)
(* passes.                                                                   *)
FairSpec ==
    /\ Spec /\ WF_vars(Controller) /\ WF_vars(Tick)
    /\ \A c \in Ids : WF_vars(QueueStep(c))
    /\ \A n \in Nodes : WF_vars(ClaimInformer(n)) /\ WF_vars(NodeInformer(n))

-----------------------------------------------------------------------------
(* Properties *)

TypeOK ==
    /\ claim \in [Nodes -> ClaimPhases] /\ seen \in [Nodes -> ClaimPhases]
    /\ node \in [Nodes -> [taint : BOOLEAN, seen : BOOLEAN]]
    /\ byCmd \subseteq Nodes /\ notReady \subseteq Nodes /\ marked \subseteq Nodes
    /\ cmds \in [Ids -> Cmds] /\ queue \in [Nodes -> 0..MaxCmds]
    /\ ctl \in Controllers
    /\ env \in Environments /\ env.methods # <<>> /\ ctl.m \in DOMAIN env.methods

Running(c) == cmds[c].phase \notin {"none", "draft"}

(* A node is in at most one command, and the queue's map says which: the     *)
(* entries are exactly the candidates of the running commands                *)
(* (queue.go HasAny, StartCommand, CompleteCommand).                         *)
OneCommandPerNode ==
    \A n \in Nodes : \A c \in Ids : queue[n] = c <=> Running(c) /\ n \in cmds[c].cands

(* Nodes that commands have taken out and that still hold pods, without those *)
(* whose deletion a late rollback has unmarked before cluster state saw it:   *)
(* past its retry duration a command is undone even when it has deleted its   *)
(* candidates (queue.go:187-194).                                             *)
InFlight(p) ==
    {n \in Nodes : /\ Pool[n] = p /\ claim[n] \in {"live", "deleting"}
                   /\ \/ queue[n] # 0
                      \/ n \in byCmd /\ (n \in marked \/ seen[n] # "live")}
Taken(p) == {n \in Nodes : Pool[n] = p /\ claim[n] \in {"live", "deleting"} /\ (queue[n] # 0 \/ n \in byCmd)}

Enters(c) == cmds[c].phase = "draft" /\ cmds'[c].phase = "wait"
Allowed(p, c) == GetAllowedDisruptionsByReason(p, cmds[c].reason, Cardinality(Counted(p)))

(* A command enters the queue only while the nodes that commands disrupt in  *)
(* the NodePool, its own included, stay within the budget for its reason     *)
(* (helpers.go BuildDisruptionBudgetMapping).                                *)
BudgetKept ==
    [][\A c \in Ids : Enters(c) =>
          \A p \in {Pool[n] : n \in cmds[c].cands} : Cardinality(InFlight(p)') <= Allowed(p, c)]_vars

(* The same for every node a command has deleted: budgets bound the number   *)
(* of claims that can be terminating at once (nodepool.go:129).              *)
BudgetKeptLate ==
    [][\A c \in Ids : Enters(c) =>
          \A p \in {Pool[n] : n \in cmds[c].cands} : Cardinality(Taken(p)') <= Allowed(p, c)]_vars

(* A command deletes a candidate only after every replacement was            *)
(* initialized (queue.go waitOrTerminate).                                   *)
ReplacementsFirst ==
    [][\A c \in Ids : \A n \in (byCmd' \ byCmd) \cap cmds[c].cands :
          \A i \in 1..cmds[c].k : i \in DOMAIN cmds[c].repl /\ cmds[c].repl[i] \in {"init", "lost"}]_vars

(* No candidate is marked for deletion before the replacements of its        *)
(* command are in cluster state: provisioning would launch capacity for its  *)
(* pods a second time (queue.go:418-423).                                    *)
NoDoubleLaunch ==
    \A c \in Ids : cmds[c].cands \cap marked # {} => Len(cmds[c].repl) = cmds[c].k

Open(n, c) == /\ queue[n] = c /\ claim[n] = "live"
              /\ cmds[c].phase \in {"wait", "delete"} /\ ~node[n].taint

(* A live candidate of a command in the queue carries the disrupted taint,   *)
(* whatever the cleanup of the controller and the rollback of another        *)
(* command do (queue.go:400), while reads of Nodes are current.              *)
CandidatesTainted == "node" \notin Lag => \A n \in Nodes : \A c \in Ids : ~Open(n, c)

(* A node that is disrupted belongs to one command and takes no pods.        *)
CandidatesHeld == OneCommandPerNode /\ CandidatesTainted

(* The same with reads that lag.                                             *)
CandidatesTaintedStale == \A n \in Nodes : \A c \in Ids : ~Open(n, c)

CommandsEnd == \A c \in Ids : Running(c) ~> (~Running(c) \/ cmds[c].phase = "dropped")

CandidatesReleased ==
    \A n \in Nodes : node[n].taint ~>
        \/ ~node[n].taint \/ claim[n] # "live"
        \/ queue[n] # 0 /\ cmds[queue[n]].phase = "dropped"

(* Every command ends, by success or by timeout, as long as the claim that   *)
(* is its key in the workqueue is there: otherwise its request is dropped    *)
(* (queue.go:264-265, 444).  And it lets go of its nodes: a tainted node is  *)
(* deleted or gets its taint removed, also when the command was lost with a  *)
(* restart or could not be rolled back (controller.go:154-157); except while *)
(* it is in a dropped command.                                               *)
CommandsLetGo == CommandsEnd /\ CandidatesReleased

(* Every command ends: a command that is requeued is marked as failed when   *)
(* its timeout is reached (queue.go:264-265).                                *)
EveryCommandEnds == \A c \in Ids : Running(c) ~> ~Running(c)
=============================================================================
