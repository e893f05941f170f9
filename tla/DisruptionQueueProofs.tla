----------------------- MODULE DisruptionQueueProofs -----------------------
(***************************************************************************)
(* The safety of voluntary disruption for any nodes, NodePools, budgets,   *)
(* number of commands, retry durations and disturbances.                   *)
(***************************************************************************)
EXTENDS DisruptionQueue, FiniteSetTheorems, SequenceTheorems, TLAPS

ReplStates == {"new", "seen", "init", "gone", "lost"}

(* The retry duration is clamped between its bounds (getMaxRetryDuration).   *)
LEMMA RetryBounded ==
    ASSUME NEW q \in [Nodes -> 0..MaxCmds]
    PROVE  LET d == RetryScale * Cardinality({n \in Nodes : q[n] # 0})
           IN  Max({MinRetry, Min({d, MaxRetry})}) \in 0..MaxRetry
<1> DEFINE d == RetryScale * Cardinality({n \in Nodes : q[n] # 0})
           m == Min({d, MaxRetry})
<1>1. Cardinality({n \in Nodes : q[n] # 0}) \in Nat
  BY DisruptionAssumption, FS_Subset, FS_CardinalityType
<1>2. d \in Nat
  BY <1>1, DisruptionAssumption
<1> HIDE DEF d
<1>3. m \in {d, MaxRetry} /\ m <= MaxRetry
  BY <1>2, DisruptionAssumption DEF Min
<1> HIDE DEF m
<1>4. Max({MinRetry, m}) \in {MinRetry, m}
  BY <1>2, <1>3, DisruptionAssumption DEF Max
<1> QED BY <1>2, <1>3, <1>4, DisruptionAssumption DEF d, m

LEMMA NoCmdTyped == NoCmd \in Cmds
BY DisruptionAssumption, EmptySeq DEF NoCmd, Cmds, Reasons

(* What RequireNoScheduleTaint can do to one Node: leave it as it is, which  *)
(* is a success only if the read has the wanted taint or finds no Node, or   *)
(* patch it.                                                                 *)
LEMMA TaintResult ==
    ASSUME NEW n, NEW add, NEW r \in TaintResults(n, add)
    PROVE  \/ r.node = node[n] /\ (r.ok => seen[n] = "gone" \/ node[n].seen = add)
           \/ r.node = Tainted(n, add)
<1>1. CASE seen[n] = "gone" \/ node[n].seen = add
  BY <1>1 DEF TaintResults
<1>2. CASE ~(seen[n] = "gone" \/ node[n].seen = add) /\ node[n].seen # node[n].taint
  BY <1>2 DEF TaintResults
<1>3. CASE ~(seen[n] = "gone" \/ node[n].seen = add) /\ node[n].seen = node[n].taint
  BY <1>3 DEF TaintResults
<1> QED BY <1>1, <1>2, <1>3

(* What TaintAll can do to a Node. *)
LEMMA TaintTyped ==
    ASSUME TypeOK, NEW C \in SUBSET Nodes, NEW add \in BOOLEAN, NEW f \in TaintAll(C, add)
    PROVE  /\ DOMAIN f = C
           /\ \A n \in C : f[n] \in TaintResults(n, add)
           /\ Cost(f) \in Nat /\ Cost(f) <= env.errors
           /\ After(f) \in [Nodes -> [taint : BOOLEAN, seen : BOOLEAN]]
<1>1. DOMAIN f = C /\ \A n \in C : f[n] \in TaintResults(n, add)
  BY DEF TaintAll
<1>2. Cost(f) <= env.errors
  BY DEF TaintAll
<1>3. IsFiniteSet({n \in C : f[n].cost # 0})
  BY DisruptionAssumption, FS_Subset
<1>4. Cost(f) \in Nat
  BY <1>1, <1>3, FS_CardinalityType DEF Cost
<1>5. ASSUME NEW n \in C PROVE f[n].node \in [taint : BOOLEAN, seen : BOOLEAN]
  <2>1. node[n] \in [taint : BOOLEAN, seen : BOOLEAN]
    BY DEF TypeOK
  <2>2. Tainted(n, add) \in [taint : BOOLEAN, seen : BOOLEAN]
    BY <2>1, Zenon DEF Tainted
  <2>3. f[n].node = node[n] \/ f[n].node = Tainted(n, add)
    BY <1>1, TaintResult
  <2> QED BY <2>1, <2>2, <2>3
<1> QED BY <1>1, <1>2, <1>4, <1>5 DEF After, TypeOK

(* Updates of the scenario and of a command keep their types. *)
LEMMA EnvTyped ==
    ASSUME NEW e \in Environments, NEW v \in Nat
    PROVE  /\ [e EXCEPT !.errors = v] \in Environments /\ [e EXCEPT !.errors = v].methods = e.methods
           /\ [e EXCEPT !.external = v] \in Environments /\ [e EXCEPT !.external = v].methods = e.methods
           /\ [e EXCEPT !.flips = v] \in Environments /\ [e EXCEPT !.flips = v].methods = e.methods
           /\ [e EXCEPT !.restarts = v] \in Environments /\ [e EXCEPT !.restarts = v].methods = e.methods
BY SMTT(60) DEF Environments

LEMMA EnvFields ==
    ASSUME TypeOK
    PROVE  /\ env \in Environments
           /\ env.errors \in Nat /\ env.external \in Nat /\ env.flips \in Nat /\ env.restarts \in Nat
           /\ env.methods \in Seq(Reasons) /\ env.age \in 0..MaxAge
BY DEF TypeOK, Environments

LEMMA CmdTyped ==
    ASSUME NEW r \in Cmds, NEW C \in SUBSET Nodes, NEW K \in SUBSET Nodes, NEW m \in 0..MaxRetry
    PROVE  /\ r.cands \in SUBSET Nodes /\ r.k \in 0..MaxRepl
           /\ [r EXCEPT !.cands = C] \in Cmds
           /\ [r EXCEPT !.phase = "wait", !.key = K] \in Cmds
           /\ [r EXCEPT !.phase = "wait", !.limit = 0] \in Cmds
           /\ Over(r, "dropped") \in Cmds /\ Fail(r) \in Cmds
           /\ Finish(r) \in Cmds /\ [Finish(r) EXCEPT !.ok = TRUE] \in Cmds
<1>1. 0 \in 0..MaxRetry
  BY DisruptionAssumption
<1>2. /\ r.cands \in SUBSET Nodes /\ r.k \in 0..MaxRepl
      /\ [r EXCEPT !.cands = C] \in Cmds
  BY DEF Cmds
<1>3. /\ [r EXCEPT !.phase = "wait", !.key = K] \in Cmds
      /\ [r EXCEPT !.phase = "wait", !.limit = 0] \in Cmds
  BY <1>1, Zenon DEF Cmds
<1>4. \A p \in {"dropped", "rollback", "complete"}, b \in BOOLEAN :
         [NoCmd EXCEPT !.phase = p, !.reason = r.reason, !.cands = r.cands, !.ok = b] \in Cmds
  BY NoCmdTyped, Zenon DEF Cmds
<1>5. NoCmd.ok = FALSE /\ DOMAIN NoCmd = {"phase", "reason", "cands", "key", "k", "repl", "known", "age", "limit", "ok"}
  BY DEF NoCmd
<1>6. \A p : Over(r, p) = [NoCmd EXCEPT !.phase = p, !.reason = r.reason, !.cands = r.cands, !.ok = FALSE]
  BY <1>5, Zenon DEF Over
<1>7. \A p \in {"dropped", "rollback", "complete"} : Over(r, p) \in Cmds
  BY <1>4, <1>6, Zenon
<1>8. [Over(r, "complete") EXCEPT !.ok = TRUE] \in Cmds
  BY <1>7, Zenon DEF Cmds
<1> QED BY <1>2, <1>3, <1>7, <1>8 DEF Fail, Finish

(* The same for the commands of a state. *)
LEMMA CmdsTyped ==
    ASSUME TypeOK, NEW c \in Ids, NEW C \in SUBSET Nodes, NEW K \in SUBSET Nodes
    PROVE  /\ cmds[c] \in Cmds
           /\ cmds[c].cands \in SUBSET Nodes /\ cmds[c].k \in 0..MaxRepl
           /\ [cmds[c] EXCEPT !.cands = C] \in Cmds
           /\ [cmds[c] EXCEPT !.phase = "wait", !.key = K] \in Cmds
           /\ [cmds[c] EXCEPT !.phase = "wait", !.limit = 0] \in Cmds
           /\ Over(cmds[c], "dropped") \in Cmds /\ Fail(cmds[c]) \in Cmds
           /\ Finish(cmds[c]) \in Cmds /\ [Finish(cmds[c]) EXCEPT !.ok = TRUE] \in Cmds
<1>1. cmds[c] \in Cmds /\ 0 \in 0..MaxRetry
  BY DisruptionAssumption DEF TypeOK
<1> QED BY <1>1, CmdTyped, Zenon

Pcs == {"idle", "method", "validate", "start", "create", "mark", "enqueue"}

LEMMA CtlPc ==
    ASSUME NEW e \in Controllers, NEW p \in Pcs
    PROVE  [e EXCEPT !.pc = p] \in Controllers /\ [e EXCEPT !.pc = p].m = e.m
BY DEF Controllers, Pcs

LEMMA CtlCommand ==
    ASSUME NEW e \in Controllers, NEW p \in Pcs, NEW c \in 0..MaxCmds
    PROVE  [e EXCEPT !.pc = p, !.c = c] \in Controllers /\ [e EXCEPT !.pc = p, !.c = c].m = e.m
BY Zenon DEF Controllers, Pcs

LEMMA CtlMethod ==
    ASSUME NEW e \in Controllers, NEW c \in 0..MaxCmds
    PROVE  /\ [e EXCEPT !.pc = "method", !.m = @ + 1, !.c = c] \in Controllers
           /\ [e EXCEPT !.pc = "method", !.m = @ + 1, !.c = c].m = e.m + 1
<1>1. e.m \in Nat /\ e.m + 1 \in Nat
  BY DEF Controllers
<1> QED BY <1>1, Zenon DEF Controllers

LEMMA IdleTyped ==
    ASSUME TypeOK
    PROVE  Idle \in Controllers /\ Idle.m \in DOMAIN env.methods
<1>1. env.methods \in Seq(Reasons) /\ env.methods # <<>>
  BY EnvFields DEF TypeOK
<1>2. 1 \in DOMAIN env.methods
  BY <1>1, LenProperties, EmptySeq
<1> QED BY <1>2, DisruptionAssumption DEF Idle, Controllers

LEMMA NextMethodTyped ==
    ASSUME TypeOK
    PROVE  NextMethod \in Controllers /\ NextMethod.m \in DOMAIN env.methods
<1>1. env.methods \in Seq(Reasons)
  BY EnvFields
<1>2. ctl.m < Len(env.methods) => ctl.m + 1 \in DOMAIN env.methods
  BY <1>1, LenProperties DEF TypeOK
<1>3. ctl \in Controllers /\ 0 \in 0..MaxCmds
  BY DisruptionAssumption, SMTT(60) DEF TypeOK
<1>4. /\ [ctl EXCEPT !.pc = "method", !.m = @ + 1, !.c = 0] \in Controllers
      /\ [ctl EXCEPT !.pc = "method", !.m = @ + 1, !.c = 0].m = ctl.m + 1
  BY <1>3, CtlMethod, Zenon
<1> QED BY <1>2, <1>4, IdleTyped DEF NextMethod

(* Every command between ComputeCommands and Enqueue is the one the          *)
(* controller works on.                                                      *)
Drafting == {"validate", "start", "create", "mark", "enqueue"}
Drafts ==
    /\ ctl.pc \in Drafting => ctl.c \in Ids /\ cmds[ctl.c].phase = "draft"
    /\ \A c \in Ids : cmds[c].phase = "draft" => ctl.pc \in Drafting /\ ctl.c = c

(* The candidates of the command at hand are in no other command, and an id  *)
(* that is free has no candidates.                                           *)
DraftFree == ctl.pc \in Drafting => \A n \in cmds[ctl.c].cands : queue[n] = 0
Empties == \A c \in Ids : cmds[c].phase = "none" => cmds[c].cands = {}

(* Until its replacements are created a command has marked nothing; from     *)
(* then on it has all of them.                                               *)
Early == {"validate", "start", "create"}
Unmarked == ctl.pc \in Early => cmds[ctl.c].cands \cap marked = {}
Created == \A c \in Ids : (ctl.pc \in Early /\ ctl.c = c) \/ Len(cmds[c].repl) = cmds[c].k

(* The replacements a command knows to be initialized were that, and it      *)
(* deletes its candidates when it knows all of them.                         *)
Known ==
    \A c \in Ids :
        /\ \A i \in cmds[c].known : i \in DOMAIN cmds[c].repl /\ cmds[c].repl[i] \in {"init", "lost"}
        /\ cmds[c].phase = "draft" => cmds[c].known = {}
        /\ cmds[c].phase = "delete" => DOMAIN cmds[c].repl \subseteq cmds[c].known

Commands == Drafts /\ DraftFree /\ Empties /\ OneCommandPerNode /\ Unmarked /\ Created /\ Known

(* Cluster state never forgets a live claim, and a read of a Node is current *)
(* when reads do not lag.  The candidates of the command at hand are tainted *)
(* from MarkDisrupted on.                                                    *)
LiveSeen == \A n \in Nodes : claim[n] = "live" => seen[n] = "live"
ReadsCurrent == "node" \notin Lag => \A n \in Nodes : node[n].seen = node[n].taint
Fenced ==
    "node" \notin Lag /\ ctl.pc \in {"create", "mark", "enqueue"} =>
        \A n \in cmds[ctl.c].cands : claim[n] = "live" => node[n].taint
Taints == LiveSeen /\ ReadsCurrent /\ Fenced /\ CandidatesTainted

(* TypeOK, one variable at a time. *)
CmdsOK == cmds \in [Ids -> Cmds]
EnvOK  == env \in Environments /\ env.methods # <<>>
CtlOK  == ctl \in Controllers /\ ctl.m \in DOMAIN env.methods
NodeOK == node \in [Nodes -> [taint : BOOLEAN, seen : BOOLEAN]]
RestOK == /\ claim \in [Nodes -> ClaimPhases] /\ seen \in [Nodes -> ClaimPhases]
          /\ byCmd \subseteq Nodes /\ notReady \subseteq Nodes /\ marked \subseteq Nodes
          /\ queue \in [Nodes -> 0..MaxCmds]

LEMMA TypeParts ==
    ASSUME CmdsOK', EnvOK', CtlOK', NodeOK', RestOK'
    PROVE  TypeOK'
BY DEF TypeOK, CmdsOK, EnvOK, CtlOK, NodeOK, RestOK

LEMMA PartKept ==
    ASSUME TypeOK
    PROVE  /\ UNCHANGED cmds => CmdsOK'
           /\ UNCHANGED env => EnvOK'
           /\ UNCHANGED <<env, ctl>> => CtlOK'
           /\ UNCHANGED node => NodeOK'
           /\ UNCHANGED <<claim, seen, byCmd, notReady, marked, queue>> => RestOK'
BY DEF TypeOK, CmdsOK, EnvOK, CtlOK, NodeOK, RestOK

LEMMA CmdsStep ==
    ASSUME TypeOK, NEW c \in Ids, NEW r \in Cmds, SetCmd(c, r)
    PROVE  CmdsOK'
BY DEF SetCmd, TypeOK, CmdsOK

LEMMA SpendStep ==
    ASSUME TypeOK, NEW k \in Nat, k <= env.errors, Spend(k)
    PROVE  EnvOK' /\ env'.methods = env.methods
<1>1. env.errors - k \in Nat
  BY EnvFields
<1>2. env' = [env EXCEPT !.errors = env.errors - k]
  BY DEF Spend
<1> QED BY <1>1, <1>2, EnvFields, EnvTyped, Zenon DEF EnvOK, TypeOK

LEMMA WaitTyped ==
    ASSUME NEW r \in Cmds, NEW K \in SUBSET Nat, NEW l \in 0..MaxRetry
    PROVE  /\ [r EXCEPT !.known = K] \in Cmds
           /\ [r EXCEPT !.known = K, !.phase = "delete", !.limit = l] \in Cmds
BY Zenon DEF Cmds

LEMMA ReplTyped ==
    ASSUME NEW r \in Cmds, NEW i \in DOMAIN r.repl, NEW s \in ReplStates
    PROVE  [r EXCEPT !.repl[i] = s] \in Cmds
<1>1. r.repl \in Seq(ReplStates)
  BY DEF Cmds, ReplStates
<1>2. [r.repl EXCEPT ![i] = s] \in Seq(ReplStates)
  BY <1>1, ExceptSeq, SMTT(60)
<1>3. [r EXCEPT !.repl[i] = s] = [r EXCEPT !.repl = [r.repl EXCEPT ![i] = s]]
  OBVIOUS
<1>4. \A q \in Seq(ReplStates) : [r EXCEPT !.repl = q] \in Cmds
  BY Zenon DEF Cmds, ReplStates
<1> QED BY <1>2, <1>3, <1>4, SMTT(60)

LEMMA AgeTyped ==
    ASSUME NEW r \in Cmds, r.age < MaxAge
    PROVE  [r EXCEPT !.age = @ + 1] \in Cmds
<1>1. r.age + 1 \in 0..MaxAge
  BY DisruptionAssumption, SMTT(60) DEF Cmds
<1> QED BY <1>1, SMTT(60) DEF Cmds

LEMMA CtlStep ==
    ASSUME TypeOK, env'.methods = env.methods
    PROVE  /\ ctl' = Idle => CtlOK'
           /\ ctl' = NextMethod => CtlOK'
           /\ \A p \in {"idle", "method"} \cup Drafting :
                 /\ Goto(p) => CtlOK'
                 /\ ctl' = [Idle EXCEPT !.pc = p] => CtlOK'
                 /\ \A c \in Ids : ctl' = [ctl EXCEPT !.pc = p, !.c = c] => CtlOK'
<1>1. ctl.m \in DOMAIN env.methods
  BY DEF TypeOK
<1>2. /\ ctl' = Idle => CtlOK'
      /\ ctl' = NextMethod => CtlOK'
  BY IdleTyped, NextMethodTyped, SMTT(60) DEF CtlOK
<1>3. ASSUME NEW p \in {"idle", "method"} \cup Drafting
      PROVE  /\ Goto(p) => CtlOK'
             /\ ctl' = [Idle EXCEPT !.pc = p] => CtlOK'
             /\ \A c \in Ids : ctl' = [ctl EXCEPT !.pc = p, !.c = c] => CtlOK'
  <2>1. ctl \in Controllers /\ Idle \in Controllers /\ Idle.m \in DOMAIN env.methods
    BY IdleTyped, SMTT(60) DEF TypeOK
  <2>2. ASSUME NEW e \in Controllers
        PROVE  [e EXCEPT !.pc = p] \in Controllers /\ [e EXCEPT !.pc = p].m = e.m
    BY CtlPc, ZenonT(60) DEF Drafting, Pcs
  <2>3. ASSUME NEW c \in Ids
        PROVE  [ctl EXCEPT !.pc = p, !.c = c] \in Controllers /\ [ctl EXCEPT !.pc = p, !.c = c].m = ctl.m
    <3>1. c \in 0..MaxCmds
      BY DEF Ids
    <3>2. p \in Pcs
      BY SMTT(60) DEF Drafting, Pcs
    <3> QED BY <2>1, <3>1, <3>2, CtlCommand, Zenon
  <2> QED BY <1>1, <2>1, <2>2, <2>3, ZenonT(60) DEF Goto, CtlOK
<1> QED BY <1>2, <1>3, ZenonT(60)

LEMMA TypeStep ==
    ASSUME TypeOK, Drafts, [Next]_vars
    PROVE  TypeOK'
<1> USE PartKept
<1>0. ctl.pc \in Drafting => ctl.c \in Ids
  BY DEF Drafts
<1>1. CASE Cleanup
  <2>1. PICK f \in TaintAll(Outdated, FALSE) :
           /\ node' = After(f) /\ Spend(Cost(f))
           /\ ctl' = IF \A n \in DOMAIN f : f[n].ok THEN [Idle EXCEPT !.pc = "method"] ELSE Idle
    BY <1>1, Zenon DEF Cleanup
  <2>2. Outdated \in SUBSET Nodes
    BY DEF Outdated
  <2>3. NodeOK' /\ EnvOK' /\ env'.methods = env.methods
    BY <2>1, <2>2, TaintTyped, SpendStep, Zenon DEF NodeOK
  <2>4. CtlOK'
    BY <2>1, <2>3, CtlStep, Zenon
  <2> QED BY <1>1, <2>3, <2>4, TypeParts, SMTT(60) DEF Cleanup
<1>2. CASE MethodPasses
  BY <1>2, CtlStep, TypeParts, SMTT(60) DEF MethodPasses
<1>3. ASSUME NEW C \in SUBSET Nodes, NEW k \in 0..MaxRepl, ComputeCommands(C, k) PROVE TypeOK'
  <2> DEFINE r == env.methods[ctl.m]
             new == [NoCmd EXCEPT !.phase = "draft", !.reason = r, !.cands = C, !.k = k]
  <2>1. r \in Reasons
    BY ElementOfSeq, LenProperties, EnvFields, SMTT(60) DEF TypeOK
  <2>2. PICK c \in Ids : /\ SetCmd(c, new)
                         /\ ctl' = [ctl EXCEPT !.pc = IF Single(r) THEN "start" ELSE "validate", !.c = c]
    BY <1>3, Zenon DEF ComputeCommands
  <2>3. new \in Cmds
    BY <2>1, NoCmdTyped, Zenon DEF Cmds
  <2> HIDE DEF r, new
  <2>4. CmdsOK'
    BY <2>2, <2>3, CmdsStep
  <2>5. UNCHANGED <<claim, seen, byCmd, node, notReady, marked, queue, env>>
    BY <1>3 DEF ComputeCommands
  <2>6. CtlOK'
    BY <2>2, <2>5, CtlStep, Zenon DEF Drafting
  <2> QED BY <2>4, <2>5, <2>6, TypeParts, SMTT(60)
<1>4. ASSUME NEW V \in SUBSET Nodes, Validate(V) PROVE TypeOK'
  <2>1. ctl.c \in Ids
    BY <1>0, <1>4, SMTT(60) DEF Validate, Drafting
  <2>2. CmdsOK' /\ CtlOK'
    BY <1>4, <2>1, CmdsTyped, CmdsStep, CtlStep, ZenonT(60) DEF Validate, Drafting
  <2> QED BY <1>4, <2>2, TypeParts DEF Validate
<1>5. CASE Invalid
  <2>1. ctl.c \in Ids
    BY <1>0, <1>5 DEF Invalid, Drafting
  <2>2. CmdsOK' /\ CtlOK'
    BY <1>5, <2>1, CmdsStep, NoCmdTyped, CtlStep, SMTT(60) DEF Invalid
  <2> QED BY <1>5, <2>2, TypeParts DEF Invalid
<1>6. ASSUME NEW E \in SUBSET Nodes, MarkDisrupted(E) PROVE TypeOK'
  <2> DEFINE cmd == cmds[ctl.c]
  <2>1. ctl.c \in Ids /\ cmd.cands \in SUBSET Nodes
    BY <1>0, <1>6, CmdsTyped, Zenon DEF MarkDisrupted, Drafting
  <2>2. UNCHANGED <<claim, seen, byCmd, notReady, marked, queue>>
    BY <1>6 DEF MarkDisrupted
  <2>3. CASE HasAny(cmd.cands)
    <3>1. Abandon /\ UNCHANGED <<node, env>>
      BY <1>6, <2>3 DEF MarkDisrupted
    <3>2. CmdsOK' /\ CtlOK'
      BY <2>1, <3>1, CmdsStep, NoCmdTyped, CtlStep, SMTT(60) DEF Abandon
    <3> QED BY <2>2, <3>1, <3>2, TypeParts, SMTT(60)
  <2>4. CASE ~HasAny(cmd.cands)
    <3>1. PICK f \in TaintAll(cmd.cands, TRUE) :
             LET ok == {n \in cmd.cands : f[n].ok} \ E
             IN  /\ Cost(f) + Cardinality(E) <= env.errors
                 /\ node' = After(f)
                 /\ Spend(Cost(f) + Cardinality(E))
                 /\ IF ok # cmd.cands /\ (cmd.k > 0 \/ ok = {}) THEN Abandon
                    ELSE SetCmd(ctl.c, [cmd EXCEPT !.cands = ok]) /\ Goto("create")
      BY <1>6, <2>4, Zenon DEF MarkDisrupted
    <3> DEFINE ok == {n \in cmd.cands : f[n].ok} \ E
    <3>2. Cardinality(E) \in Nat
      BY DisruptionAssumption, FS_Subset, FS_CardinalityType
    <3>3. Cost(f) \in Nat /\ NodeOK'
      BY <2>1, <3>1, TaintTyped, Zenon DEF NodeOK
    <3>4. EnvOK' /\ env'.methods = env.methods
      BY <3>1, <3>2, <3>3, SpendStep
    <3>5. ok \in SUBSET Nodes
      BY <2>1
    <3>6. Abandon \/ (SetCmd(ctl.c, [cmd EXCEPT !.cands = ok]) /\ Goto("create"))
      BY <3>1, SMTT(60)
    <3> HIDE DEF ok
    <3>7. CmdsOK' /\ CtlOK'
      BY <2>1, <3>4, <3>5, <3>6, CmdsStep, CmdsTyped, NoCmdTyped, CtlStep, ZenonT(60) DEF Abandon, Drafting
    <3> QED BY <2>2, <3>3, <3>4, <3>7, TypeParts, SMTT(60)
  <2> QED BY <2>3, <2>4, SMTT(60)
<1>7. CASE CreateReplacements
  <2> DEFINE cmd == cmds[ctl.c]
             repl == [i \in 1..cmd.k |-> "new"]
  <2>1. ctl.c \in Ids
    BY <1>0, <1>7 DEF CreateReplacements, Drafting
  <2>2. cmd \in Cmds /\ cmd.k \in Nat
    <3>1. cmd \in Cmds
      BY <2>1, SMTT(60) DEF TypeOK
    <3>2. cmd.k \in 0..MaxRepl
      BY <3>1, SMTT(60) DEF Cmds
    <3> QED BY <3>1, <3>2
  <2>3. repl \in Seq({"new", "seen", "init", "gone", "lost"})
    BY <2>2, SeqDef, SMTT(60)
  <2>4. SetCmd(ctl.c, [cmd EXCEPT !.repl = repl])
    BY <1>7 DEF CreateReplacements
  <2> HIDE DEF repl
  <2>5. [cmd EXCEPT !.repl = repl] \in Cmds
    BY <2>2, <2>3, Zenon DEF Cmds
  <2>6. CmdsOK' /\ CtlOK'
    BY <1>7, <2>1, <2>4, <2>5, CmdsStep, CtlStep, SMTT(60) DEF CreateReplacements, Drafting
  <2> QED BY <1>7, <2>6, TypeParts, SMTT(60) DEF CreateReplacements
<1>8. CASE CreateFails
  <2>1. ctl.c \in Ids
    BY <1>0, <1>8 DEF CreateFails, Drafting
  <2>2. EnvOK' /\ env'.methods = env.methods
    BY <1>8, SpendStep, EnvFields DEF CreateFails
  <2>3. CmdsOK' /\ CtlOK'
    BY <1>8, <2>1, <2>2, CmdsStep, NoCmdTyped, CtlStep, SMTT(60) DEF CreateFails, Abandon
  <2> QED BY <1>8, <2>2, <2>3, TypeParts DEF CreateFails
<1>9. CASE MarkForDeletion
  <2>1. CtlOK'
    BY <1>9, CtlStep DEF MarkForDeletion, Drafting
  <2>2. RestOK'
    BY <1>9 DEF MarkForDeletion, EveryNode, TypeOK, RestOK
  <2> QED BY <1>9, <2>1, <2>2, TypeParts DEF MarkForDeletion
<1>10. CASE Enqueue
  <2>1. ctl.c \in Ids
    BY <1>0, <1>10, SMTT(60) DEF Enqueue, Drafting
  <2>2. PICK n \in cmds[ctl.c].cands : SetCmd(ctl.c, [cmds[ctl.c] EXCEPT !.phase = "wait", !.key = {n}])
    BY <1>10, ZenonT(60) DEF Enqueue
  <2>3. {n} \in SUBSET Nodes
    BY <2>1, <2>2, CmdsTyped, ZenonT(60)
  <2>4. CmdsOK' /\ CtlOK'
    BY <1>10, <2>1, <2>2, <2>3, CmdsTyped, CmdsStep, CtlStep, ZenonT(60) DEF Enqueue
  <2>5. RestOK'
    BY <1>10, <2>1 DEF Enqueue, TypeOK, RestOK, Ids
  <2> QED BY <1>10, <2>4, <2>5, TypeParts, SMTT(60) DEF Enqueue
<1>11. ASSUME NEW c \in Ids, KeyGone(c) PROVE TypeOK'
  <2>1. CmdsOK'
    BY <1>11, CmdsStep, CmdsTyped, ZenonT(60) DEF KeyGone
  <2> QED BY <1>11, <2>1, TypeParts, SMTT(60) DEF KeyGone
<1>12. ASSUME NEW c \in Ids, WaitForReplacements(c) PROVE TypeOK'
  <2> DEFINE cmd == cmds[c]
             known == cmd.known \cup {i \in DOMAIN cmd.repl \ cmd.known : Initialized(cmd.repl[i])}
  <2>1. cmd \in Cmds /\ Fail(cmd) \in Cmds
    BY CmdsTyped, Zenon
  <2>2. known \in SUBSET Nat
    <3>1. cmd.known \in SUBSET Nat /\ cmd.repl \in Seq(ReplStates)
      BY <2>1 DEF Cmds, ReplStates
    <3>2. DOMAIN cmd.repl \in SUBSET Nat
      BY <3>1, LenProperties
    <3> QED BY <3>1, <3>2
  <2>3. GetMaxRetryDuration \in 0..MaxRetry
    BY RetryBounded, Zenon DEF GetMaxRetryDuration, TypeOK
  <2>4. \/ SetCmd(c, Fail(cmd))
        \/ SetCmd(c, [cmd EXCEPT !.known = known])
        \/ SetCmd(c, [cmd EXCEPT !.known = known, !.phase = "delete", !.limit = GetMaxRetryDuration])
    BY <1>12, ZenonT(60) DEF WaitForReplacements, SetCmd
  <2> HIDE DEF known
  <2>5. CmdsOK'
    BY <2>1, <2>2, <2>3, <2>4, WaitTyped, CmdsStep, Zenon
  <2> QED BY <1>12, <2>5, TypeParts, SMTT(60) DEF WaitForReplacements
<1>13. ASSUME NEW c \in Ids, NEW F \in SUBSET Nodes, DeleteCandidates(c, F) PROVE TypeOK'
  <2>1. \/ SetCmd(c, Fail(cmds[c]))
        \/ SetCmd(c, [cmds[c] EXCEPT !.phase = "wait", !.limit = 0])
        \/ SetCmd(c, [Finish(cmds[c]) EXCEPT !.ok = TRUE])
    <3> DEFINE A == cmds[c].age > cmds[c].limit
               B == cmds[c].age <= cmds[c].limit /\ F # {}
    <3>1. SetCmd(c, CASE A -> Fail(cmds[c])
                      [] B -> [cmds[c] EXCEPT !.phase = "wait", !.limit = 0]
                      [] OTHER -> [Finish(cmds[c]) EXCEPT !.ok = TRUE])
      BY <1>13, SMTT(60) DEF DeleteCandidates
    <3> HIDE DEF A, B
    <3> QED BY <3>1
  <2>2. CmdsOK'
    BY <2>1, CmdsTyped, CmdsStep, Zenon
  <2>3. Cardinality(F) \in Nat
    BY DisruptionAssumption, FS_Subset, FS_CardinalityType
  <2>4. EnvOK' /\ env'.methods = env.methods
    BY <1>13, <2>3, SpendStep DEF DeleteCandidates
  <2>5. CtlOK'
    BY <1>13, <2>4, SMTT(60) DEF DeleteCandidates, CtlOK, TypeOK
  <2>6. RestOK'
    <3>1. claim' \in [Nodes -> ClaimPhases]
      BY <1>13 DEF DeleteCandidates, TypeOK, ClaimPhases
    <3>2. seen' = seen \/ seen' = claim'
      BY <1>13, SMTT(60) DEF DeleteCandidates
    <3>3. byCmd' \subseteq Nodes
      BY <1>13, CmdsTyped, ZenonT(60) DEF DeleteCandidates, TypeOK
    <3> QED BY <1>13, <3>1, <3>2, <3>3, SMTT(60) DEF DeleteCandidates, RestOK, TypeOK
  <2> QED BY <1>13, <2>2, <2>4, <2>5, <2>6, TypeParts, SMTT(60) DEF DeleteCandidates
<1>14. ASSUME NEW c \in Ids, Rollback(c) PROVE TypeOK'
  <2>1. PICK f \in TaintAll(cmds[c].cands, FALSE) : node' = After(f) /\ Spend(Cost(f))
    BY <1>14, Zenon DEF Rollback
  <2>2. cmds[c].cands \in SUBSET Nodes
    BY CmdsTyped, Zenon
  <2>3. NodeOK' /\ EnvOK' /\ env'.methods = env.methods
    BY <2>1, <2>2, TaintTyped, SpendStep, Zenon DEF NodeOK
  <2>4. CtlOK'
    BY <1>14, <2>3 DEF Rollback, CtlOK, TypeOK
  <2>5. CmdsOK'
    BY <1>14, CmdsTyped, CmdsStep, Zenon DEF Rollback
  <2> QED BY <1>14, <2>3, <2>4, <2>5, TypeParts, SMTT(60) DEF Rollback
<1>15. ASSUME NEW c \in Ids, CompleteCommand(c) PROVE TypeOK'
  <2>1. CmdsOK'
    BY <1>15, NoCmdTyped, CmdsStep, SMTT(60) DEF CompleteCommand
  <2>2. RestOK'
    BY <1>15, DisruptionAssumption, SMTT(60) DEF CompleteCommand, RestOK, TypeOK
  <2> QED BY <1>15, <2>1, <2>2, TypeParts, SMTT(60) DEF CompleteCommand
<1>16. ASSUME NEW c \in Ids, NEW i \in 1..MaxRepl, ReplacementStep(c, i) PROVE TypeOK'
  <2>1. PICK s \in ReplStates : SetCmd(c, [cmds[c] EXCEPT !.repl[i] = s])
    BY <1>16, SMTT(60) DEF ReplacementStep, ReplStates
  <2>2. cmds[c] \in Cmds /\ i \in DOMAIN cmds[c].repl
    BY <1>16 DEF ReplacementStep, TypeOK
  <2>3. CmdsOK'
    BY <2>1, <2>2, ReplTyped, CmdsStep, SMTT(60)
  <2> QED BY <1>16, <2>3, TypeParts, SMTT(60) DEF ReplacementStep
<1>17. CASE Tick
  <2>1. ASSUME NEW c \in Ids PROVE (IF Ages(cmds[c]) THEN [cmds[c] EXCEPT !.age = @ + 1] ELSE cmds[c]) \in Cmds
    <3>1. cmds[c] \in Cmds
      BY SMTT(60) DEF TypeOK
    <3>2. cmds[c].age \in 0..MaxAge
      BY <3>1 DEF Cmds
    <3>3. Ages(cmds[c]) => cmds[c].age < MaxAge
      BY <3>2, EnvFields, DisruptionAssumption, SMTT(60) DEF Ages
    <3> QED BY <3>1, <3>3, AgeTyped, SMTT(60)
  <2>2. CmdsOK'
    BY <1>17, <2>1, ZenonT(60) DEF Tick, CmdsOK
  <2> QED BY <1>17, <2>2, TypeParts DEF Tick
<1>18. CASE Restart
  <2>1. env.restarts - 1 \in Nat
    BY <1>18, EnvFields DEF Restart
  <2>2. env' = [env EXCEPT !.restarts = env.restarts - 1]
    BY <1>18 DEF Restart
  <2>3. EnvOK' /\ env'.methods = env.methods
    BY <2>1, <2>2, EnvTyped, EnvFields, Zenon DEF EnvOK, TypeOK
  <2>4. CtlOK'
    BY <1>18, <2>3, CtlStep DEF Restart
  <2>5. CmdsOK'
    BY <1>18, NoCmdTyped DEF Restart, CmdsOK
  <2>6. NodeOK'
    BY <1>18, ZenonT(60) DEF Restart, NodeOK, TypeOK
  <2>7. RestOK'
    BY <1>18, DisruptionAssumption DEF Restart, RestOK, TypeOK
  <2> QED BY <1>18, <2>3, <2>4, <2>5, <2>6, <2>7, TypeParts, SMTT(60)
<1>19. ASSUME NEW n \in Nodes, DeletedElsewhere(n) PROVE TypeOK'
  <2>1. env.external - 1 \in Nat
    BY <1>19, EnvFields DEF DeletedElsewhere
  <2>2. env' = [env EXCEPT !.external = env.external - 1]
    BY <1>19 DEF DeletedElsewhere
  <2>3. EnvOK' /\ env'.methods = env.methods
    BY <2>1, <2>2, EnvTyped, EnvFields, Zenon DEF EnvOK, TypeOK
  <2>4. CtlOK'
    BY <1>19, <2>3 DEF DeletedElsewhere, CtlOK, TypeOK
  <2>5. RestOK'
    BY <1>19 DEF DeletedElsewhere, RestOK, TypeOK, ClaimPhases
  <2> QED BY <1>19, <2>3, <2>4, <2>5, TypeParts DEF DeletedElsewhere
<1>20. ASSUME NEW n \in Nodes, FlipReady(n) PROVE TypeOK'
  <2>1. env.flips - 1 \in Nat
    BY <1>20, EnvFields DEF FlipReady
  <2>2. env' = [env EXCEPT !.flips = env.flips - 1]
    BY <1>20 DEF FlipReady
  <2>3. EnvOK' /\ env'.methods = env.methods
    BY <2>1, <2>2, EnvTyped, EnvFields, ZenonT(60) DEF EnvOK, TypeOK
  <2>4. CtlOK'
    BY <1>20, <2>3 DEF FlipReady, CtlOK, TypeOK
  <2>5. RestOK'
    BY <1>20 DEF FlipReady, RestOK, TypeOK
  <2> QED BY <1>20, <2>3, <2>4, <2>5, TypeParts, SMTT(60) DEF FlipReady
<1>21. ASSUME NEW n \in Nodes, Terminates(n) PROVE TypeOK'
  <2>1. RestOK' /\ NodeOK'
    BY <1>21, SMTT(60) DEF Terminates, RestOK, NodeOK, TypeOK, ClaimPhases
  <2> QED BY <1>21, <2>1, TypeParts, SMTT(60) DEF Terminates
<1>22. ASSUME NEW n \in Nodes, ClaimInformer(n) PROVE TypeOK'
  <2>1. RestOK'
    BY <1>22, SMTT(60) DEF ClaimInformer, RestOK, TypeOK
  <2> QED BY <1>22, <2>1, TypeParts, SMTT(60) DEF ClaimInformer
<1>23. ASSUME NEW n \in Nodes, NodeInformer(n) PROVE TypeOK'
  <2>1. NodeOK'
    BY <1>23, ZenonT(60) DEF NodeInformer, NodeOK, TypeOK
  <2> QED BY <1>23, <2>1, TypeParts, SMTT(60) DEF NodeInformer
<1>24. CASE UNCHANGED vars
  BY <1>24, TypeParts DEF vars
<1> QED
  BY <1>1, <1>2, <1>3, <1>4, <1>5, <1>6, <1>7, <1>8, <1>9, <1>10, <1>11, <1>12, <1>13, <1>14, <1>15, <1>16,
     <1>17, <1>18, <1>19, <1>20, <1>21, <1>22, <1>23, <1>24, SMTT(60) DEF Next, Controller, QueueStep

-----------------------------------------------------------------------------
(* The commands *)

(* What of a command the invariants talk about. *)
Has(r, p, C, k, q, K) == r.phase = p /\ r.cands = C /\ r.k = k /\ r.repl = q /\ r.known = K

LEMMA CmdFields ==
    ASSUME NEW r \in Cmds, NEW C, NEW K, NEW l
    PROVE  /\ Has([r EXCEPT !.cands = C], r.phase, C, r.k, r.repl, r.known)
           /\ Has([r EXCEPT !.phase = "wait", !.key = K], "wait", r.cands, r.k, r.repl, r.known)
           /\ Has([r EXCEPT !.phase = "wait", !.limit = 0], "wait", r.cands, r.k, r.repl, r.known)
           /\ Has([r EXCEPT !.known = K], r.phase, r.cands, r.k, r.repl, K)
           /\ Has([r EXCEPT !.known = K, !.phase = "delete", !.limit = l], "delete", r.cands, r.k, r.repl, K)
           /\ Has([r EXCEPT !.repl = K], r.phase, r.cands, r.k, K, r.known)
           /\ Has([r EXCEPT !.age = @ + 1], r.phase, r.cands, r.k, r.repl, r.known)
BY DEF Has, Cmds

LEMMA NoCmdFields == Has(NoCmd, "none", {}, 0, <<>>, {}) /\ Len(NoCmd.repl) = 0
BY EmptySeq DEF Has, NoCmd

LEMMA NewFields ==
    ASSUME NEW r, NEW C, NEW k
    PROVE  Has([NoCmd EXCEPT !.phase = "draft", !.reason = r, !.cands = C, !.k = k], "draft", C, k, <<>>, {})
BY DEF Has, NoCmd

LEMMA OverFields ==
    ASSUME NEW r
    PROVE  /\ Has(Over(r, "dropped"), "dropped", r.cands, 0, <<>>, {})
           /\ Has(Fail(r), "rollback", r.cands, 0, <<>>, {})
           /\ Has(Finish(r), "complete", r.cands, 0, <<>>, {})
           /\ Has([Finish(r) EXCEPT !.ok = TRUE], "complete", r.cands, 0, <<>>, {})
BY DEF Has, Over, Fail, Finish, NoCmd

(* One command changes. *)
Becomes(c, p, C, k, q, K) ==
    Has(cmds'[c], p, C, k, q, K) /\ \A d \in Ids \ {c} : cmds'[d] = cmds[d]

LEMMA SetBecomes ==
    ASSUME TypeOK, NEW c \in Ids, NEW r, SetCmd(c, r),
           NEW p, NEW C, NEW k, NEW q, NEW K, Has(r, p, C, k, q, K)
    PROVE  Becomes(c, p, C, k, q, K)
<1>1. cmds'[c] = r /\ \A d \in Ids \ {c} : cmds'[d] = cmds[d]
  BY DEF SetCmd, TypeOK
<1> QED BY <1>1 DEF Becomes

(* The commands are as they were as long as what they depend on is. *)
LEMMA CommandsKept ==
    ASSUME Commands, UNCHANGED <<cmds, ctl, queue>>, marked' \subseteq marked
    PROVE  Commands'
BY DEF Commands, Drafts, DraftFree, Empties, OneCommandPerNode, Running, Unmarked, Created, Known

(* The controller moves between commands. *)
LEMMA CommandsIdle ==
    ASSUME Commands, UNCHANGED <<cmds, queue, marked>>, ctl.pc \notin Drafting, ctl'.pc \notin Drafting
    PROVE  Commands'
<1>1. ctl.pc \notin Early /\ ctl'.pc \notin Early
  BY DEF Early, Drafting
<1> QED
  BY <1>1 DEF Commands, Drafts, DraftFree, Empties, OneCommandPerNode, Running, Unmarked, Created, Known

LEMMA NextIdle ==
    ASSUME TypeOK
    PROVE  NextMethod.pc \notin Drafting
<1>1. [ctl EXCEPT !.pc = "method", !.m = @ + 1, !.c = 0].pc = "method"
  BY DEF TypeOK, Controllers
<1> QED BY <1>1 DEF NextMethod, Idle, Drafting

(* There are no commands. *)
LEMMA NothingCommanded ==
    ASSUME cmds' = [c \in Ids |-> NoCmd], queue' = [n \in Nodes |-> 0], ctl' = Idle
    PROVE  Commands'
<1>1. \A c \in Ids : Has(cmds'[c], "none", {}, 0, <<>>, {}) /\ Len(cmds'[c].repl) = 0
  BY NoCmdFields
<1>2. ctl'.pc \notin Drafting /\ ctl'.pc \notin Early
  BY SMTT(60) DEF Idle, Drafting, Early
<1>3. Drafts' /\ DraftFree' /\ Empties' /\ Unmarked' /\ Created' /\ Known'
  BY <1>1, <1>2, SMTT(60) DEF Drafts, DraftFree, Empties, Unmarked, Created, Known, Has
<1>4. OneCommandPerNode'
  BY <1>1, SMTT(60) DEF OneCommandPerNode, Running, Has, Ids
<1> QED BY <1>3, <1>4, SMTT(60) DEF Commands

(* The command at hand is given up. *)
LEMMA CommandsDropped ==
    ASSUME TypeOK, Commands, ctl.pc \in Drafting, SetCmd(ctl.c, NoCmd), ctl'.pc \notin Drafting,
           UNCHANGED <<queue, marked>>
    PROVE  Commands'
<1>1. ctl.c \in Ids /\ cmds[ctl.c].phase = "draft"
  BY SMTT(60) DEF Commands, Drafts
<1>2. Becomes(ctl.c, "none", {}, 0, <<>>, {}) /\ Len(cmds'[ctl.c].repl) = 0
  BY <1>1, SetBecomes, NoCmdFields, SMTT(60) DEF Has, Becomes
<1>3. ctl'.pc \notin Early
  BY SMTT(60) DEF Early, Drafting
<1>4. Drafts' /\ DraftFree' /\ Empties' /\ Unmarked'
  BY <1>1, <1>2, <1>3, SMTT(60) DEF Commands, Drafts, DraftFree, Empties, Unmarked, Becomes, Has
<1>5. OneCommandPerNode'
  BY <1>1, <1>2, SMTT(60) DEF Commands, OneCommandPerNode, Running, Becomes, Has
<1>6. Created' /\ Known'
  BY <1>1, <1>2, SMTT(60) DEF Commands, Created, Known, Becomes, Has
<1> QED BY <1>4, <1>5, <1>6, SMTT(60) DEF Commands

(* The command at hand goes on with some of its candidates. *)
LEMMA CommandsNarrowed ==
    ASSUME TypeOK, Commands, ctl.pc \in Early, ctl'.pc \in Early, ctl'.c = ctl.c, UNCHANGED <<queue, marked>>,
           NEW C \in SUBSET cmds[ctl.c].cands,
           Becomes(ctl.c, "draft", C, cmds[ctl.c].k, cmds[ctl.c].repl, cmds[ctl.c].known)
    PROVE  Commands'
<1>1. ctl.pc \in Drafting /\ ctl'.pc \in Drafting
  BY DEF Early, Drafting
<1>2. ctl.c \in Ids /\ cmds[ctl.c].phase = "draft"
  BY <1>1, SMTT(60) DEF Commands, Drafts
<1>3. Drafts' /\ DraftFree' /\ Empties' /\ Unmarked'
  BY <1>1, <1>2, SMTT(60) DEF Commands, Drafts, DraftFree, Empties, Unmarked, Becomes, Has
<1>4. OneCommandPerNode'
  BY <1>2, SMTT(60) DEF Commands, OneCommandPerNode, Running, Becomes, Has
<1>5. Created' /\ Known'
  BY <1>2 DEF Commands, Created, Known, Becomes, Has
<1> QED BY <1>3, <1>4, <1>5 DEF Commands

(* Created and Known of a running command. *)
Ready(p, k, q, K) ==
    /\ Len(q) = k
    /\ \A i \in K : i \in DOMAIN q /\ q[i] \in {"init", "lost"}
    /\ p = "delete" => DOMAIN q \subseteq K

(* A running command goes on, with the same candidates. *)
LEMMA CommandsGoOn ==
    ASSUME TypeOK, Commands, UNCHANGED <<ctl, queue, marked>>, NEW c \in Ids, Running(c),
           NEW p \in {"wait", "delete", "dropped", "rollback", "complete"}, NEW k, NEW q, NEW K,
           Becomes(c, p, cmds[c].cands, k, q, K), Ready(p, k, q, K)
    PROVE  Commands'
<1>1. ctl.pc \in Drafting => ctl.c # c
  BY DEF Commands, Drafts, Running
<1>2. Early \subseteq Drafting
  BY DEF Early, Drafting
<1>3. Drafts' /\ Empties'
  BY <1>1, SMTT(60) DEF Commands, Drafts, Empties, Becomes, Has, Running
<1>4. DraftFree' /\ Unmarked'
  BY <1>1, <1>2, SMTT(60) DEF Commands, Drafts, DraftFree, Unmarked, Becomes
<1>5. OneCommandPerNode'
  BY DEF Commands, OneCommandPerNode, Running, Becomes, Has
<1>6. Created'
  BY DEF Commands, Created, Becomes, Has, Ready
<1>7. Known'
  BY DEF Commands, Known, Becomes, Has, Ready
<1> QED BY <1>3, <1>4, <1>5, <1>6, <1>7, SMTT(60) DEF Commands

LEMMA OverReady ==
    ASSUME NEW p \in {"dropped", "rollback", "complete"}
    PROVE  Ready(p, 0, <<>>, {})
BY EmptySeq, SMTT(60) DEF Ready

(* What Queue.Reconcile makes of a command that waits, and of one whose       *)
(* candidates are deleted.                                                    *)
LEMMA WaitBecomes ==
    ASSUME TypeOK, NEW c \in Ids, WaitForReplacements(c)
    PROVE  LET cmd == cmds[c]
               known == cmd.known \cup {i \in DOMAIN cmd.repl \ cmd.known : Initialized(cmd.repl[i])}
           IN  /\ \/ Becomes(c, "rollback", cmd.cands, 0, <<>>, {})
                  \/ Becomes(c, "wait", cmd.cands, cmd.k, cmd.repl, known)
                  \/ known = DOMAIN cmd.repl /\ Becomes(c, "delete", cmd.cands, cmd.k, cmd.repl, known)
               /\ cmds'[c].cands = cmds[c].cands /\ \A d \in Ids \ {c} : cmds'[d] = cmds[d]
<1> DEFINE cmd == cmds[c]
           open == DOMAIN cmd.repl \ cmd.known
           known == cmd.known \cup {i \in open : Initialized(cmd.repl[i])}
           deleted == \E i \in open : Deleted(cmd.repl[i])
           waiting == known # DOMAIN cmd.repl
           late == cmd.age > GetMaxRetryDuration
<1>1. cmd.phase = "wait" /\ cmd \in Cmds
  BY SMTT(60) DEF WaitForReplacements, TypeOK
<1>2. SetCmd(c, CASE deleted \/ (waiting /\ late) -> Fail(cmd)
                  [] waiting /\ ~deleted /\ ~late -> [cmd EXCEPT !.known = known]
                  [] OTHER -> [cmd EXCEPT !.known = known, !.phase = "delete", !.limit = GetMaxRetryDuration])
  BY DEF WaitForReplacements
<1>3. \/ SetCmd(c, Fail(cmd))
      \/ SetCmd(c, [cmd EXCEPT !.known = known])
      \/ /\ ~waiting
         /\ SetCmd(c, [cmd EXCEPT !.known = known, !.phase = "delete", !.limit = GetMaxRetryDuration])
  <2> HIDE DEF deleted, waiting, late, known
  <2> QED BY <1>2, SMTT(60)
<1>4. \/ Becomes(c, "rollback", cmd.cands, 0, <<>>, {})
      \/ Becomes(c, "wait", cmd.cands, cmd.k, cmd.repl, known)
      \/ ~waiting /\ Becomes(c, "delete", cmd.cands, cmd.k, cmd.repl, known)
  <2> HIDE DEF waiting, known
  <2> QED BY <1>1, <1>3, OverFields, CmdFields, SetBecomes, ZenonT(60)
<1>5. cmds'[c].cands = cmds[c].cands /\ \A d \in Ids \ {c} : cmds'[d] = cmds[d]
  <2> HIDE DEF waiting, known
  <2> QED BY <1>4, SMTT(60) DEF Becomes, Has
<1> QED BY <1>4, <1>5, SMTT(60)

LEMMA DeleteBecomes ==
    ASSUME TypeOK, NEW c \in Ids, NEW F, DeleteCandidates(c, F)
    PROVE  LET cmd == cmds[c]
           IN  /\ \/ Becomes(c, "rollback", cmd.cands, 0, <<>>, {})
                  \/ Becomes(c, "wait", cmd.cands, cmd.k, cmd.repl, cmd.known)
                  \/ Becomes(c, "complete", cmd.cands, 0, <<>>, {})
               /\ cmds'[c].cands = cmds[c].cands /\ \A d \in Ids \ {c} : cmds'[d] = cmds[d]
<1> DEFINE cmd == cmds[c]
           A == cmd.age > cmd.limit
           B == cmd.age <= cmd.limit /\ F # {}
<1>1. SetCmd(c, CASE A -> Fail(cmd)
                  [] B -> [cmd EXCEPT !.phase = "wait", !.limit = 0]
                  [] OTHER -> [Finish(cmd) EXCEPT !.ok = TRUE])
  BY DEF DeleteCandidates
<1>2. \/ SetCmd(c, Fail(cmd))
      \/ SetCmd(c, [cmd EXCEPT !.phase = "wait", !.limit = 0])
      \/ SetCmd(c, [Finish(cmd) EXCEPT !.ok = TRUE])
  <2> HIDE DEF A, B
  <2> QED BY <1>1, SMTT(60)
<1>3. cmd \in Cmds
  BY SMTT(60) DEF TypeOK
<1>4. \/ Becomes(c, "rollback", cmd.cands, 0, <<>>, {})
      \/ Becomes(c, "wait", cmd.cands, cmd.k, cmd.repl, cmd.known)
      \/ Becomes(c, "complete", cmd.cands, 0, <<>>, {})
  BY <1>2, <1>3, OverFields, CmdFields, SetBecomes, ZenonT(60)
<1>5. cmds'[c].cands = cmds[c].cands /\ \A d \in Ids \ {c} : cmds'[d] = cmds[d]
  BY <1>4 DEF Becomes, Has
<1> QED BY <1>4, <1>5

LEMMA CommandsStep ==
    ASSUME TypeOK, Commands, [Next]_vars
    PROVE  Commands'
<1>0. /\ ctl.pc \in Drafting => ctl.c \in Ids /\ cmds[ctl.c].phase = "draft"
      /\ \A c \in Ids : cmds[c] \in Cmds
  BY DEF Commands, Drafts, TypeOK
<1>1. CASE Cleanup
  <2>1. ctl'.pc \notin Drafting
    BY <1>1 DEF Cleanup, Idle, Drafting
  <2> QED BY <1>1, <2>1, CommandsIdle DEF Cleanup, Drafting
<1>2. CASE MethodPasses
  <2>1. ctl'.pc \notin Drafting
    BY <1>2, NextIdle DEF MethodPasses
  <2> QED BY <1>2, <2>1, CommandsIdle DEF MethodPasses, Drafting
<1>3. ASSUME NEW C \in SUBSET Nodes, NEW k \in 0..MaxRepl, ComputeCommands(C, k) PROVE Commands'
  <2> DEFINE r == env.methods[ctl.m]
             new == [NoCmd EXCEPT !.phase = "draft", !.reason = r, !.cands = C, !.k = k]
  <2>1. PICK c \in Ids : /\ cmds[c] = NoCmd
                         /\ SetCmd(c, new)
                         /\ ctl' = [ctl EXCEPT !.pc = IF Single(r) THEN "start" ELSE "validate", !.c = c]
    BY <1>3, ZenonT(60) DEF ComputeCommands
  <2>2. Becomes(c, "draft", C, k, <<>>, {})
    BY <2>1, NewFields, SetBecomes, Zenon
  <2>3. ctl'.pc \in Early /\ ctl'.pc \in Drafting /\ ctl'.c = c
    BY <2>1 DEF TypeOK, Controllers, Early, Drafting
  <2> HIDE DEF r, new
  <2>4. ctl.pc \notin Drafting /\ ctl.pc \notin Early
    BY <1>3 DEF ComputeCommands, Drafting, Early
  <2>5. UNCHANGED <<queue, marked>> /\ \A n \in C : queue[n] = 0 /\ n \notin marked
    BY <1>3 DEF ComputeCommands, Disruptable
  <2>6. cmds[c].phase = "none"
    BY <2>1, NoCmdFields, SMTT(60) DEF Has
  <2>7. Drafts' /\ DraftFree' /\ Empties' /\ Unmarked'
    BY <2>2, <2>3, <2>4, <2>5, SMTT(60) DEF Commands, Drafts, DraftFree, Empties, Unmarked, Becomes, Has
  <2>8. OneCommandPerNode'
    BY <2>2, <2>5, <2>6, SMTT(60) DEF Commands, OneCommandPerNode, Running, Becomes, Has
  <2>9. Created' /\ Known'
    BY <2>2, <2>3, <2>4, SMTT(60) DEF Commands, Created, Known, Becomes, Has
  <2> QED BY <2>7, <2>8, <2>9, SMTT(60) DEF Commands
<1>4. ASSUME NEW V \in SUBSET Nodes, Validate(V) PROVE Commands'
  <2> DEFINE cmd == cmds[ctl.c]
  <2>1. ctl.pc = "validate" /\ ctl.pc \in Drafting /\ ctl.c \in Ids /\ cmd.phase = "draft"
    BY <1>0, <1>4 DEF Validate, Drafting
  <2>2. V \subseteq cmd.cands /\ UNCHANGED <<queue, marked>>
    BY <1>4, SMTT(60) DEF Validate
  <2>3. Becomes(ctl.c, "draft", V, cmd.k, cmd.repl, cmd.known)
    BY <1>0, <1>4, <2>1, CmdFields, SetBecomes, ZenonT(60) DEF Validate
  <2>4. ctl'.pc = "start" /\ ctl'.c = ctl.c
    BY <1>4 DEF Validate, Goto, TypeOK, Controllers
  <2> QED BY <2>1, <2>2, <2>3, <2>4, CommandsNarrowed, SMTT(60) DEF Drafting, Early
<1>5. CASE Invalid
  BY <1>5, NextIdle, CommandsDropped DEF Invalid, Drafting
<1>6. ASSUME NEW E \in SUBSET Nodes, MarkDisrupted(E) PROVE Commands'
  <2> DEFINE cmd == cmds[ctl.c]
  <2>1. ctl.pc = "start" /\ ctl.pc \in Drafting /\ ctl.c \in Ids /\ cmd.phase = "draft" /\ UNCHANGED <<queue, marked>>
    BY <1>0, <1>6 DEF MarkDisrupted, Drafting
  <2>2. \/ Abandon
        \/ \E ok \in SUBSET cmd.cands : SetCmd(ctl.c, [cmd EXCEPT !.cands = ok]) /\ Goto("create")
    BY <1>6, ZenonT(60) DEF MarkDisrupted
  <2>3. CASE Abandon
    BY <2>1, <2>3, CommandsDropped, SMTT(60) DEF Abandon, Idle, Drafting
  <2>4. ASSUME NEW ok \in SUBSET cmd.cands, SetCmd(ctl.c, [cmd EXCEPT !.cands = ok]), Goto("create")
        PROVE  Commands'
    <3>1. Becomes(ctl.c, "draft", ok, cmd.k, cmd.repl, cmd.known)
      BY <1>0, <2>1, <2>4, CmdFields, SetBecomes, ZenonT(60)
    <3>2. ctl'.pc = "create" /\ ctl'.c = ctl.c
      BY <2>4 DEF Goto, TypeOK, Controllers
    <3> QED BY <2>1, <3>1, <3>2, CommandsNarrowed DEF Drafting, Early
  <2> QED BY <2>2, <2>3, <2>4, Zenon
<1>7. CASE CreateReplacements
  <2> DEFINE cmd == cmds[ctl.c]
             repl == [i \in 1..cmd.k |-> "new"]
  <2>1. ctl.pc = "create" /\ ctl.pc \in Drafting /\ ctl.c \in Ids /\ cmd.phase = "draft" /\ UNCHANGED <<queue, marked>>
    BY <1>0, <1>7, SMTT(60) DEF CreateReplacements, Drafting
  <2>2. Becomes(ctl.c, "draft", cmd.cands, cmd.k, repl, cmd.known)
    BY <1>0, <1>7, <2>1, CmdFields, SetBecomes, ZenonT(60) DEF CreateReplacements
  <2>3. Len(repl) = cmd.k
    BY <1>0, <2>1, SMTT(60) DEF Cmds
  <2>4. ctl'.pc = "mark" /\ ctl'.c = ctl.c /\ ctl'.pc \in Drafting /\ ctl'.pc \notin Early
    BY <1>7, SMTT(60) DEF CreateReplacements, Goto, TypeOK, Controllers, Early, Drafting
  <2> HIDE DEF repl
  <2>5. Drafts' /\ DraftFree' /\ Empties' /\ Unmarked'
    BY <2>1, <2>2, <2>4, SMTT(60) DEF Commands, Drafts, DraftFree, Empties, Unmarked, Becomes, Has
  <2>6. OneCommandPerNode'
    BY <2>1, <2>2, SMTT(60) DEF Commands, OneCommandPerNode, Running, Becomes, Has
  <2>7. Created'
    BY <2>1, <2>2, <2>3, SMTT(60) DEF Commands, Created, Becomes, Has
  <2>8. Known'
    BY <2>1, <2>2, SMTT(60) DEF Commands, Known, Becomes, Has
  <2> QED BY <2>5, <2>6, <2>7, <2>8, SMTT(60) DEF Commands
<1>8. CASE CreateFails
  BY <1>8, CommandsDropped, SMTT(60) DEF CreateFails, Abandon, Idle, Drafting
<1>9. CASE MarkForDeletion
  <2>1. ctl.pc = "mark" /\ ctl'.pc = "enqueue" /\ ctl'.c = ctl.c /\ UNCHANGED <<cmds, queue>>
    BY <1>9 DEF MarkForDeletion, Goto, TypeOK, Controllers
  <2>2. ctl.pc \in Drafting /\ ctl'.pc \in Drafting /\ ctl.pc \notin Early /\ ctl'.pc \notin Early
    BY <2>1, SMTT(60) DEF Drafting, Early
  <2>3. Drafts' /\ DraftFree' /\ Empties' /\ Unmarked'
    BY <2>1, <2>2, SMTT(60) DEF Commands, Drafts, DraftFree, Empties, Unmarked
  <2>4. OneCommandPerNode' /\ Known'
    BY <2>1, SMTT(60) DEF Commands, OneCommandPerNode, Running, Known
  <2>5. Created'
    BY <2>1, <2>2, SMTT(60) DEF Commands, Created
  <2> QED BY <2>3, <2>4, <2>5, SMTT(60) DEF Commands
<1>10. CASE Enqueue
  <2> DEFINE c == ctl.c
  <2>1. ctl.pc = "enqueue" /\ ctl.pc \in Drafting /\ c \in Ids /\ cmds[c].phase = "draft" /\ UNCHANGED marked
    BY <1>0, <1>10, SMTT(60) DEF Enqueue, Drafting
  <2>2. queue' = [n \in Nodes |-> IF n \in cmds[c].cands THEN c ELSE queue[n]]
    BY <1>10, SMTT(60) DEF Enqueue
  <2>3. Becomes(c, "wait", cmds[c].cands, cmds[c].k, cmds[c].repl, cmds[c].known)
    BY <1>0, <1>10, <2>1, CmdFields, SetBecomes, ZenonT(60) DEF Enqueue
  <2>4. ctl'.pc \notin Drafting /\ ctl'.pc \notin Early /\ ctl.pc \notin Early
    BY <1>10 DEF Enqueue, Idle, Drafting, Early
  <2>5. Drafts' /\ DraftFree' /\ Empties' /\ Unmarked'
    <3>1. DraftFree' /\ Unmarked'
      BY <2>4, SMTT(60) DEF DraftFree, Unmarked
    <3>2. \A d \in Ids : cmds'[d].phase # "draft"
      BY <2>1, <2>3, SMTT(60) DEF Commands, Drafts, Becomes, Has
    <3>3. Empties'
      BY <2>1, <2>3, SMTT(60) DEF Commands, Empties, Becomes, Has
    <3> QED BY <2>4, <3>1, <3>2, <3>3, SMTT(60) DEF Drafts
  <2>6. \A n \in cmds[c].cands : queue[n] = 0
    BY <2>1 DEF Commands, DraftFree
  <2>7. OneCommandPerNode'
    <3> SUFFICES ASSUME NEW n \in Nodes, NEW d \in Ids
                 PROVE  queue'[n] = d <=> Running(d)' /\ n \in cmds'[d].cands
      BY DEF OneCommandPerNode
    <3>1. queue[n] = d <=> Running(d) /\ n \in cmds[d].cands
      BY DEF Commands, OneCommandPerNode
    <3>2. queue'[n] = IF n \in cmds[c].cands THEN c ELSE queue[n]
      BY <2>2
    <3>3. d # 0
      BY SMTT(60) DEF Ids
    <3>4. CASE d = c
      BY <2>1, <2>3, <3>1, <3>2, <3>4, SMTT(60) DEF Running, Becomes, Has
    <3>5. CASE d # c
      BY <2>3, <2>6, <3>1, <3>2, <3>3, <3>5, SMTT(60) DEF Running, Becomes
    <3> QED BY <3>4, <3>5, SMTT(60)
  <2>8. Created' /\ Known'
    BY <2>1, <2>3, <2>4, SMTT(60) DEF Commands, Created, Known, Becomes, Has
  <2> QED BY <2>5, <2>7, <2>8, SMTT(60) DEF Commands
<1>11. ASSUME NEW c \in Ids, KeyGone(c) PROVE Commands'
  <2>1. Becomes(c, "dropped", cmds[c].cands, 0, <<>>, {})
    BY <1>11, OverFields, SetBecomes, Zenon DEF KeyGone
  <2>2. Running(c) /\ UNCHANGED <<ctl, queue, marked>>
    BY <1>11, SMTT(60) DEF KeyGone, Running
  <2> QED BY <2>1, <2>2, OverReady, CommandsGoOn, SMTT(60)
<1>12. ASSUME NEW c \in Ids, WaitForReplacements(c) PROVE Commands'
  <2> DEFINE cmd == cmds[c]
             known == cmd.known \cup {i \in DOMAIN cmd.repl \ cmd.known : Initialized(cmd.repl[i])}
  <2>1. cmd.phase = "wait" /\ UNCHANGED <<ctl, queue, marked>> /\ Running(c)
    BY <1>12, SMTT(60) DEF WaitForReplacements, Running
  <2>2. \A i \in known : i \in DOMAIN cmd.repl /\ cmd.repl[i] \in {"init", "lost"}
    BY <1>0 DEF Commands, Known, Initialized
  <2>3. Len(cmd.repl) = cmd.k
    BY <2>1, SMTT(60) DEF Commands, Created, Drafts, Early, Drafting
  <2>4. \/ Becomes(c, "rollback", cmd.cands, 0, <<>>, {})
        \/ Becomes(c, "wait", cmd.cands, cmd.k, cmd.repl, known)
        \/ known = DOMAIN cmd.repl /\ Becomes(c, "delete", cmd.cands, cmd.k, cmd.repl, known)
    BY <1>12, WaitBecomes, SMTT(60)
  <2> HIDE DEF known
  <2>5. /\ Ready("wait", cmd.k, cmd.repl, known)
        /\ known = DOMAIN cmd.repl => Ready("delete", cmd.k, cmd.repl, known)
    BY <2>2, <2>3, SMTT(60) DEF Ready
  <2> QED BY <2>1, <2>4, <2>5, OverReady, CommandsGoOn, SMTT(60)
<1>13. ASSUME NEW c \in Ids, NEW F \in SUBSET Nodes, DeleteCandidates(c, F) PROVE Commands'
  <2> DEFINE cmd == cmds[c]
  <2>1. cmd.phase = "delete" /\ UNCHANGED <<ctl, queue, marked>> /\ Running(c)
    BY <1>13, SMTT(60) DEF DeleteCandidates, Running
  <2>2. \/ Becomes(c, "rollback", cmd.cands, 0, <<>>, {})
        \/ Becomes(c, "wait", cmd.cands, cmd.k, cmd.repl, cmd.known)
        \/ Becomes(c, "complete", cmd.cands, 0, <<>>, {})
    BY <1>13, DeleteBecomes, SMTT(60)
  <2>3. Ready("wait", cmd.k, cmd.repl, cmd.known)
    BY <2>1 DEF Ready, Commands, Created, Known, Drafts, Early, Drafting
  <2> QED BY <2>1, <2>2, <2>3, OverReady, CommandsGoOn, SMTT(60)
<1>14. ASSUME NEW c \in Ids, Rollback(c) PROVE Commands'
  <2>1. Becomes(c, "complete", cmds[c].cands, 0, <<>>, {})
    BY <1>14, OverFields, SetBecomes, ZenonT(60) DEF Rollback
  <2>2. Running(c) /\ UNCHANGED <<ctl, queue, marked>>
    BY <1>14 DEF Rollback, Running
  <2> QED BY <2>1, <2>2, OverReady, CommandsGoOn, SMTT(60)
<1>15. ASSUME NEW c \in Ids, CompleteCommand(c) PROVE Commands'
  <2>1. cmds[c].phase = "complete" /\ UNCHANGED ctl /\ marked' \subseteq marked
    BY <1>15 DEF CompleteCommand
  <2>2. queue' = [n \in Nodes |-> IF n \in cmds[c].cands THEN 0 ELSE queue[n]]
    BY <1>15, SMTT(60) DEF CompleteCommand
  <2>3. Becomes(c, "none", {}, 0, <<>>, {}) /\ Len(cmds'[c].repl) = 0
    BY <1>15, NoCmdFields, SetBecomes, SMTT(60) DEF CompleteCommand, Becomes, Has
  <2>4. ctl.pc \in Drafting => ctl.c \in Ids /\ ctl.c # c
    BY <1>0, <2>1, SMTT(60)
  <2>5. Drafts' /\ Empties'
    BY <2>1, <2>3, <2>4, SMTT(60) DEF Commands, Drafts, Empties, Becomes, Has
  <2>6. DraftFree'
    <3>1. ctl.pc \in Drafting => cmds'[ctl.c] = cmds[ctl.c] /\ cmds[ctl.c].cands \in SUBSET Nodes
      BY <2>3, <2>4, CmdsTyped, ZenonT(60) DEF Becomes
    <3> QED BY <2>1, <2>2, <3>1, SMTT(60) DEF Commands, DraftFree
  <2>7. Unmarked'
    BY <2>1, <2>3, <2>4, SMTT(60) DEF Commands, Unmarked, Becomes, Early, Drafting
  <2>8. OneCommandPerNode'
    <3> SUFFICES ASSUME NEW n \in Nodes, NEW d \in Ids
                 PROVE  queue'[n] = d <=> Running(d)' /\ n \in cmds'[d].cands
      BY DEF OneCommandPerNode
    <3>1. /\ queue[n] = d <=> Running(d) /\ n \in cmds[d].cands
          /\ queue[n] = c <=> Running(c) /\ n \in cmds[c].cands
      BY DEF Commands, OneCommandPerNode
    <3>2. queue'[n] = IF n \in cmds[c].cands THEN 0 ELSE queue[n]
      BY <2>2
    <3>3. d # 0
      BY SMTT(60) DEF Ids
    <3>4. CASE d = c
      BY <2>1, <2>3, <3>1, <3>2, <3>3, <3>4, SMTT(60) DEF Running, Becomes, Has
    <3>5. CASE d # c
      BY <2>1, <2>3, <3>1, <3>2, <3>3, <3>5, SMTT(60) DEF Running, Becomes
    <3> QED BY <3>4, <3>5, SMTT(60)
  <2>9. Created' /\ Known'
    BY <2>1, <2>3, SMTT(60) DEF Commands, Created, Known, Becomes, Has
  <2> QED BY <2>5, <2>6, <2>7, <2>8, <2>9, SMTT(60) DEF Commands
<1>16. ASSUME NEW c \in Ids, NEW i \in 1..MaxRepl, ReplacementStep(c, i) PROVE Commands'
  <2> DEFINE cmd == cmds[c]
  <2>1. i \in DOMAIN cmd.repl /\ UNCHANGED <<ctl, queue, marked>>
    BY <1>16 DEF ReplacementStep
  <2>2. PICK s : /\ SetCmd(c, [cmd EXCEPT !.repl[i] = s])
                 /\ cmd.repl[i] \in {"init", "lost"} => s = "lost"
    BY <1>16, Zenon DEF ReplacementStep
  <2> DEFINE q == [cmd.repl EXCEPT ![i] = s]
  <2>3. [cmd EXCEPT !.repl[i] = s] = [cmd EXCEPT !.repl = q]
    OBVIOUS
  <2>4. Becomes(c, cmd.phase, cmd.cands, cmd.k, q, cmd.known)
    <3> HIDE DEF q
    <3> QED BY <1>0, <2>2, <2>3, CmdFields, SetBecomes, ZenonT(60)
  <2>5. cmd.repl \in Seq(ReplStates)
    BY <1>0 DEF Cmds, ReplStates
  <2>6. Len(q) = Len(cmd.repl) /\ DOMAIN q = DOMAIN cmd.repl
    BY <2>5
  <2>7. \A j \in cmd.known : j \in DOMAIN q /\ q[j] \in {"init", "lost"}
    BY <2>1, <2>2, <2>6, SMTT(60) DEF Commands, Known
  <2> HIDE DEF q
  <2>8. \A d \in Ids : cmds'[d].phase = cmds[d].phase /\ cmds'[d].cands = cmds[d].cands
    BY <2>4, SMTT(60) DEF Becomes, Has
  <2>9. Drafts' /\ DraftFree' /\ Empties' /\ Unmarked'
    BY <1>0, <2>1, <2>8, SMTT(60) DEF Commands, Drafts, DraftFree, Empties, Unmarked, Drafting, Early
  <2>10. OneCommandPerNode'
    BY <2>1, <2>8, SMTT(60) DEF Commands, OneCommandPerNode, Running
  <2>11. Created'
    BY <2>1, <2>4, <2>6, SMTT(60) DEF Commands, Created, Becomes, Has
  <2>12. Known'
    <3> SUFFICES ASSUME NEW d \in Ids
                 PROVE  /\ \A j \in cmds'[d].known : j \in DOMAIN cmds'[d].repl /\ cmds'[d].repl[j] \in {"init", "lost"}
                        /\ cmds'[d].phase = "draft" => cmds'[d].known = {}
                        /\ cmds'[d].phase = "delete" => DOMAIN cmds'[d].repl \subseteq cmds'[d].known
      BY SMTT(60) DEF Known
    <3>1. CASE d = c
      BY <2>4, <2>6, <2>7, <3>1, SMTT(60) DEF Commands, Known, Becomes, Has
    <3>2. CASE d # c
      BY <2>4, <3>2, SMTT(60) DEF Commands, Known, Becomes
    <3> QED BY <3>1, <3>2, SMTT(60)
  <2> QED BY <2>9, <2>10, <2>11, <2>12, SMTT(60) DEF Commands
<1>17. CASE Tick
  <2>1. ASSUME NEW c \in Ids
        PROVE  Has(cmds'[c], cmds[c].phase, cmds[c].cands, cmds[c].k, cmds[c].repl, cmds[c].known)
    <3>1. cmds'[c] = IF Ages(cmds[c]) THEN [cmds[c] EXCEPT !.age = @ + 1] ELSE cmds[c]
      BY <1>17, SMTT(60) DEF Tick
    <3>2. CASE Ages(cmds[c])
      BY <1>0, <3>1, <3>2, CmdFields, Zenon
    <3>3. CASE ~Ages(cmds[c])
      BY <3>1, <3>3 DEF Has
    <3> QED BY <3>2, <3>3
  <2>2. UNCHANGED <<ctl, queue, marked>>
    BY <1>17, SMTT(60) DEF Tick
  <2>3. Drafts' /\ DraftFree' /\ Empties' /\ Unmarked'
    BY <2>1, <2>2, SMTT(60) DEF Commands, Drafts, DraftFree, Empties, Unmarked, Has, Drafting, Early
  <2>4. OneCommandPerNode'
    BY <2>1, <2>2, SMTT(60) DEF Commands, OneCommandPerNode, Running, Has
  <2>5. Created' /\ Known'
    BY <2>1, <2>2 DEF Commands, Created, Known, Has
  <2> QED BY <2>3, <2>4, <2>5 DEF Commands
<1>18. CASE Restart
  BY <1>18, NothingCommanded DEF Restart
<1>19. ASSUME NEW n \in Nodes, DeletedElsewhere(n) \/ FlipReady(n) \/ Terminates(n) \/ ClaimInformer(n) \/ NodeInformer(n)
       PROVE Commands'
  <2>1. UNCHANGED <<cmds, ctl, queue>> /\ marked' \subseteq marked
    BY <1>19 DEF DeletedElsewhere, FlipReady, Terminates, ClaimInformer, NodeInformer
  <2> QED BY <2>1, CommandsKept
<1>20. CASE UNCHANGED vars
  BY <1>20, CommandsKept, SMTT(60) DEF vars
<1> QED
  BY <1>1, <1>2, <1>3, <1>4, <1>5, <1>6, <1>7, <1>8, <1>9, <1>10, <1>11, <1>12, <1>13, <1>14, <1>15, <1>16,
     <1>17, <1>18, <1>19, <1>20, SMTT(60) DEF Next, Controller, QueueStep

-----------------------------------------------------------------------------
(* The taints *)

(* The taints of nodes outside C are left alone, those of C that are set are *)
(* kept by setting them.                                                     *)
LEMMA TaintsSet ==
    ASSUME TypeOK, ReadsCurrent, LiveSeen, "node" \notin Lag,
           NEW C \in SUBSET Nodes, NEW add \in BOOLEAN, NEW f \in TaintAll(C, add), node' = After(f)
    PROVE  /\ ReadsCurrent'
           /\ \A n \in Nodes \ C : node'[n] = node[n]
           /\ add => \A n \in C : /\ node[n].taint => node'[n].taint
                                  /\ f[n].ok /\ claim[n] = "live" => node'[n].taint
<1>1. DOMAIN f = C /\ \A n \in C : f[n] \in TaintResults(n, add)
  BY TaintTyped, ZenonT(60)
<1>2. \A n \in Nodes : node[n] \in [taint : BOOLEAN, seen : BOOLEAN] /\ node[n].seen = node[n].taint
  BY DEF ReadsCurrent, TypeOK
<1>3. \A n \in Nodes : Tainted(n, add) = [node[n] EXCEPT !.taint = add, !.seen = add]
  BY DEF Tainted
<1>4. \A n \in Nodes : Tainted(n, add).taint = add /\ Tainted(n, add).seen = add
  BY <1>2, <1>3, Zenon
<1>5. ASSUME NEW n \in C
      PROVE  /\ node'[n].seen = node'[n].taint
             /\ add => /\ node[n].taint => node'[n].taint
                       /\ f[n].ok /\ claim[n] = "live" => node'[n].taint
  <2>1. node'[n] = f[n].node
    BY <1>1, SMTT(60) DEF After
  <2>2. \/ f[n].node = node[n] /\ (f[n].ok => seen[n] = "gone" \/ node[n].seen = add)
        \/ f[n].node = Tainted(n, add)
    BY <1>1, TaintResult, SMTT(60)
  <2>3. claim[n] = "live" => seen[n] # "gone"
    BY DEF LiveSeen
  <2> QED BY <1>2, <1>4, <2>1, <2>2, <2>3, SMTT(60)
<1>6. \A n \in Nodes \ C : node'[n] = node[n]
  BY <1>1 DEF After
<1> QED BY <1>2, <1>5, <1>6, SMTT(60) DEF ReadsCurrent

(* No taint that is set goes, no claim comes back, and nothing is added to   *)
(* what has to be tainted.                                                   *)
Late == {"create", "mark", "enqueue"}
TaintsStay == \A n \in Nodes : claim'[n] = "live" => claim[n] = "live" /\ (node[n].taint => node'[n].taint)
SameDraft == ctl'.pc \in Late => ctl.pc \in Late /\ cmds'[ctl'.c].cands \subseteq cmds[ctl.c].cands
NoneQueued ==
    \A n \in Nodes : \A c \in Ids :
        queue'[n] = c /\ cmds'[c].phase \in {"wait", "delete"} => queue[n] = c /\ cmds[c].phase \in {"wait", "delete"}

LEMMA TaintsKept ==
    ASSUME TypeOK, TypeOK', Commands, Commands', Taints, LiveSeen', ReadsCurrent', TaintsStay, SameDraft, NoneQueued
    PROVE  Taints'
<1>1. ctl'.pc \in Late => cmds'[ctl'.c].cands \in SUBSET Nodes
  <2>1. ctl'.pc \in Late => ctl'.c \in Ids
    BY SMTT(60) DEF Commands, Drafts, Late, Drafting
  <2> QED BY <2>1, SMTT(60) DEF TypeOK, Cmds
<1>2. Fenced'
  BY <1>1, SMTT(60) DEF Taints, Fenced, TaintsStay, SameDraft, Late
<1>3. CandidatesTainted'
  BY DEF Taints, CandidatesTainted, Open, TaintsStay, NoneQueued
<1> QED BY <1>2, <1>3, SMTT(60) DEF Taints

LEMMA WorldKept ==
    ASSUME Taints, UNCHANGED <<claim, seen, node>>
    PROVE  LiveSeen' /\ ReadsCurrent' /\ TaintsStay
BY SMTT(60) DEF Taints, LiveSeen, ReadsCurrent, TaintsStay

(* Untainting: nodes of commands that are in the queue or at hand are not    *)
(* among them.                                                               *)
LEMMA Untainted ==
    ASSUME TypeOK, Taints, NEW C \in SUBSET Nodes, NEW f \in TaintAll(C, FALSE), node' = After(f),
           UNCHANGED <<claim, seen>>,
           "node" \notin Lag /\ ctl'.pc \in Late => \A n \in cmds'[ctl'.c].cands : claim[n] = "live" => node[n].taint /\ n \in Nodes \ C,
           \A n \in C : \A c \in Ids : queue'[n] = c => cmds'[c].phase \notin {"wait", "delete"},
           NoneQueued
    PROVE  Taints'
<1>1. LiveSeen'
  BY SMTT(60) DEF Taints, LiveSeen
<1>2. CASE "node" \in Lag
  BY <1>1, <1>2, SMTT(60) DEF Taints, ReadsCurrent, Fenced, CandidatesTainted
<1>3. CASE "node" \notin Lag
  <2>1. ReadsCurrent' /\ \A n \in Nodes \ C : node'[n] = node[n]
    BY <1>3, TaintsSet, ZenonT(60) DEF Taints
  <2>2. Fenced'
    BY <2>1, SMTT(60) DEF Fenced, Late
  <2>3. CandidatesTainted'
    BY <1>3, <2>1, SMTT(60) DEF Taints, CandidatesTainted, Open, NoneQueued
  <2> QED BY <1>1, <2>1, <2>2, <2>3, SMTT(60) DEF Taints
<1> QED BY <1>2, <1>3, SMTT(60)

(* Tainting: what the draft command goes on with is tainted. *)
LEMMA Tainting ==
    ASSUME TypeOK, Taints, NEW C \in SUBSET Nodes, NEW f \in TaintAll(C, TRUE), node' = After(f),
           UNCHANGED <<claim, seen>>,
           ctl'.pc \in Late => \A n \in cmds'[ctl'.c].cands : n \in C /\ f[n].ok,
           NoneQueued
    PROVE  Taints'
<1>1. LiveSeen'
  BY SMTT(60) DEF Taints, LiveSeen
<1>2. CASE "node" \in Lag
  BY <1>1, <1>2, SMTT(60) DEF Taints, ReadsCurrent, Fenced, CandidatesTainted
<1>3. CASE "node" \notin Lag
  <2>1. /\ ReadsCurrent'
        /\ \A n \in Nodes \ C : node'[n] = node[n]
        /\ \A n \in C : /\ node[n].taint => node'[n].taint
                        /\ f[n].ok /\ claim[n] = "live" => node'[n].taint
    BY <1>3, TaintsSet, ZenonT(60) DEF Taints
  <2>2. Fenced'
    BY <2>1, SMTT(60) DEF Fenced, Late
  <2>3. CandidatesTainted'
    BY <1>3, <2>1, SMTT(60) DEF Taints, CandidatesTainted, Open, NoneQueued
  <2> QED BY <1>1, <2>1, <2>2, <2>3, SMTT(60) DEF Taints
<1> QED BY <1>2, <1>3, SMTT(60)

LEMMA TaintsStep ==
    ASSUME TypeOK, TypeOK', Commands, Commands', Taints, [Next]_vars
    PROVE  Taints'
<1>0. /\ ctl.pc \in Drafting => ctl.c \in Ids /\ cmds[ctl.c].phase = "draft"
      /\ 0 \notin Ids /\ \A c \in Ids : cmds[c] \in Cmds
  <2>1. 0 \notin Ids
    BY SMTT(60) DEF Ids
  <2> QED BY <2>1 DEF Commands, Drafts, TypeOK
<1>1. CASE Cleanup
  <2>1. ctl'.pc \notin Late
    BY <1>1 DEF Cleanup, Idle, Late
  <2>2. PICK f \in TaintAll(Outdated, FALSE) : node' = After(f)
    BY <1>1, ZenonT(60) DEF Cleanup
  <2>3. UNCHANGED <<claim, seen, cmds, queue>>
    BY <1>1, SMTT(60) DEF Cleanup
  <2>4. Outdated \in SUBSET Nodes /\ \A n \in Outdated : queue[n] \notin Ids
    BY DEF Outdated, Ids
  <2>5. NoneQueued
    BY <2>3, SMTT(60) DEF NoneQueued
  <2> QED BY <2>1, <2>2, <2>3, <2>4, <2>5, Untainted, Zenon
<1>2. CASE MethodPasses
  <2>1. NoneQueued /\ SameDraft
    BY <1>2, NextIdle, SMTT(60) DEF MethodPasses, NoneQueued, SameDraft, Late, Drafting
  <2> QED BY <1>2, <2>1, WorldKept, TaintsKept, SMTT(60) DEF MethodPasses
<1>3. ASSUME NEW C \in SUBSET Nodes, NEW k \in 0..MaxRepl, ComputeCommands(C, k) PROVE Taints'
  <2> DEFINE r == env.methods[ctl.m]
             new == [NoCmd EXCEPT !.phase = "draft", !.reason = r, !.cands = C, !.k = k]
  <2>1. PICK c \in Ids : /\ SetCmd(c, new)
                         /\ ctl' = [ctl EXCEPT !.pc = IF Single(r) THEN "start" ELSE "validate", !.c = c]
    BY <1>3, ZenonT(60) DEF ComputeCommands
  <2>2. Becomes(c, "draft", C, k, <<>>, {})
    BY <2>1, NewFields, SetBecomes, ZenonT(60)
  <2>3. SameDraft
    BY <2>1 DEF TypeOK, Controllers, Late, SameDraft
  <2> HIDE DEF r, new
  <2>4. UNCHANGED <<claim, seen, node, queue>>
    BY <1>3, SMTT(60) DEF ComputeCommands
  <2>5. NoneQueued
    BY <2>2, <2>4, SMTT(60) DEF NoneQueued, Becomes, Has
  <2> QED BY <2>3, <2>4, <2>5, WorldKept, TaintsKept, SMTT(60)
<1>4. ASSUME NEW V \in SUBSET Nodes, Validate(V) PROVE Taints'
  <2>1. ctl.c \in Ids /\ cmds[ctl.c].phase = "draft" /\ UNCHANGED <<claim, seen, node, queue>>
    BY <1>0, <1>4, SMTT(60) DEF Validate, Drafting
  <2>2. Becomes(ctl.c, "draft", V, cmds[ctl.c].k, cmds[ctl.c].repl, cmds[ctl.c].known)
    BY <1>0, <1>4, <2>1, CmdFields, SetBecomes, ZenonT(60) DEF Validate
  <2>3. SameDraft
    BY <1>4, SMTT(60) DEF Validate, Goto, TypeOK, Controllers, SameDraft, Late
  <2>4. NoneQueued
    BY <2>1, <2>2, SMTT(60) DEF NoneQueued, Becomes, Has
  <2> QED BY <2>1, <2>3, <2>4, WorldKept, TaintsKept, SMTT(60)
<1>5. ASSUME ctl.pc \in Drafting, SetCmd(ctl.c, NoCmd), ctl'.pc \notin Drafting, UNCHANGED <<claim, seen, queue>>
      PROVE  NoneQueued /\ SameDraft
  <2>1. Becomes(ctl.c, "none", {}, 0, <<>>, {})
    BY <1>0, <1>5, NoCmdFields, SetBecomes, SMTT(60)
  <2> QED BY <1>5, <2>1, SMTT(60) DEF NoneQueued, SameDraft, Becomes, Has, Late, Drafting
<1>6. CASE Invalid
  <2>1. NoneQueued /\ SameDraft
    BY <1>5, <1>6, NextIdle, SMTT(60) DEF Invalid, Drafting
  <2> QED BY <1>6, <2>1, WorldKept, TaintsKept, SMTT(60) DEF Invalid
<1>7. CASE CreateFails
  <2>1. NoneQueued /\ SameDraft
    BY <1>5, <1>7, SMTT(60) DEF CreateFails, Abandon, Idle, Drafting
  <2> QED BY <1>7, <2>1, WorldKept, TaintsKept, SMTT(60) DEF CreateFails
<1>8. ASSUME NEW E \in SUBSET Nodes, MarkDisrupted(E) PROVE Taints'
  <2> DEFINE cmd == cmds[ctl.c]
  <2>1. ctl.pc = "start" /\ ctl.pc \in Drafting /\ ctl.c \in Ids /\ cmd.phase = "draft" /\ UNCHANGED <<claim, seen, queue>>
    BY <1>0, <1>8, SMTT(60) DEF MarkDisrupted, Drafting
  <2>2. cmd.cands \in SUBSET Nodes
    BY <2>1, CmdsTyped, ZenonT(60)
  <2>3. CASE HasAny(cmd.cands)
    <3>1. Abandon /\ UNCHANGED node
      BY <1>8, <2>3, SMTT(60) DEF MarkDisrupted
    <3>2. NoneQueued /\ SameDraft
      BY <1>5, <2>1, <3>1, SMTT(60) DEF Abandon, Idle, Drafting
    <3> QED BY <2>1, <3>1, <3>2, WorldKept, TaintsKept, SMTT(60)
  <2>4. CASE ~HasAny(cmd.cands)
    <3>1. PICK f \in TaintAll(cmd.cands, TRUE) :
             LET ok == {n \in cmd.cands : f[n].ok} \ E
             IN  /\ node' = After(f)
                 /\ Abandon \/ (SetCmd(ctl.c, [cmd EXCEPT !.cands = ok]) /\ Goto("create"))
      BY <1>8, <2>4, Zenon DEF MarkDisrupted
    <3> DEFINE ok == {n \in cmd.cands : f[n].ok} \ E
    <3>2. CASE Abandon
      <4>1. NoneQueued /\ ctl'.pc \notin Late
        BY <1>5, <2>1, <3>2, SMTT(60) DEF Abandon, Idle, Drafting, Late
      <4> QED BY <2>1, <2>2, <3>1, <4>1, Tainting, ZenonT(60)
    <3>3. CASE SetCmd(ctl.c, [cmd EXCEPT !.cands = ok]) /\ Goto("create")
      <4>1. Becomes(ctl.c, "draft", ok, cmd.k, cmd.repl, cmd.known)
        <5> HIDE DEF ok
        <5> QED BY <1>0, <2>1, <3>3, CmdFields, SetBecomes, ZenonT(60)
      <4>2. ctl'.c = ctl.c
        BY <3>3, SMTT(60) DEF Goto, TypeOK, Controllers
      <4>3. NoneQueued
        BY <2>1, <4>1, SMTT(60) DEF NoneQueued, Becomes, Has
      <4>4. \A n \in cmds'[ctl'.c].cands : n \in cmd.cands /\ f[n].ok
        BY <4>1, <4>2, SMTT(60) DEF Becomes, Has
      <4> QED BY <2>1, <2>2, <3>1, <4>3, <4>4, Tainting, Zenon
    <3> QED BY <3>1, <3>2, <3>3, SMTT(60)
  <2> QED BY <2>3, <2>4, SMTT(60)
<1>9. CASE CreateReplacements
  <2> DEFINE repl == [i \in 1..cmds[ctl.c].k |-> "new"]
  <2>1. ctl.pc \in Late /\ ctl.c \in Ids /\ cmds[ctl.c].phase = "draft" /\ UNCHANGED <<claim, seen, node, queue>>
    BY <1>0, <1>9, SMTT(60) DEF CreateReplacements, Drafting, Late
  <2>2. Becomes(ctl.c, "draft", cmds[ctl.c].cands, cmds[ctl.c].k, repl, cmds[ctl.c].known)
    <3> HIDE DEF repl
    <3>1. SetCmd(ctl.c, [cmds[ctl.c] EXCEPT !.repl = repl])
      BY <1>9, SMTT(60) DEF CreateReplacements, repl
    <3> QED BY <1>0, <2>1, <3>1, CmdFields, SetBecomes, ZenonT(60)
  <2> HIDE DEF repl
  <2>3. ctl'.c = ctl.c
    BY <1>9, SMTT(60) DEF CreateReplacements, Goto, TypeOK, Controllers
  <2>4. NoneQueued /\ SameDraft
    BY <2>1, <2>2, <2>3, SMTT(60) DEF NoneQueued, SameDraft, Becomes, Has
  <2> QED BY <2>1, <2>4, WorldKept, TaintsKept, SMTT(60)
<1>10. CASE MarkForDeletion
  <2>1. ctl.pc \in Late /\ ctl'.c = ctl.c /\ UNCHANGED <<claim, seen, node, queue, cmds>>
    BY <1>10, SMTT(60) DEF MarkForDeletion, Goto, TypeOK, Controllers, Late
  <2>2. NoneQueued /\ SameDraft
    BY <2>1 DEF NoneQueued, SameDraft
  <2> QED BY <2>1, <2>2, WorldKept, TaintsKept, SMTT(60)
<1>11. CASE Enqueue
  <2> DEFINE c == ctl.c
  <2>1. ctl.pc = "enqueue" /\ ctl.c \in Ids /\ UNCHANGED <<claim, seen, node>> /\ ctl'.pc \notin Late
    BY <1>0, <1>11, SMTT(60) DEF Enqueue, Drafting, Late, Idle
  <2>2. Becomes(c, "wait", cmds[c].cands, cmds[c].k, cmds[c].repl, cmds[c].known)
    BY <1>0, <1>11, <2>1, CmdFields, SetBecomes, ZenonT(60) DEF Enqueue
  <2>3. \A n \in Nodes : queue'[n] = IF n \in cmds[c].cands THEN c ELSE queue[n]
    BY <1>11, SMTT(60) DEF Enqueue
  <2>4. LiveSeen' /\ ReadsCurrent' /\ Fenced'
    BY <2>1, WorldKept, SMTT(60) DEF Fenced, Late
  <2>5. "node" \notin Lag => \A n \in cmds[c].cands : claim[n] = "live" => node[n].taint
    BY <2>1, SMTT(60) DEF Taints, Fenced
  <2>6. ASSUME "node" \notin Lag, NEW n \in Nodes, NEW d \in Ids, Open(n, d)' PROVE FALSE
    <3>1. queue'[n] = d /\ claim[n] = "live" /\ cmds'[d].phase \in {"wait", "delete"} /\ ~node[n].taint
      BY <2>1, <2>6, SMTT(60) DEF Open
    <3>2. n \notin cmds[c].cands
      BY <2>5, <2>6, <3>1, SMTT(60)
    <3>3. n \notin cmds'[c].cands
      BY <2>2, <3>2, SMTT(60) DEF Becomes, Has
    <3>4. d # c
      BY <3>1, <3>3, SMTT(60) DEF Commands, OneCommandPerNode
    <3>5. queue[n] = d /\ cmds[d].phase \in {"wait", "delete"}
      BY <2>2, <2>3, <3>1, <3>2, <3>4, SMTT(60) DEF Becomes
    <3> QED BY <2>6, <3>1, <3>5, SMTT(60) DEF Taints, CandidatesTainted, Open
  <2>7. CandidatesTainted'
    BY <2>6, SMTT(60) DEF CandidatesTainted
  <2> QED BY <2>4, <2>7 DEF Taints
<1>12. ASSUME NEW c \in Ids, NEW p, NEW k, NEW q, NEW K, UNCHANGED <<ctl, queue>>,
              Becomes(c, p, cmds[c].cands, k, q, K),
              p \in {"wait", "delete"} => cmds[c].phase \in {"wait", "delete"}
       PROVE  NoneQueued /\ SameDraft
  BY <1>0, <1>12, SMTT(60) DEF NoneQueued, SameDraft, Becomes, Has, Late, Drafting
<1>13. ASSUME NEW c \in Ids, KeyGone(c) PROVE Taints'
  <2>1. Becomes(c, "dropped", cmds[c].cands, 0, <<>>, {})
    BY <1>13, OverFields, SetBecomes, Zenon DEF KeyGone
  <2>2. NoneQueued /\ SameDraft
    BY <1>12, <1>13, <2>1, ZenonT(60) DEF KeyGone
  <2> QED BY <1>13, <2>2, WorldKept, TaintsKept, SMTT(60) DEF KeyGone
<1>14. ASSUME NEW c \in Ids, WaitForReplacements(c) PROVE Taints'
  <2>1. cmds[c].phase = "wait" /\ UNCHANGED <<claim, seen, node, ctl, queue>>
    BY <1>14, SMTT(60) DEF WaitForReplacements
  <2>2. NoneQueued /\ SameDraft
    <3>1. cmds'[c].cands = cmds[c].cands /\ \A d \in Ids \ {c} : cmds'[d] = cmds[d]
      BY <1>14, WaitBecomes, ZenonT(60)
    <3> QED BY <1>0, <2>1, <3>1, SMTT(60) DEF NoneQueued, SameDraft, Late, Drafting
  <2> QED BY <2>1, <2>2, WorldKept, TaintsKept, SMTT(60)
<1>15. ASSUME NEW c \in Ids, NEW F \in SUBSET Nodes, DeleteCandidates(c, F) PROVE Taints'
  <2>1. cmds[c].phase = "delete" /\ UNCHANGED <<node, ctl, queue>>
    BY <1>15, SMTT(60) DEF DeleteCandidates
  <2>2. cmds'[c].cands = cmds[c].cands /\ \A d \in Ids \ {c} : cmds'[d] = cmds[d]
    BY <1>15, DeleteBecomes, SMTT(60)
  <2>3. NoneQueued /\ SameDraft
    BY <1>0, <2>1, <2>2, SMTT(60) DEF NoneQueued, SameDraft, Late, Drafting
  <2>4. \A n \in Nodes : claim'[n] = "live" => claim[n] = "live"
    BY <1>15 DEF DeleteCandidates
  <2>5. seen' = seen \/ seen' = claim'
    BY <1>15, SMTT(60) DEF DeleteCandidates
  <2>6. LiveSeen' /\ ReadsCurrent' /\ TaintsStay
    BY <2>1, <2>4, <2>5, SMTT(60) DEF Taints, LiveSeen, ReadsCurrent, TaintsStay
  <2> QED BY <2>3, <2>6, TaintsKept, SMTT(60)
<1>16. ASSUME NEW c \in Ids, Rollback(c) PROVE Taints'
  <2>1. PICK f \in TaintAll(cmds[c].cands, FALSE) : node' = After(f)
    BY <1>16, Zenon DEF Rollback
  <2>2. cmds[c].phase = "rollback" /\ UNCHANGED <<claim, seen, ctl, queue>>
    BY <1>16, SMTT(60) DEF Rollback
  <2>3. Becomes(c, "complete", cmds[c].cands, 0, <<>>, {})
    BY <1>16, OverFields, SetBecomes, Zenon DEF Rollback
  <2>4. NoneQueued
    BY <1>12, <2>2, <2>3, SMTT(60)
  <2>5. cmds[c].cands \in SUBSET Nodes
    BY CmdsTyped, ZenonT(60)
  <2>6. \A n \in cmds[c].cands : queue[n] = c
    BY <2>2, <2>5, SMTT(60) DEF Commands, OneCommandPerNode, Running
  <2>7. \A n \in cmds[c].cands : \A d \in Ids : queue'[n] = d => cmds'[d].phase \notin {"wait", "delete"}
    BY <2>2, <2>3, <2>6, SMTT(60) DEF Becomes, Has
  <2>8. ASSUME "node" \notin Lag, ctl'.pc \in Late, NEW n \in cmds'[ctl'.c].cands, claim[n] = "live"
        PROVE  node[n].taint /\ n \in Nodes \ cmds[c].cands
    <3>1. ctl.pc \in Late /\ ctl.pc \in Drafting /\ ctl.c # c /\ ctl'.c = ctl.c
      BY <1>0, <2>2, <2>8, SMTT(60) DEF Late, Drafting
    <3>2. cmds'[ctl.c].cands = cmds[ctl.c].cands /\ ctl.c \in Ids
      BY <1>0, <2>3, <3>1, SMTT(60) DEF Becomes
    <3>3. n \in Nodes /\ queue[n] = 0
      BY <2>8, <3>1, <3>2, CmdsTyped, ZenonT(60) DEF Commands, DraftFree
    <3>4. n \notin cmds[c].cands
      BY <1>0, <2>6, <3>3, SMTT(60)
    <3> QED BY <2>8, <3>1, <3>2, <3>3, <3>4, SMTT(60) DEF Taints, Fenced, Late
  <2> QED BY <2>1, <2>2, <2>4, <2>5, <2>7, <2>8, Untainted, ZenonT(60)
<1>17. ASSUME NEW c \in Ids, CompleteCommand(c) PROVE Taints'
  <2>1. cmds[c].phase = "complete" /\ UNCHANGED <<claim, seen, node, ctl>>
    BY <1>17, SMTT(60) DEF CompleteCommand
  <2>2. \A n \in Nodes : queue'[n] = IF n \in cmds[c].cands THEN 0 ELSE queue[n]
    BY <1>17, SMTT(60) DEF CompleteCommand
  <2>3. Becomes(c, "none", {}, 0, <<>>, {})
    BY <1>17, NoCmdFields, SetBecomes, SMTT(60) DEF CompleteCommand
  <2>4. NoneQueued
    BY <1>0, <2>2, <2>3, SMTT(60) DEF NoneQueued, Becomes, Has
  <2>5. SameDraft
    BY <1>0, <2>1, <2>3, SMTT(60) DEF SameDraft, Becomes, Late, Drafting
  <2> QED BY <2>1, <2>4, <2>5, WorldKept, TaintsKept, SMTT(60)
<1>18. ASSUME NEW c \in Ids, NEW i \in 1..MaxRepl, ReplacementStep(c, i) PROVE Taints'
  <2>1. UNCHANGED <<claim, seen, node, ctl, queue>>
    BY <1>18 DEF ReplacementStep
  <2>2. PICK s : SetCmd(c, [cmds[c] EXCEPT !.repl[i] = s])
    BY <1>18, ZenonT(60) DEF ReplacementStep
  <2>3. [cmds[c] EXCEPT !.repl[i] = s] = [cmds[c] EXCEPT !.repl = [cmds[c].repl EXCEPT ![i] = s]]
    OBVIOUS
  <2>4. Becomes(c, cmds[c].phase, cmds[c].cands, cmds[c].k, [cmds[c].repl EXCEPT ![i] = s], cmds[c].known)
    BY <1>0, <2>2, <2>3, CmdFields, SetBecomes, Zenon
  <2>5. NoneQueued /\ SameDraft
    BY <1>12, <2>1, <2>4, SMTT(60)
  <2> QED BY <2>1, <2>5, WorldKept, TaintsKept, SMTT(60)
<1>19. CASE Tick
  <2>1. UNCHANGED <<claim, seen, node, ctl, queue>>
    BY <1>19 DEF Tick
  <2>2. ASSUME NEW c \in Ids PROVE cmds'[c].phase = cmds[c].phase /\ cmds'[c].cands = cmds[c].cands
    <3>1. cmds'[c] = IF Ages(cmds[c]) THEN [cmds[c] EXCEPT !.age = @ + 1] ELSE cmds[c]
      BY <1>19, SMTT(60) DEF Tick
    <3>2. Has([cmds[c] EXCEPT !.age = @ + 1], cmds[c].phase, cmds[c].cands, cmds[c].k, cmds[c].repl, cmds[c].known)
      BY <1>0, CmdFields, ZenonT(60)
    <3> QED BY <3>1, <3>2 DEF Has
  <2>3. NoneQueued /\ SameDraft
    BY <1>0, <2>1, <2>2, SMTT(60) DEF NoneQueued, SameDraft, Late, Drafting
  <2> QED BY <2>1, <2>3, WorldKept, TaintsKept, SMTT(60)
<1>20. CASE Restart
  <2>1. ctl'.pc \notin Late /\ (\A n \in Nodes : queue'[n] \notin Ids) /\ seen' = claim' /\ UNCHANGED claim
    BY <1>20 DEF Restart, Idle, Late, Ids
  <2>2. \A n \in Nodes : node'[n].seen = node'[n].taint
    BY <1>20 DEF Restart, TypeOK
  <2> QED BY <2>1, <2>2 DEF Taints, LiveSeen, ReadsCurrent, Fenced, CandidatesTainted, Open, Late
<1>21. ASSUME NEW n \in Nodes, DeletedElsewhere(n) \/ FlipReady(n) \/ Terminates(n) \/ ClaimInformer(n) \/ NodeInformer(n)
       PROVE  Taints'
  <2>1. UNCHANGED <<cmds, ctl, queue>>
    BY <1>21, SMTT(60) DEF DeletedElsewhere, FlipReady, Terminates, ClaimInformer, NodeInformer
  <2>2. NoneQueued /\ SameDraft
    BY <2>1, SMTT(60) DEF NoneQueued, SameDraft
  <2>3. LiveSeen'
    BY <1>21 DEF Taints, LiveSeen, TypeOK, DeletedElsewhere, FlipReady, Terminates, ClaimInformer, NodeInformer
  <2>4. ReadsCurrent'
    <3>1. CASE Terminates(n)
      BY <3>1, ZenonT(60) DEF Taints, ReadsCurrent, TypeOK, Terminates
    <3>2. CASE NodeInformer(n)
      BY <3>2 DEF Taints, ReadsCurrent, NodeInformer
    <3>3. CASE UNCHANGED node
      BY <3>3, SMTT(60) DEF Taints, ReadsCurrent
    <3> QED BY <1>21, <3>1, <3>2, <3>3, SMTT(60) DEF DeletedElsewhere, FlipReady, ClaimInformer
  <2>5. TaintsStay
    BY <1>21, SMTT(60) DEF TaintsStay, TypeOK, DeletedElsewhere, FlipReady, Terminates, ClaimInformer, NodeInformer
  <2> QED BY <2>2, <2>3, <2>4, <2>5, TaintsKept, SMTT(60)
<1>22. CASE UNCHANGED vars
  <2>1. NoneQueued /\ SameDraft
    BY <1>22 DEF vars, NoneQueued, SameDraft
  <2> QED BY <1>22, <2>1, WorldKept, TaintsKept, SMTT(60) DEF vars
<1> QED
  BY <1>1, <1>2, <1>3, <1>4, <1>6, <1>7, <1>8, <1>9, <1>10, <1>11, <1>13, <1>14, <1>15, <1>16,
     <1>17, <1>18, <1>19, <1>20, <1>21, <1>22, SMTT(60) DEF Next, Controller, QueueStep

-----------------------------------------------------------------------------
(* The theorems *)

(* What is true in every state, and inductive. *)
DisruptionInv == TypeOK /\ Commands /\ Taints

LEMMA InvInit == Init => DisruptionInv
<1> SUFFICES ASSUME Init PROVE DisruptionInv
  BY SMTT(60)
<1>1. env \in Environments /\ env.methods # <<>> /\ ctl = Idle
  BY DisruptionAssumption, SMTT(60) DEF Init
<1>2. 1 \in DOMAIN env.methods
  <2>1. env.methods \in Seq(Reasons)
    BY <1>1, SMTT(60) DEF Environments
  <2> QED BY <1>1, <2>1, LenProperties, EmptySeq, SMTT(60)
<1>3. TypeOK
  <2>1. ctl \in Controllers /\ ctl.m \in DOMAIN env.methods
    BY <1>1, <1>2, DisruptionAssumption, SMTT(60) DEF Idle, Controllers
  <2>2. cmds \in [Ids -> Cmds]
    BY NoCmdTyped, SMTT(60) DEF Init
  <2>3. queue \in [Nodes -> 0..MaxCmds]
    BY DisruptionAssumption, SMTT(60) DEF Init
  <2>4. claim \in [Nodes -> ClaimPhases] /\ seen \in [Nodes -> ClaimPhases]
    BY SMTT(60) DEF Init, ClaimPhases
  <2>5. node \in [Nodes -> [taint : BOOLEAN, seen : BOOLEAN]] /\ byCmd = {} /\ notReady = {} /\ marked = {}
    BY SMTT(60) DEF Init
  <2> QED BY <1>1, <2>1, <2>2, <2>3, <2>4, <2>5, SMTT(60) DEF TypeOK
<1>4. \A c \in Ids : Has(cmds[c], "none", {}, 0, <<>>, {}) /\ Len(cmds[c].repl) = 0
  BY NoCmdFields, SMTT(60) DEF Init
<1>5. ctl.pc \notin Drafting /\ ctl.pc \notin Early /\ ctl.pc \notin Late
  BY <1>1, SMTT(60) DEF Idle, Drafting, Early, Late
<1>6. \A n \in Nodes : queue[n] \notin Ids
  BY DEF Init, Ids
<1>7. Commands
  <2>1. Drafts /\ DraftFree /\ Empties /\ Unmarked /\ Created /\ Known
    BY <1>4, <1>5, SMTT(60) DEF Drafts, DraftFree, Empties, Unmarked, Created, Known, Has
  <2>2. OneCommandPerNode
    BY <1>4, <1>6 DEF OneCommandPerNode, Running, Has
  <2> QED BY <2>1, <2>2, SMTT(60) DEF Commands
<1>8. Taints
  <2>1. LiveSeen /\ ReadsCurrent
    BY Zenon DEF Init, LiveSeen, ReadsCurrent
  <2>2. Fenced /\ CandidatesTainted
    BY <1>5, <1>6, SMTT(60) DEF Fenced, CandidatesTainted, Open, Late
  <2> QED BY <2>1, <2>2, SMTT(60) DEF Taints
<1> QED BY <1>3, <1>7, <1>8, SMTT(60) DEF DisruptionInv

LEMMA InvStep == DisruptionInv /\ [Next]_vars => DisruptionInv'
<1> SUFFICES ASSUME DisruptionInv, [Next]_vars PROVE DisruptionInv'
  OBVIOUS
<1>1. TypeOK /\ Commands /\ Taints /\ Drafts
  BY DEF DisruptionInv, Commands
<1>2. TypeOK'
  BY <1>1, TypeStep
<1>3. Commands'
  BY <1>1, CommandsStep, SMTT(60)
<1>4. Taints'
  BY <1>1, <1>2, <1>3, TaintsStep, SMTT(60)
<1> QED BY <1>2, <1>3, <1>4, SMTT(60) DEF DisruptionInv

(* For any nodes, NodePools, budgets, methods and bounds: the state of the   *)
(* disruption controller and its queue is well-formed, there is at most one  *)
(* command at hand, and DisruptionInv holds.                                 *)
THEOREM DisruptionInvariant == Spec => []DisruptionInv
BY InvInit, InvStep, PTL DEF Spec

(* A node is in at most one command, the queue's map has exactly the         *)
(* candidates of the commands that run, and a live candidate of a command    *)
(* that waits or deletes keeps its taint whatever the cleanup of the         *)
(* controller and the rollback of other commands do while Node reads are     *)
(* current (queue.go HasAny, StartCommand, CompleteCommand).                 *)
THEOREM CandidatesAlwaysHeld == Spec => []CandidatesHeld
<1>1. DisruptionInv => CandidatesHeld
  BY SMTT(60) DEF DisruptionInv, Commands, Taints, CandidatesHeld
<1> QED BY <1>1, DisruptionInvariant, PTL

(* No candidate is marked for deletion before all replacements of its        *)
(* command are created, however many there are (queue.go:418-423).           *)
THEOREM NeverDoubleLaunch == Spec => []NoDoubleLaunch
<1>1. DisruptionInv => NoDoubleLaunch
  <2> SUFFICES ASSUME DisruptionInv, NEW c \in Ids, cmds[c].cands \cap marked # {}
               PROVE  Len(cmds[c].repl) = cmds[c].k
    BY SMTT(60) DEF NoDoubleLaunch
  <2>1. ~(ctl.pc \in Early /\ ctl.c = c)
    BY DEF DisruptionInv, Commands, Unmarked
  <2> QED BY <2>1, SMTT(60) DEF DisruptionInv, Commands, Created
<1> QED BY <1>1, DisruptionInvariant, PTL

(* A command deletes a candidate only after each of its replacements was     *)
(* initialized (queue.go waitOrTerminate).                                   *)
THEOREM ReplacementsAlwaysFirst == Spec => ReplacementsFirst
<1> DEFINE First ==
        \A c \in Ids : \A n \in (byCmd' \ byCmd) \cap cmds[c].cands :
            \A i \in 1..cmds[c].k : i \in DOMAIN cmds[c].repl /\ cmds[c].repl[i] \in {"init", "lost"}
<1>1. DisruptionInv /\ [Next]_vars => [First]_vars
  <2> SUFFICES ASSUME DisruptionInv, Next, NEW c \in Ids, NEW n \in (byCmd' \ byCmd) \cap cmds[c].cands,
                      NEW i \in 1..cmds[c].k
               PROVE  i \in DOMAIN cmds[c].repl /\ cmds[c].repl[i] \in {"init", "lost"}
    OBVIOUS
  <2>1. PICK d \in Ids : cmds[d].phase = "delete" /\ n \in cmds[d].cands
    <3>1. PICK d \in Ids : \E F \in SUBSET Nodes : DeleteCandidates(d, F)
      BY ZenonT(60) DEF Next, Controller, QueueStep, Tick, Restart, Cleanup, MethodPasses, Invalid, ComputeCommands, Validate,
             MarkDisrupted, CreateReplacements, CreateFails, MarkForDeletion, Enqueue, KeyGone, WaitForReplacements,
             Rollback, CompleteCommand, ReplacementStep, DeletedElsewhere, Terminates, FlipReady, ClaimInformer,
             NodeInformer
    <3> QED BY <3>1, SMTT(60) DEF DeleteCandidates
  <2>2. n \in Nodes /\ queue[n] = d
    BY <2>1, CmdsTyped, ZenonT(60) DEF DisruptionInv, Commands, OneCommandPerNode, Running
  <2>3. cmds[c].phase # "draft"
    BY <2>2, SMTT(60) DEF DisruptionInv, Commands, Drafts, DraftFree, Ids
  <2>4. cmds[c].phase # "none"
    BY SMTT(60) DEF DisruptionInv, Commands, Empties
  <2>5. c = d
    BY <2>2, <2>3, <2>4, SMTT(60) DEF DisruptionInv, Commands, OneCommandPerNode, Running
  <2>6. Len(cmds[c].repl) = cmds[c].k
    BY <2>3, <2>5, SMTT(60) DEF DisruptionInv, Commands, Created, Drafts, Early, Drafting
  <2>7. DOMAIN cmds[c].repl = 1..cmds[c].k
    <3>1. cmds[c].repl \in Seq(ReplStates)
      BY DEF DisruptionInv, TypeOK, Cmds, ReplStates
    <3> QED BY <2>6, <3>1, LenProperties, SMTT(60)
  <2> QED BY <2>1, <2>5, <2>7, Zenon DEF DisruptionInv, Commands, Known
<1> QED BY <1>1, DisruptionInvariant, PTL DEF Spec, ReplacementsFirst
=============================================================================
