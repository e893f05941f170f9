---------------------------- MODULE RebootProofs -----------------------------
(***************************************************************************)
(* One operation per reboot request, for any durations, any number of      *)
(* commits, failed calls, restarts, edits and Nodes that vanish.           *)
(***************************************************************************)
EXTENDS Reboot, TLAPS

(* A copy of a request whose reconcile still leads to a provider call. *)
Open(c) == c.phase = "Requested" /\ c.tgp # "invalid"

(* The reconcile is between the fence and RebootIssued, or on the way to     *)
(* setTerminal.                                                              *)
Issuing == rec.pc \in {"taint", "drain", "record", "call", "issuedAt", "issued"}
Ending  == \/ rec.pc \in {"unlabel", "lift", "clear", "terminal"}
           \/ rec.pc = "failTaint" /\ rec.result = "Failed"

(* What a resourceVersion stands for: a copy that is not stale is the claim, *)
(* and a repair pass that holds one found no reboot in progress.             *)
CopyInv ==
    /\ "cache" \notin stale => seen = claim
    /\ "reboot" \notin stale /\ rec.pc # "idle" => rec.c = claim
    /\ "repair" \notin stale /\ repair.pc # "idle" => ~RebootInProgress(claim) /\ ~RebootInProgress(seen)
    /\ repair.pc # "idle" => history < rebootsBeforeReplacement /\ env.commits > 0
    /\ ~RebootInProgress(life.c)

(* Every copy and every call is of a request that was committed. *)
RequestInv ==
    /\ claim.ep \in 0..past.commits /\ seen.ep \in 0..past.commits
    /\ rec.c.ep \in 0..past.commits /\ life.c.ep \in 0..past.commits
    /\ \A o \in past.calls : o.ep \in 0..past.commits /\ o.pre # NoBoot

(* A request is ended from a copy of it that leads to no further call, and   *)
(* the cache has such a copy by then, or the lock of setTerminal fails.      *)
EndingInv == Ending => ~Open(rec.c) /\ ("reboot" \notin stale => ~Open(seen))

IssuingInv ==
    /\ Issuing => rec.result = "Succeeded"
    /\ rec.pc \in {"drain", "record"} => rec.c.pre = NoBoot
    /\ rec.pc = "call" => rec.c.pre # NoBoot

(* A copy that leads to a call is of the request of the claim and has its    *)
(* boot ID, or has none while that of the claim is still the boot ID of the  *)
(* Node: to record it again changes nothing.                                 *)
Current(c) ==
    /\ RebootInProgress(claim) /\ claim.ep = c.ep
    /\ c.pre = claim.pre \/ (c.pre = NoBoot /\ claim.pre = node.boot)

(* As long as the request may lead to a call, the calls it led to are those  *)
(* the claim records.                                                        *)
OperationInv ==
    \/ past.lost \/ past.lagged
    \/ /\ Open(seen) => Current(seen)
       /\ Issuing => Current(rec.c)
       /\ Open(claim) \/ Open(seen) \/ Issuing =>
             \A o \in past.calls : o.ep = claim.ep => o.pre = claim.pre

Safe == CopyInv /\ RequestInv /\ EndingInv /\ IssuingInv /\ OperationInv /\ OneOperationPerRequest
RebootInv == TypeOK /\ Safe

-----------------------------------------------------------------------------
(* Types. *)

(* The longest duration exists, and ages stay in their range. *)
LEMMA AgesTyped ==
    /\ Old \in Nat /\ 0 \in Ages /\ None \notin Ages /\ Ages \subseteq Nat
    /\ \A a \in Ages : Later(a) \in Ages
    /\ \A a \in Ages \cup {None} : Later(a) \in Ages \cup {None}
<1>1. \E m \in Durations : \A d \in Durations : d <= m
  BY RebootAssumption DEF Durations
<1> DEFINE m == CHOOSE m \in Durations : \A d \in Durations : d <= m
<1>2. m \in Nat
  BY <1>1, RebootAssumption, Zenon
<1> HIDE DEF m
<1>3. Old \in Nat
  BY <1>2 DEF Old, m
<1> QED BY <1>3 DEF Ages, Later, None

(* The fields of a claim, and the writes of it. *)
LEMMA ClaimTyped ==
    ASSUME NEW c \in Claims
    PROVE  /\ c.phase \in {"none", "Requested", "Issued", "Succeeded", "Failed"} /\ c.ep \in Nat
           /\ c.age \in Ages /\ c.init \in {"True", "NotReady", "Rebooting"} /\ c.initAge \in Ages
           /\ c.pre \in Nat /\ c.issued \in Ages \cup {None} /\ c.tgp \in Bounds
  BY Zenon DEF Claims

LEMMA NothingTyped ==
    /\ NoClaim \in Claims /\ NoNode \in Nodes
    /\ IdleRec \in Reconciles
    /\ IdleLife \in [pc : {"idle", "label", "patch"}, c : Claims]
    /\ IdlePass \in [pc : {"idle", "bound", "commit"}, tgp : Bounds]
<1>1. NoClaim \in Claims
  BY AgesTyped DEF NoClaim, Claims, NoBoot, Bounds
<1>2. NoNode \in Nodes
  BY AgesTyped DEF NoNode, Nodes, NoBoot
<1> QED BY <1>1, <1>2, Zenon DEF IdleRec, IdleLife, IdlePass, Reconciles, Bounds

(* A write of annotations leaves the request alone. *)
LEMMA AnnotationsTyped ==
    ASSUME NEW c \in Claims, NEW b \in Nat, NEW t \in Bounds, NEW a \in Ages \cup {None}
    PROVE  /\ [c EXCEPT !.pre = b] \in Claims
           /\ [c EXCEPT !.issued = a] \in Claims
           /\ [c EXCEPT !.pre = b, !.issued = a] \in Claims
           /\ [c EXCEPT !.tgp = t] \in Claims
           /\ [c EXCEPT !.tight = TRUE] \in Claims
           /\ [c EXCEPT !.deleting = TRUE] \in Claims
  BY Zenon DEF Claims

LEMMA ConditionsTyped ==
    ASSUME NEW c \in Claims, NEW d \in Claims
    PROVE  /\ WithConditions(c, d) \in Claims
           /\ IssuedConditions(c) \in Claims
           /\ \A r \in {"Succeeded", "Failed"} : [c EXCEPT !.phase = r, !.age = 0] \in Claims
           /\ \A e \in Nat : [c EXCEPT !.phase = "Requested", !.ep = e, !.age = 0] \in Claims
           /\ [c EXCEPT !.init = "True", !.initAge = 0] \in Claims
           /\ [c EXCEPT !.init = "NotReady"] \in Claims
           /\ Aged(c) \in Claims
<1>1. WithConditions(c, d) \in Claims
  BY ClaimTyped, Zenon DEF Claims, WithConditions
<1>2. IssuedConditions(c) \in Claims
  BY ClaimTyped, AgesTyped, Zenon DEF Claims, IssuedConditions
<1>3. Aged(c) \in Claims
  BY ClaimTyped, AgesTyped, Zenon DEF Claims, Aged
<1>4. \A r \in {"Succeeded", "Failed"} : [c EXCEPT !.phase = r, !.age = 0] \in Claims
  BY AgesTyped, Zenon DEF Claims
<1>5. \A e \in Nat : [c EXCEPT !.phase = "Requested", !.ep = e, !.age = 0] \in Claims
  BY AgesTyped, Zenon DEF Claims
<1>6. [c EXCEPT !.init = "True", !.initAge = 0] \in Claims /\ [c EXCEPT !.init = "NotReady"] \in Claims
  BY AgesTyped, Zenon DEF Claims
<1> QED BY <1>1, <1>2, <1>3, <1>4, <1>5, <1>6, Zenon

(* The writes of a Node, and what they leave of its boot ID. *)
LEMMA NodeWrites ==
    ASSUME NEW n \in Nodes, NEW b \in BOOLEAN
    PROVE  /\ n.boot \in Nat \ {NoBoot}
           /\ [n EXCEPT !.taint = TRUE, !.fenceAge = 0] \in Nodes /\ [n EXCEPT !.taint = FALSE] \in Nodes
           /\ [n EXCEPT !.label = b] \in Nodes
           /\ [n EXCEPT !.ready = TRUE] \in Nodes /\ [n EXCEPT !.boot = @ + 1, !.ready = b] \in Nodes
           /\ [n EXCEPT !.exists = FALSE, !.taint = FALSE, !.label = FALSE] \in Nodes
           /\ [n EXCEPT !.exists = TRUE, !.ready = TRUE] \in Nodes
           /\ AgedNode(n) \in Nodes /\ AgedNode(n).boot = n.boot
<1>1. n.boot \in Nat \ {NoBoot} /\ n.fenceAge \in Ages
  BY DEF Nodes
<1>2. n.boot + 1 \in Nat \ {NoBoot}
  BY <1>1 DEF NoBoot
<1>3. Later(n.fenceAge) \in Ages /\ 0 \in Ages
  BY <1>1, AgesTyped, Zenon
<1>4. AgedNode(n) \in Nodes /\ AgedNode(n).boot = n.boot
  BY <1>1, <1>3, Zenon DEF Nodes, AgedNode
<1>5. [n EXCEPT !.boot = @ + 1, !.ready = b] \in Nodes
  BY <1>2, Zenon DEF Nodes
<1>6. [n EXCEPT !.taint = TRUE, !.fenceAge = 0] \in Nodes
  BY <1>3, Zenon DEF Nodes
<1> QED BY <1>1, <1>4, <1>5, <1>6, Zenon DEF Nodes

(* Where a reconcile goes on with its copy of the claim. *)
GoesTo(pcs) == /\ rec' \in Reconciles
               /\ rec' = IdleRec \/ (rec'.c = rec.c /\ rec'.result = rec.result /\ rec'.pc \in pcs)

LEMMA GotoTyped ==
    ASSUME TypeOK, NEW pc \in {"drain", "record", "call", "issuedAt", "issued", "forget", "lift", "clear",
                               "terminal", "failTaint", "tighten", "delete"},
           NEW c \in Claims, NEW n \in Nodes, Goto(pc, c, n)
    PROVE  rec' \in Reconciles /\ rec'.pc = pc /\ rec'.c = c /\ rec'.n = n /\ rec'.result = rec.result
<1>1. rec \in Reconciles
  BY Zenon DEF TypeOK
<1>2. rec' = [rec EXCEPT !.pc = pc, !.c = c, !.n = n]
  BY DEF Goto
<1> QED BY <1>1, <1>2, Zenon DEF Reconciles

LEMMA RecTyped ==
    ASSUME TypeOK
    PROVE  /\ rec.c \in Claims /\ rec.n \in Nodes /\ rec.result \in {"Succeeded", "Failed"}
           /\ life.c \in Claims /\ repair.tgp \in Bounds
           /\ claim \in Claims /\ seen \in Claims /\ node \in Nodes /\ nseen \in Nodes
           /\ env.tgp \in Bounds
  BY Zenon DEF TypeOK, Reconciles, Environments, Bounds

(* The issuance clock is started, kept or cleared. *)
LEMMA ClockTyped ==
    ASSUME TypeOK, ensureIssuanceStarted \/ clearIssuanceStarted \/ UNCHANGED started
    PROVE  started' \in Ages \cup {None}
<1>1. started \in Ages \cup {None} /\ 0 \in Ages
  BY AgesTyped, Zenon DEF TypeOK
<1> QED BY <1>1, Zenon DEF ensureIssuanceStarted, clearIssuanceStarted

(* The steps that patch the Node leave its boot ID alone. *)
LEMMA TaintMoves ==
    ASSUME TypeOK, ensureRebootTaint
    PROVE  /\ node' \in Nodes /\ node'.boot = node.boot /\ started' \in Ages \cup {None}
           /\ \/ GoesTo({"drain"}) /\ rec.c.pre = NoBoot
              \/ GoesTo({"call", "issuedAt"}) /\ rec.c.pre # NoBoot
<1> DEFINE w == [node EXCEPT !.taint = TRUE, !.fenceAge = 0]
<1>1. w \in Nodes /\ w.boot = node.boot
  BY RecTyped, NodeWrites, Zenon DEF Nodes
<1>2. ASSUME NEW n \in Nodes, ToProvider(n)
      PROVE  /\ started' \in Ages \cup {None}
             /\ \/ GoesTo({"drain"}) /\ rec.c.pre = NoBoot
                \/ GoesTo({"call", "issuedAt"}) /\ rec.c.pre # NoBoot
  <2>1. CASE rec.c.pre = NoBoot
    <3>1. Goto("drain", rec.c, n) /\ UNCHANGED started
      BY <1>2, <2>1, Zenon DEF ToProvider
    <3> QED BY <2>1, <3>1, GotoTyped, RecTyped, ClockTyped, Zenon DEF GoesTo
  <2>2. CASE rec.c.pre # NoBoot
    <3>1. \/ Goto("issuedAt", rec.c, n) /\ UNCHANGED started
          \/ Goto("call", rec.c, n) /\ ensureIssuanceStarted
      BY <1>2, <2>2, Zenon DEF ToProvider
    <3> QED BY <2>2, <3>1, GotoTyped, RecTyped, ClockTyped, Zenon DEF GoesTo
  <2> QED BY <2>1, <2>2
<1>3. CASE Done /\ UNCHANGED <<node, started>>
  BY <1>3, RecTyped, NothingTyped, ClockTyped, Zenon DEF GoesTo, Done
<1>4. \/ ToProvider(rec.n) /\ UNCHANGED node
      \/ node' = w /\ ToProvider(w)
      \/ Done /\ UNCHANGED <<node, started>>
  BY DEF ensureRebootTaint, PatchNode
<1> HIDE DEF w
<1> QED BY <1>1, <1>2, <1>3, <1>4, RecTyped, Zenon

LEMMA LabelMoves ==
    ASSUME TypeOK, removeInitializedLabel
    PROVE  /\ node' \in Nodes /\ node'.boot = node.boot /\ started' \in Ages \cup {None}
           /\ rec.pc # "idle" /\ GoesTo(IF rec.pc = "unlabel" THEN {"lift"} ELSE {})
<1> DEFINE w == [node EXCEPT !.label = FALSE]
<1>1. w \in Nodes /\ w.boot = node.boot
  BY RecTyped, NodeWrites, Zenon DEF Nodes
<1>2. ASSUME NEW n \in Nodes, Observe(n)
      PROVE  started' \in Ages \cup {None} /\ GoesTo(IF rec.pc = "unlabel" THEN {"lift"} ELSE {})
  <2>1. (rec.pc = "unlabel" /\ Goto("lift", rec.c, n)) \/ Done
    BY <1>2, Zenon DEF Observe
  <2>2. started' \in Ages \cup {None}
    BY <1>2, ClockTyped, Zenon DEF Observe
  <2> QED BY <2>1, <2>2, GotoTyped, RecTyped, NothingTyped, Zenon DEF GoesTo, Done
<1>4. \/ Observe(rec.n) /\ UNCHANGED node
      \/ node' = w /\ Observe(w)
      \/ Done /\ UNCHANGED <<node, started>>
  BY DEF removeInitializedLabel, PatchNode
<1>5. rec.pc # "idle" /\ (Done => GoesTo(IF rec.pc = "unlabel" THEN {"lift"} ELSE {}))
  BY NothingTyped, Zenon DEF removeInitializedLabel, GoesTo, Done
<1>6. UNCHANGED <<node, started>> => node' = node /\ started' \in Ages \cup {None}
  BY ClockTyped, Zenon
<1> HIDE DEF w
<1> QED BY <1>1, <1>2, <1>4, <1>5, <1>6, RecTyped, Zenon

LEMMA FenceMoves ==
    ASSUME TypeOK, LiftFence \/ FailureLiftsFence
    PROVE  /\ node' \in Nodes /\ node'.boot = node.boot /\ started' \in Ages \cup {None}
           /\ rec.pc # "idle" /\ GoesTo(IF Ending THEN {"clear"} ELSE {"tighten"})
<1> DEFINE w == [node EXCEPT !.taint = FALSE]
           S == IF Ending THEN {"clear"} ELSE {"tighten"}
<1>1. w \in Nodes /\ w.boot = node.boot
  BY RecTyped, NodeWrites, Zenon DEF Nodes
<1>2. ASSUME NEW n \in Nodes, \/ rec.pc = "lift" /\ FinishIfReady(n)
                              \/ rec.pc = "failTaint" /\ AfterFence(n)
      PROVE  started' \in Ages \cup {None} /\ GoesTo(S)
  <2>1. \/ Ending /\ Goto("clear", rec.c, n)
        \/ ~Ending /\ Goto("tighten", rec.c, n)
        \/ Done
    BY <1>2, Zenon DEF FinishIfReady, AfterFence, Ending
  <2>2. started' \in Ages \cup {None}
    BY <1>2, ClockTyped, Zenon DEF FinishIfReady, AfterFence
  <2> QED BY <2>1, <2>2, GotoTyped, RecTyped, NothingTyped, Zenon DEF GoesTo, Done
<1>3. \/ (rec.pc = "lift" /\ FinishIfReady(rec.n)) /\ UNCHANGED node
      \/ (rec.pc = "failTaint" /\ AfterFence(rec.n)) /\ UNCHANGED node
      \/ node' = w /\ ((rec.pc = "lift" /\ FinishIfReady(w)) \/ (rec.pc = "failTaint" /\ AfterFence(w)))
      \/ Done /\ UNCHANGED <<node, started>>
  <2>1. CASE LiftFence
    BY <2>1 DEF LiftFence, PatchNode
  <2>2. CASE FailureLiftsFence
    BY <2>2 DEF FailureLiftsFence, PatchNode
  <2> QED BY <2>1, <2>2
<1>4. rec.pc # "idle" /\ (Done => GoesTo(S))
  BY NothingTyped, Zenon DEF LiftFence, FailureLiftsFence, GoesTo, Done
<1>5. UNCHANGED <<node, started>> => node' = node /\ started' \in Ages \cup {None}
  BY ClockTyped, Zenon
<1> HIDE DEF w, S
<1>6. GoesTo(S) /\ rec.pc # "idle" /\ node' \in Nodes /\ node'.boot = node.boot /\ started' \in Ages \cup {None}
  BY <1>1, <1>2, <1>3, <1>4, <1>5, RecTyped, Zenon
<1> QED BY <1>6 DEF S

-----------------------------------------------------------------------------
(* Steps that do not write the claim. *)

SamePast == /\ past'.calls = past.calls /\ past'.commits = past.commits
            /\ past'.lost = past.lost /\ past'.lagged = past.lagged
SameWorld == /\ claim' = claim /\ seen' = seen /\ stale' = stale
             /\ repair' = repair /\ history' = history /\ env'.commits = env.commits
             /\ life'.c = life.c /\ node'.boot = node.boot /\ SamePast

(* A reconcile that goes on with its copy, or returns. *)
LEMMA SafeMoves ==
    ASSUME Safe, SameWorld,
           rec'.c.ep \in 0..past.commits,
           rec'.pc # "idle" => rec.pc # "idle" /\ rec'.c = rec.c,
           Issuing' => Issuing, Ending' => Ending, IssuingInv'
    PROVE  Safe'
<1>1. CopyInv'
  BY Zenon DEF Safe, CopyInv, SameWorld
<1>2. RequestInv'
  BY Zenon DEF Safe, RequestInv, SameWorld, SamePast
<1>3. EndingInv'
  <2>1. Ending' => rec'.pc # "idle"
    BY Zenon DEF Ending
  <2> QED BY <2>1, Zenon DEF Safe, EndingInv, SameWorld
<1>4. OperationInv'
  <2>1. Issuing' => rec'.pc # "idle"
    BY Zenon DEF Issuing
  <2> QED BY <2>1, Zenon DEF Safe, OperationInv, SameWorld, SamePast, Current
<1>5. OneOperationPerRequest'
  BY Zenon DEF Safe, OneOperationPerRequest, SameWorld, SamePast
<1> QED BY <1>1, <1>2, <1>3, <1>4, <1>5, Zenon DEF Safe

LEMMA SafeBeside ==
    ASSUME Safe, SameWorld, rec' = rec
    PROVE  Safe'
<1>1. rec'.c.ep \in 0..past.commits
  BY Zenon DEF Safe, RequestInv
<1>2. (Issuing' => Issuing) /\ (Ending' => Ending) /\ IssuingInv'
  BY Zenon DEF Safe, IssuingInv, Issuing, Ending
<1> QED BY <1>1, <1>2, SafeMoves, Zenon

LEMMA SafeStops ==
    ASSUME TypeOK, Safe, SameWorld, rec' = IdleRec
    PROVE  Safe'
<1>1. rec'.c.ep = 0 /\ rec'.pc = "idle"
  BY Zenon DEF IdleRec, NoClaim
<1>2. 0 \in 0..past.commits
  BY DEF TypeOK
<1>3. ~Issuing' /\ ~Ending' /\ IssuingInv'
  BY <1>1, Zenon DEF Issuing, Ending, IssuingInv
<1> QED BY <1>1, <1>2, <1>3, SafeMoves, Zenon

(* A reconcile goes on to one of the steps pcs. *)
LEMMA SafeGoes ==
    ASSUME TypeOK, Safe, SameWorld, rec.pc # "idle", NEW pcs, GoesTo(pcs),
           rec' # IdleRec => (Issuing' => Issuing) /\ (Ending' => Ending) /\ IssuingInv'
    PROVE  Safe'
<1>1. CASE rec' = IdleRec
  BY <1>1, SafeStops
<1>2. CASE rec' # IdleRec
  <2>1. rec'.c = rec.c
    BY <1>2, Zenon DEF GoesTo
  <2>2. rec'.c.ep \in 0..past.commits
    BY <2>1, Zenon DEF Safe, RequestInv
  <2> QED BY <1>2, <2>1, <2>2, SafeMoves, Zenon
<1> QED BY <1>1, <1>2

(* ensureRebootTaint *)
LEMMA TaintSafe ==
    ASSUME TypeOK, Safe, ensureRebootTaint
    PROVE  TypeOK' /\ Safe'
<1>1. /\ node' \in Nodes /\ node'.boot = node.boot /\ started' \in Ages \cup {None}
      /\ \/ GoesTo({"drain"}) /\ rec.c.pre = NoBoot
         \/ GoesTo({"call", "issuedAt"}) /\ rec.c.pre # NoBoot
  BY TaintMoves
<1>2. rec.pc = "taint" /\ UNCHANGED <<claim, seen, stale, nseen, pods, machine, life, repair, history, past, env>>
  BY DEF ensureRebootTaint
<1>3. SameWorld
  BY <1>1, <1>2, Zenon DEF SameWorld, SamePast
<1>4. Issuing /\ rec.result = "Succeeded"
  BY <1>2, Zenon DEF Safe, IssuingInv, Issuing
<1>5. ASSUME rec' # IdleRec
      PROVE  (Issuing' => Issuing) /\ (Ending' => Ending) /\ IssuingInv'
  <2>1. rec'.c = rec.c /\ rec'.result = "Succeeded"
    BY <1>1, <1>4, <1>5, Zenon DEF GoesTo
  <2>2. \/ rec'.pc = "drain" /\ rec.c.pre = NoBoot
        \/ rec'.pc \in {"call", "issuedAt"} /\ rec.c.pre # NoBoot
    BY <1>1, <1>5, Zenon DEF GoesTo
  <2>3. ~Ending'
    BY <2>2, Zenon DEF Ending
  <2> QED BY <1>4, <2>1, <2>2, <2>3, Zenon DEF IssuingInv
<1>6. Safe'
  BY <1>1, <1>2, <1>3, <1>5, SafeGoes, Zenon
<1>7. rec' \in Reconciles
  BY <1>1, Zenon DEF GoesTo
<1> QED BY <1>1, <1>2, <1>6, <1>7, Zenon DEF TypeOK

(* drain *)
LEMMA DrainSafe ==
    ASSUME TypeOK, Safe, drain
    PROVE  TypeOK' /\ Safe'
<1>1. rec.pc = "drain" /\ UNCHANGED <<claim, seen, stale, node, nseen, pods, machine, life, repair, history, past, env>>
  BY DEF drain
<1>2. SameWorld
  BY <1>1, Zenon DEF SameWorld, SamePast
<1>3. started' \in Ages \cup {None}
  BY ClockTyped, Zenon DEF drain
<1>4. GoesTo({"record"})
  <2>1. Goto("record", rec.c, rec.n) \/ Done
    BY Zenon DEF drain
  <2> QED BY <2>1, GotoTyped, RecTyped, NothingTyped, Zenon DEF GoesTo, Done
<1>5. Issuing /\ rec.result = "Succeeded" /\ rec.c.pre = NoBoot
  BY <1>1, Zenon DEF Safe, IssuingInv, Issuing
<1>6. ASSUME rec' # IdleRec
      PROVE  (Issuing' => Issuing) /\ (Ending' => Ending) /\ IssuingInv'
  <2>1. rec'.c = rec.c /\ rec'.result = "Succeeded" /\ rec'.pc = "record"
    BY <1>4, <1>5, <1>6, Zenon DEF GoesTo
  <2>2. ~Ending'
    BY <2>1, Zenon DEF Ending
  <2> QED BY <1>5, <2>1, <2>2, Zenon DEF IssuingInv
<1>7. Safe'
  BY <1>1, <1>2, <1>4, <1>6, SafeGoes, Zenon
<1>8. rec' \in Reconciles
  BY <1>4, Zenon DEF GoesTo
<1> QED BY <1>1, <1>3, <1>7, <1>8, Zenon DEF TypeOK

(* The last steps of a reconcile: neither a call nor, unless on the way to   *)
(* one already, a setTerminal follows.                                       *)
LEMMA Quiet ==
    ASSUME rec'.pc \in {"lift", "clear", "terminal", "failTaint", "tighten", "delete", "forget", "unlabel"}
    PROVE  ~Issuing' /\ IssuingInv'
  BY Zenon DEF Issuing, IssuingInv

LEMMA LabelSafe ==
    ASSUME TypeOK, Safe, removeInitializedLabel
    PROVE  TypeOK' /\ Safe'
<1> DEFINE S == IF rec.pc = "unlabel" THEN {"lift"} ELSE {}
<1>1. /\ node' \in Nodes /\ node'.boot = node.boot /\ started' \in Ages \cup {None}
      /\ rec.pc # "idle" /\ GoesTo(S)
  BY LabelMoves
<1>2. UNCHANGED <<claim, seen, stale, nseen, pods, machine, life, repair, history, past, env>>
  BY DEF removeInitializedLabel
<1>3. SameWorld
  BY <1>1, <1>2, Zenon DEF SameWorld, SamePast
<1>4. ASSUME rec' # IdleRec
      PROVE  (Issuing' => Issuing) /\ (Ending' => Ending) /\ IssuingInv'
  <2>1. rec.pc = "unlabel" /\ rec'.pc = "lift"
    BY <1>1, <1>4, Zenon DEF GoesTo
  <2> QED BY <2>1, Quiet, Zenon DEF Ending
<1> HIDE DEF S
<1>5. Safe'
  BY <1>1, <1>3, <1>4, SafeGoes, Zenon
<1>6. rec' \in Reconciles
  BY <1>1, Zenon DEF GoesTo
<1> QED BY <1>1, <1>2, <1>5, <1>6, Zenon DEF TypeOK

LEMMA FenceSafe ==
    ASSUME TypeOK, Safe, LiftFence \/ FailureLiftsFence
    PROVE  TypeOK' /\ Safe'
<1> DEFINE S == IF Ending THEN {"clear"} ELSE {"tighten"}
<1>1. /\ node' \in Nodes /\ node'.boot = node.boot /\ started' \in Ages \cup {None}
      /\ rec.pc # "idle" /\ GoesTo(S)
  BY FenceMoves
<1>2. UNCHANGED <<claim, seen, stale, nseen, pods, machine, life, repair, history, past, env>>
  BY Zenon DEF LiftFence, FailureLiftsFence
<1>3. SameWorld
  BY <1>1, <1>2, Zenon DEF SameWorld, SamePast
<1>4. ASSUME rec' # IdleRec
      PROVE  (Issuing' => Issuing) /\ (Ending' => Ending) /\ IssuingInv'
  <2>1. (Ending /\ rec'.pc = "clear") \/ rec'.pc = "tighten"
    BY <1>1, <1>4, Zenon DEF GoesTo
  <2>2. rec'.pc = "tighten" => ~Ending'
    BY Zenon DEF Ending
  <2> QED BY <2>1, <2>2, Quiet, Zenon
<1> HIDE DEF S
<1>5. Safe'
  BY <1>1, <1>3, <1>4, SafeGoes, Zenon
<1>6. rec' \in Reconciles
  BY <1>1, Zenon DEF GoesTo
<1> QED BY <1>1, <1>2, <1>5, <1>6, Zenon DEF TypeOK

(* A step that keeps the copy and writes neither the claim nor the Node:     *)
(* clearEpisode, setTerminal and the like with nothing to write or a lock    *)
(* that fails.                                                               *)
LEMMA SkipSafe ==
    ASSUME TypeOK, Safe, rec.pc # "idle",
           UNCHANGED <<claim, seen, stale, node, nseen, pods, machine, life, repair, started, history, past, env>>,
           \/ Done
           \/ rec.pc = "clear" /\ Goto("terminal", rec.c, rec.n)
           \/ rec.pc = "tighten" /\ Goto("delete", rec.c, rec.n)
           \/ rec.pc = "issuedAt" /\ Goto("issued", rec.c, rec.n)
           \/ rec.pc = "issued" /\ Goto("forget", rec.c, rec.n)
    PROVE  TypeOK' /\ Safe'
<1> DEFINE S == CASE rec.pc = "clear" -> {"terminal"} [] rec.pc = "tighten" -> {"delete"}
                  [] rec.pc = "issuedAt" -> {"issued"} [] OTHER -> {"forget"}
<1>1. GoesTo(S)
  <2>1. S = IF rec.pc = "clear" THEN {"terminal"} ELSE IF rec.pc = "tighten" THEN {"delete"}
            ELSE IF rec.pc = "issuedAt" THEN {"issued"} ELSE {"forget"}
    BY Zenon
  <2> HIDE DEF S
  <2> QED BY <2>1, GotoTyped, RecTyped, NothingTyped, Zenon DEF GoesTo, Done
<1>2. SameWorld
  BY Zenon DEF SameWorld, SamePast
<1>3. ASSUME rec' # IdleRec
      PROVE  (Issuing' => Issuing) /\ (Ending' => Ending) /\ IssuingInv'
  <2>1. rec'.c = rec.c /\ rec'.result = rec.result
    BY <1>1, <1>3, Zenon DEF GoesTo
  <2>2. \/ rec.pc = "clear" /\ rec'.pc = "terminal"
        \/ rec'.pc \in {"delete", "forget"}
        \/ rec.pc = "issuedAt" /\ rec'.pc = "issued"
    BY <1>3, GotoTyped, RecTyped, Zenon DEF Done
  <2>3. CASE rec.pc = "clear" /\ rec'.pc = "terminal"
    BY <2>3, Quiet, Zenon DEF Ending
  <2>4. CASE rec'.pc \in {"delete", "forget"}
    BY <2>4, Quiet, Zenon DEF Ending
  <2>5. CASE rec.pc = "issuedAt" /\ rec'.pc = "issued"
    BY <2>1, <2>5, Zenon DEF Safe, Ending, Issuing, IssuingInv
  <2> QED BY <2>2, <2>3, <2>4, <2>5
<1> HIDE DEF S
<1>4. Safe'
  BY <1>1, <1>2, <1>3, SafeGoes, Zenon
<1>5. rec' \in Reconciles
  BY <1>1, Zenon DEF GoesTo
<1> QED BY <1>4, <1>5, Zenon DEF TypeOK

(* ReconcileFails *)
LEMMA FailsSafe ==
    ASSUME TypeOK, Safe, ReconcileFails
    PROVE  TypeOK' /\ Safe'
<1>1. UNCHANGED <<claim, seen, stale, node, nseen, pods, machine, life, repair, started, history, past>>
  BY DEF ReconcileFails
<1>2. rec' = IdleRec /\ env.errors > 0 /\ env' = [env EXCEPT !.errors = @ - 1]
  BY Zenon DEF ReconcileFails, Done
<1>3. env \in Environments
  BY Zenon DEF TypeOK
<1>4. env' \in Environments /\ env'.commits = env.commits
  <2>1. env.errors - 1 \in Nat
    BY <1>2, <1>3 DEF Environments
  <2> QED BY <1>2, <1>3, <2>1, Zenon DEF Environments
<1>5. Safe'
  <2>1. SameWorld
    BY <1>1, <1>4, Zenon DEF SameWorld, SamePast
  <2> QED BY <1>2, <2>1, SafeStops
<1> QED BY <1>1, <1>2, <1>4, <1>5, NothingTyped, Zenon DEF TypeOK

(* What a reconcile starts with: the fence if its copy leads to a call, a    *)
(* step towards setTerminal only if it does not.                             *)
LEMMA FirstSteps ==
    ASSUME NEW c, NEW n, RebootInProgress(c), FirstStep(c, n) # "idle"
    PROVE  /\ FirstStep(c, n) \in {"taint", "unlabel", "failTaint", "tighten"}
           /\ FirstStep(c, n) = "taint" => Open(c) /\ ~Invalid(c, n)
           /\ FirstStep(c, n) = "unlabel" => ~Open(c)
           /\ Invalid(c, n) => ~Open(c)
<1>1. Invalid(c, n) => ~Open(c)
  BY Zenon DEF Invalid, Open
<1>2. CASE ~n.exists
  BY <1>1, <1>2, Zenon DEF FirstStep
<1>3. CASE n.exists /\ pastRebootDeadline(c)
  BY <1>1, <1>3, Zenon DEF FirstStep
<1>4. CASE n.exists /\ ~pastRebootDeadline(c) /\ c.phase = "Issued"
  BY <1>1, <1>4, Zenon DEF FirstStep, Open
<1>5. CASE n.exists /\ ~pastRebootDeadline(c) /\ c.phase # "Issued"
  <2>1. c.phase = "Requested"
    BY <1>5, Zenon DEF RebootInProgress
  <2>2. Open(c) <=> ~Invalid(c, n)
    BY <1>5, <2>1, Zenon DEF Open, Invalid
  <2>3. FirstStep(c, n) = IF Invalid(c, n) THEN "failTaint" ELSE "taint"
    BY <1>5, Zenon DEF FirstStep
  <2> QED BY <2>2, <2>3, Zenon
<1> QED BY <1>2, <1>3, <1>4, <1>5

(* ReconcileReads *)
LEMMA ReadsSafe ==
    ASSUME TypeOK, Safe, ReconcileReads
    PROVE  TypeOK' /\ Safe'
<1> DEFINE pc == FirstStep(seen, nseen)
           r == IF Invalid(seen, nseen) THEN "Failed" ELSE "Succeeded"
<1>1. UNCHANGED <<claim, seen, node, nseen, pods, machine, life, repair, started, history, past, env>>
  BY DEF ReconcileReads
<1>2. /\ pc \in {"taint", "unlabel", "failTaint", "tighten"}
      /\ pc = "taint" => Open(seen) /\ r = "Succeeded"
      /\ pc = "unlabel" \/ r = "Failed" => ~Open(seen)
      /\ r \in {"Succeeded", "Failed"}
  BY FirstSteps, Zenon DEF ReconcileReads
<1>3. rec' = [pc |-> pc, c |-> seen, n |-> nseen, result |-> r] /\ rec.pc = "idle"
  BY DEF ReconcileReads
<1>4. stale' = IF "cache" \in stale THEN stale \cup {"reboot"} ELSE stale \ {"reboot"}
  BY Zenon DEF ReconcileReads, Read
<1> HIDE DEF pc, r
<1>5. rec'.pc = pc /\ rec'.c = seen /\ rec'.result = r
  BY <1>3, Zenon
<1>6. TypeOK'
  <2>1. rec' \in Reconciles
    BY <1>2, <1>3, RecTyped, Zenon DEF Reconciles
  <2>2. stale' \subseteq Holders
    BY <1>4, Zenon DEF TypeOK, Holders
  <2> QED BY <1>1, <2>1, <2>2, Zenon DEF TypeOK
<1>7. /\ "cache" \in stale' <=> "cache" \in stale
      /\ "repair" \in stale' <=> "repair" \in stale
      /\ "reboot" \in stale' <=> "cache" \in stale
  BY <1>4, Zenon
<1>8. CopyInv'
  BY <1>1, <1>5, <1>7, Zenon DEF Safe, CopyInv
<1>9. RequestInv'
  BY <1>1, <1>5, Zenon DEF Safe, RequestInv
<1>10. EndingInv'
  BY <1>1, <1>2, <1>5, Zenon DEF Ending, EndingInv
<1>11. IssuingInv' /\ (Issuing' => Open(seen))
  BY <1>2, <1>5, Zenon DEF Issuing, IssuingInv
<1>12. OperationInv'
  BY <1>1, <1>5, <1>11, Zenon DEF Safe, OperationInv, Current
<1>13. OneOperationPerRequest'
  BY <1>1, Zenon DEF Safe, OneOperationPerRequest
<1> QED BY <1>6, <1>8, <1>9, <1>10, <1>11, <1>12, <1>13, Zenon DEF Safe

(* The provider call.  Its operation is the one the claim records, and so    *)
(* are those of the earlier calls of the request.                            *)
LEMMA CallSafe ==
    ASSUME TypeOK, Safe, issueReboot
    PROVE  TypeOK' /\ Safe'
<1> DEFINE o == Operation(rec.c)
<1>1. /\ rec.pc = "call" /\ past' = [past EXCEPT !.calls = @ \cup {o}]
      /\ UNCHANGED <<claim, seen, stale, node, nseen, pods, life, repair, started, history, env>>
  BY DEF issueReboot
<1>2. Issuing /\ rec.result = "Succeeded" /\ rec.c.pre # NoBoot
  BY <1>1, Zenon DEF Safe, IssuingInv, Issuing
<1>3. o \in Operations /\ o.ep = rec.c.ep /\ o.pre = rec.c.pre
  BY RecTyped, ClaimTyped, Zenon DEF Operation, Operations
<1>4. GoesTo({"issuedAt", "failTaint"})
  <2>1. Goto("issuedAt", rec.c, rec.n) \/ Goto("failTaint", rec.c, rec.n) \/ Done
    BY Zenon DEF issueReboot
  <2> QED BY <2>1, GotoTyped, RecTyped, NothingTyped, Zenon DEF GoesTo, Done
<1>5. machine' \in [accepted : SUBSET Operations, due : BOOLEAN, refuses : BOOLEAN]
  <2>1. machine \in [accepted : SUBSET Operations, due : BOOLEAN, refuses : BOOLEAN]
    BY Zenon DEF TypeOK
  <2>2. machine.accepted \cup {o} \in SUBSET Operations /\ (machine.due \/ o \notin machine.accepted) \in BOOLEAN
    BY <1>3, <2>1, Zenon
  <2>3. \/ machine' = [machine EXCEPT !.accepted = @ \cup {o}, !.due = @ \/ o \notin machine.accepted]
        \/ machine' = machine
        \/ machine' = [machine EXCEPT !.refuses = TRUE]
    BY Zenon DEF issueReboot, Accepted
  <2> HIDE DEF o
  <2> QED BY <2>1, <2>2, <2>3, Zenon
<1> HIDE DEF o
<1>6. /\ past' \in [calls : SUBSET Operations, commits : Nat, boot : Nat, lost : BOOLEAN, lagged : BOOLEAN,
                    rejoined : BOOLEAN]
      /\ past'.calls = past.calls \cup {o} /\ past'.commits = past.commits
      /\ past'.lost = past.lost /\ past'.lagged = past.lagged
  <2>1. past \in [calls : SUBSET Operations, commits : Nat, boot : Nat, lost : BOOLEAN, lagged : BOOLEAN,
                  rejoined : BOOLEAN]
    BY Zenon DEF TypeOK
  <2>2. past.calls \cup {o} \in SUBSET Operations
    BY <1>3, <2>1, Zenon
  <2> QED BY <1>1, <2>1, <2>2, Zenon
<1>7. TypeOK'
  <2>1. rec' \in Reconciles
    BY <1>4, Zenon DEF GoesTo
  <2> QED BY <1>1, <1>5, <1>6, <2>1, Zenon DEF TypeOK
<1>8. /\ rec'.pc \in {"idle", "issuedAt", "failTaint"} /\ rec'.result = "Succeeded"
      /\ rec'.pc # "idle" => rec'.c = rec.c
      /\ rec'.c.ep \in 0..past.commits
  <2>1. CASE rec' = IdleRec
    <3>1. 0 \in 0..past.commits
      BY DEF TypeOK
    <3> QED BY <2>1, <3>1, Zenon DEF IdleRec, NoClaim
  <2>2. CASE rec' # IdleRec
    BY <1>2, <1>4, <2>2, Zenon DEF GoesTo, Safe, RequestInv
  <2> QED BY <2>1, <2>2
<1>9. CopyInv'
  BY <1>1, <1>8, Zenon DEF Safe, CopyInv
<1>10. RequestInv'
  BY <1>1, <1>2, <1>3, <1>6, <1>8, Zenon DEF Safe, RequestInv
<1>11. ~Ending'
  BY <1>8, Zenon DEF Ending
<1>12. IssuingInv' /\ (Issuing' => rec'.c = rec.c)
  BY <1>2, <1>8, Zenon DEF Issuing, IssuingInv
<1>13. past.lost \/ past.lagged \/ (o.ep = claim.ep /\ o.pre = claim.pre
                                    /\ \A p \in past.calls : p.ep = claim.ep => p.pre = claim.pre)
  BY <1>2, <1>3, Zenon DEF Safe, OperationInv, Current
<1>14. OperationInv'
  <2>1. past.lost \/ past.lagged \/ \A p \in past'.calls : p.ep = claim.ep => p.pre = claim.pre
    BY <1>6, <1>13, Zenon
  <2> QED BY <1>1, <1>2, <1>6, <1>12, <2>1, Zenon DEF Safe, OperationInv, Current
<1>15. OneOperationPerRequest'
  <2>1. \A p, q \in Operations : p.ep = q.ep /\ p.pre = q.pre => p = q
    BY DEF Operations
  <2>2. past.calls \subseteq Operations
    BY Zenon DEF TypeOK
  <2>3. past.lost \/ past.lagged \/ \A p \in past.calls : p.ep = o.ep => p = o
    BY <1>3, <1>13, <2>1, <2>2, Zenon
  <2> QED BY <1>6, <2>3, Zenon DEF Safe, OneOperationPerRequest
<1> QED BY <1>7, <1>9, <1>10, <1>11, <1>12, <1>14, <1>15, Zenon DEF Safe, EndingInv

-----------------------------------------------------------------------------
(* Writes of the claim. *)

(* Every holder of a copy but the writer is stale. *)
LEMMA WrittenStale ==
    ASSUME NEW by \in {"reboot", "repair", "queue", "lifecycle", "user"}, NEW c, Written(by, c)
    PROVE  /\ claim' = c /\ stale' \subseteq Holders /\ "cache" \in stale'
           /\ "reboot" \in stale' <=> rec.pc # "idle" /\ by # "reboot"
           /\ "repair" \in stale' <=> repair.pc # "idle" /\ by # "repair"
<1>1. claim' = c /\ stale' = Copies \ {by}
  BY DEF Written
<1>2. /\ Copies \subseteq Holders /\ "cache" \in Copies
      /\ "reboot" \in Copies <=> rec.pc # "idle"
      /\ "repair" \in Copies <=> repair.pc # "idle"
  BY Zenon DEF Copies, Holders
<1> QED BY <1>1, <1>2, Zenon

SameRequest(c, d) == c.phase = d.phase /\ c.ep = d.ep /\ c.pre = d.pre /\ c.tgp = d.tgp

(* A write that leaves the request alone. *)
LEMMA SameOperation ==
    ASSUME OperationInv, SameRequest(claim', claim), seen' = seen, node'.boot = node.boot, SamePast,
           Issuing' => Issuing /\ rec'.c \in {rec.c, claim'}
    PROVE  OperationInv'
<1>1. CASE past.lost \/ past.lagged
  BY <1>1, Zenon DEF OperationInv, SamePast
<1>2. CASE ~past.lost /\ ~past.lagged
  <2>1. Open(seen') => Current(seen)'
    BY <1>2, Zenon DEF OperationInv, Current, SameRequest, RebootInProgress
  <2>2. Issuing' => Current(rec.c)'
    BY <1>2, Zenon DEF OperationInv, Current, SameRequest, RebootInProgress
  <2>3. Open(claim') => Open(claim)
    BY Zenon DEF Open, SameRequest
  <2>4. Open(claim') \/ Open(seen') \/ Issuing' =>
            \A p \in past'.calls : p.ep = claim'.ep => p.pre = claim'.pre
    BY <1>2, <2>3, Zenon DEF OperationInv, SameRequest, SamePast
  <2> QED BY <2>1, <2>2, <2>4, Zenon DEF OperationInv
<1> QED BY <1>1, <1>2

LEMMA Idle == IdleRec.pc = "idle" /\ IdleRec.c.ep = 0
  BY Zenon DEF IdleRec, NoClaim

(* A write by nodeclaim.reboot: the answer is its copy. *)
LEMMA RebootWrites ==
    ASSUME TypeOK, Safe, NEW w \in Claims, Written("reboot", w), w.ep \in 0..past.commits, rec.pc # "idle",
           UNCHANGED <<seen, life, repair, history, env>>,
           past'.calls = past.calls, past'.commits = past.commits, past'.lost = past.lost,
           past.lagged => past'.lagged,
           rec' = IdleRec \/ rec'.c = w
    PROVE  /\ claim' = w /\ stale' \subseteq Holders
           /\ CopyInv' /\ RequestInv' /\ OneOperationPerRequest'
<1>1. /\ claim' = w /\ stale' \subseteq Holders /\ "cache" \in stale'
      /\ "repair" \in stale' <=> repair.pc # "idle"
  BY WrittenStale, Zenon
<1>2. CopyInv'
  <2>1. rec'.pc # "idle" => rec'.c = w
    BY Idle, Zenon
  <2> QED BY <1>1, <2>1, Zenon DEF Safe, CopyInv
<1>3. rec'.c.ep \in 0..past.commits
  <2>1. 0 \in 0..past.commits
    BY DEF TypeOK
  <2> QED BY <2>1, Idle, Zenon
<1>4. RequestInv'
  BY <1>1, <1>3, Zenon DEF Safe, RequestInv
<1>5. OneOperationPerRequest'
  BY Zenon DEF Safe, OneOperationPerRequest
<1> QED BY <1>1, <1>2, <1>4, <1>5

(* recordIssuingState: unless the copy of the Node is older than its last    *)
(* boot, what it writes is there already or was not there at all.            *)
LEMMA RecordSafe ==
    ASSUME TypeOK, Safe, recordIssuingState
    PROVE  TypeOK' /\ Safe'
<1> DEFINE w == [claim EXCEPT !.pre = rec.n.boot]
<1>1. /\ rec.pc = "record" /\ Written("reboot", w) /\ Goto("call", claim', rec.n)
      /\ past' = [past EXCEPT !.lagged = @ \/ rec.n.boot # node.boot]
      /\ UNCHANGED <<seen, node, nseen, pods, machine, life, repair, started, history, env>>
  BY Zenon DEF recordIssuingState
<1>2. rec.n.boot \in Nat \ {NoBoot}
  BY RecTyped, NodeWrites, Zenon
<1>3. /\ w \in Claims /\ w.pre = rec.n.boot
      /\ w.phase = claim.phase /\ w.ep = claim.ep /\ w.tgp = claim.tgp
  <2>1. claim \in Claims
    BY Zenon DEF TypeOK
  <2> QED BY <1>2, <2>1, AnnotationsTyped, Zenon DEF Claims
<1> HIDE DEF w
<1>4. claim' = w
  BY <1>1, Zenon DEF Written
<1>5. rec' \in Reconciles /\ rec'.pc = "call" /\ rec'.c = w /\ rec'.result = rec.result
  BY <1>1, <1>3, <1>4, GotoTyped, RecTyped, Zenon
<1>6. /\ past' \in [calls : SUBSET Operations, commits : Nat, boot : Nat, lost : BOOLEAN, lagged : BOOLEAN,
                    rejoined : BOOLEAN]
      /\ past'.calls = past.calls /\ past'.commits = past.commits /\ past'.lost = past.lost
      /\ past'.lagged <=> past.lagged \/ rec.n.boot # node.boot
  <2>1. past \in [calls : SUBSET Operations, commits : Nat, boot : Nat, lost : BOOLEAN, lagged : BOOLEAN,
                  rejoined : BOOLEAN]
    BY Zenon DEF TypeOK
  <2>2. (past.lagged \/ rec.n.boot # node.boot) \in BOOLEAN
    BY Zenon
  <2> QED BY <1>1, <2>1, <2>2, Zenon
<1>7. claim.ep \in 0..past.commits
  BY Zenon DEF Safe, RequestInv
<1>8. stale' \subseteq Holders /\ CopyInv' /\ RequestInv' /\ OneOperationPerRequest'
  BY <1>1, <1>3, <1>5, <1>6, <1>7, RebootWrites, Zenon
<1>9. TypeOK'
  BY <1>1, <1>3, <1>4, <1>5, <1>6, <1>8, Zenon DEF TypeOK
<1>10. Issuing /\ rec.result = "Succeeded" /\ rec.c.pre = NoBoot
  BY <1>1, Zenon DEF Safe, IssuingInv, Issuing
<1>11. IssuingInv' /\ ~Ending'
  BY <1>2, <1>3, <1>5, <1>10, Zenon DEF IssuingInv, Ending
<1>12. OperationInv'
  <2>1. CASE past'.lost \/ past'.lagged
    BY <2>1, Zenon DEF OperationInv
  <2>2. CASE ~past'.lost /\ ~past'.lagged
    <3>1. ~past.lost /\ ~past.lagged /\ w.pre = node.boot
      BY <1>3, <1>6, <2>2, Zenon
    <3>2. RebootInProgress(claim) /\ claim.ep = rec.c.ep /\ claim.pre \in {NoBoot, node.boot}
      BY <1>10, <3>1, Zenon DEF Safe, OperationInv, Current
    <3>3. Open(seen) => seen.ep = claim.ep /\ seen.pre \in {NoBoot, node.boot}
      BY <3>1, <3>2, Zenon DEF Safe, OperationInv, Current
    <3>4. RebootInProgress(w)
      BY <1>3, <3>2, Zenon DEF RebootInProgress
    <3>5. (Open(seen) => Current(seen))' /\ Current(rec.c)'
      BY <1>1, <1>3, <1>4, <1>5, <3>1, <3>3, <3>4, Zenon DEF Current
    <3>6. \A p \in past.calls : p.ep = claim.ep => p.pre = claim.pre /\ p.pre # NoBoot
      BY <1>10, <3>1, Zenon DEF Safe, OperationInv, RequestInv
    <3>7. \A p \in past'.calls : p.ep = claim'.ep => p.pre = claim'.pre
      BY <1>3, <1>4, <1>6, <3>1, <3>2, <3>6, Zenon
    <3> QED BY <3>5, <3>7, Zenon DEF OperationInv
  <2> QED BY <2>1, <2>2
<1> QED BY <1>8, <1>9, <1>11, <1>12, Zenon DEF Safe, EndingInv

(* RecordIssuedAt *)
LEMMA IssuedAtSafe ==
    ASSUME TypeOK, Safe, RecordIssuedAt
    PROVE  TypeOK' /\ Safe'
<1> DEFINE w == [claim EXCEPT !.issued = 0]
<1>1. rec.pc = "issuedAt" /\ UNCHANGED <<seen, node, nseen, pods, machine, life, repair, started, history, past, env>>
  BY Zenon DEF RecordIssuedAt
<1>2. CASE Goto("issued", rec.c, rec.n) /\ UNCHANGED <<claim, stale>>
  BY <1>1, <1>2, SkipSafe, Zenon
<1>3. CASE Written("reboot", w) /\ Goto("issued", claim', rec.n)
  <2>1. w \in Claims /\ SameRequest(w, claim)
    <3>1. claim \in Claims
      BY Zenon DEF TypeOK
    <3> QED BY <3>1, AgesTyped, Zenon DEF Claims, SameRequest
  <2> HIDE DEF w
  <2>2. claim' = w /\ SameRequest(claim', claim)
    BY <1>3, <2>1, Zenon DEF Written
  <2>3. rec' \in Reconciles /\ rec'.pc = "issued" /\ rec'.c = w /\ rec'.result = rec.result
    BY <1>3, <2>1, <2>2, GotoTyped, RecTyped, Zenon
  <2>4. w.ep \in 0..past.commits
    BY <2>1, Zenon DEF SameRequest, Safe, RequestInv
  <2>5. stale' \subseteq Holders /\ CopyInv' /\ RequestInv' /\ OneOperationPerRequest'
    BY <1>1, <1>3, <2>1, <2>3, <2>4, RebootWrites, Zenon
  <2>6. TypeOK'
    BY <1>1, <2>1, <2>2, <2>3, <2>5, Zenon DEF TypeOK
  <2>7. Issuing /\ rec.result = "Succeeded"
    BY <1>1, Zenon DEF Safe, IssuingInv, Issuing
  <2>8. IssuingInv' /\ ~Ending'
    BY <2>3, <2>7, Zenon DEF IssuingInv, Ending
  <2>9. OperationInv'
    <3>1. SamePast /\ node'.boot = node.boot /\ seen' = seen /\ rec'.c \in {rec.c, claim'} /\ OperationInv
      BY <1>1, <2>2, <2>3, Zenon DEF SamePast, Safe
    <3> QED BY <2>2, <2>7, <3>1, SameOperation, Zenon
  <2> QED BY <2>5, <2>6, <2>8, <2>9, Zenon DEF Safe, EndingInv
<1> QED BY <1>2, <1>3, Zenon DEF RecordIssuedAt

(* What a status patch writes. *)
LEMMA ConditionFields ==
    ASSUME NEW c \in Claims, NEW d \in Claims
    PROVE  /\ WithConditions(c, d).phase = d.phase /\ WithConditions(c, d).ep = d.ep
           /\ WithConditions(c, d).pre = c.pre /\ WithConditions(c, d).tgp = c.tgp
           /\ IssuedConditions(c).phase = "Issued" /\ IssuedConditions(c).ep = c.ep
<1>1. /\ WithConditions(c, d).phase = d.phase /\ WithConditions(c, d).ep = d.ep
      /\ WithConditions(c, d).pre = c.pre /\ WithConditions(c, d).tgp = c.tgp
  BY Zenon DEF Claims, WithConditions
<1>2. IssuedConditions(c).phase = "Issued" /\ IssuedConditions(c).ep = c.ep
  BY Zenon DEF Claims, IssuedConditions
<1> QED BY <1>1, <1>2

(* The status patch of transitionToIssued has no lock: the request it writes *)
(* is the one of the claim all the same.                                     *)
LEMMA IssuedSafe ==
    ASSUME TypeOK, Safe, transitionToIssued
    PROVE  TypeOK' /\ Safe'
<1> DEFINE w == WithConditions(claim, IssuedConditions(rec.c))
<1>1. rec.pc = "issued" /\ UNCHANGED <<seen, node, nseen, pods, machine, life, repair, started, history, past, env>>
  BY Zenon DEF transitionToIssued
<1>2. CASE (Done \/ Goto("forget", rec.c, rec.n)) /\ UNCHANGED <<claim, stale>>
  BY <1>1, <1>2, SkipSafe, Zenon
<1>3. CASE Written("reboot", w) /\ Goto("forget", claim', rec.n)
  <2>1. /\ w \in Claims /\ w.phase = "Issued" /\ w.ep = rec.c.ep
        /\ w.pre = claim.pre /\ w.tgp = claim.tgp
    <3>1. claim \in Claims /\ rec.c \in Claims
      BY RecTyped, Zenon
    <3>2. /\ IssuedConditions(rec.c) \in Claims
          /\ IssuedConditions(rec.c).phase = "Issued" /\ IssuedConditions(rec.c).ep = rec.c.ep
      BY <3>1, ConditionsTyped, ConditionFields, Zenon
    <3> QED BY <3>1, <3>2, ConditionsTyped, ConditionFields, Zenon
  <2> HIDE DEF w
  <2>2. claim' = w
    BY <1>3, Zenon DEF Written
  <2>3. rec' \in Reconciles /\ rec'.pc = "forget" /\ rec'.c = w /\ rec'.result = rec.result
    BY <1>3, <2>1, <2>2, GotoTyped, RecTyped, Zenon
  <2>4. w.ep \in 0..past.commits
    BY <2>1, Zenon DEF Safe, RequestInv
  <2>5. stale' \subseteq Holders /\ CopyInv' /\ RequestInv' /\ OneOperationPerRequest'
    BY <1>1, <1>3, <2>1, <2>3, <2>4, RebootWrites, Zenon
  <2>6. TypeOK'
    BY <1>1, <2>1, <2>2, <2>3, <2>5, Zenon DEF TypeOK
  <2>7. Issuing
    BY <1>1, Zenon DEF Issuing
  <2>8. IssuingInv' /\ ~Issuing' /\ ~Ending'
    BY <2>3, Quiet, Zenon DEF Ending
  <2>9. OperationInv'
    <3>1. CASE past.lost \/ past.lagged
      BY <1>1, <3>1, Zenon DEF OperationInv
    <3>2. CASE ~past.lost /\ ~past.lagged
      <4>1. claim.ep = rec.c.ep /\ (Open(seen) => Current(seen))
        BY <2>7, <3>2, Zenon DEF Safe, OperationInv, Current
      <4>2. RebootInProgress(w) /\ ~Open(w)
        BY <2>1, Zenon DEF RebootInProgress, Open
      <4>3. (Open(seen) => Current(seen))'
        BY <1>1, <2>1, <2>2, <4>1, <4>2, Zenon DEF Current
      <4>4. \A p \in past.calls : p.ep = claim.ep => p.pre = claim.pre
        BY <2>7, <3>2, Zenon DEF Safe, OperationInv
      <4> QED BY <1>1, <2>1, <2>2, <2>8, <4>1, <4>3, <4>4, Zenon DEF OperationInv
    <3> QED BY <3>1, <3>2
  <2> QED BY <2>5, <2>6, <2>8, <2>9, Zenon DEF Safe, EndingInv
<1> QED BY <1>2, <1>3, Zenon DEF transitionToIssued

(* With a copy of the claim that leads to no call and that the lock of       *)
(* setTerminal accepts, no other copy leads to a call either.                *)
LEMMA EndsSafely ==
    ASSUME Safe, Ending, "reboot" \notin stale
    PROVE  rec.pc # "idle" /\ rec.c = claim /\ ~Open(claim) /\ ~Open(seen) /\ ~Issuing
<1>1. rec.pc # "idle" /\ ~Issuing
  BY Zenon DEF Ending, Issuing
<1> QED BY <1>1, Zenon DEF Safe, EndingInv, CopyInv

(* ClearEpisode *)
LEMMA ClearSafe ==
    ASSUME TypeOK, Safe, ClearEpisode
    PROVE  TypeOK' /\ Safe'
<1> DEFINE w == [claim EXCEPT !.pre = NoBoot, !.issued = None]
<1>1. rec.pc = "clear" /\ UNCHANGED <<seen, node, nseen, pods, machine, life, repair, started, history, past, env>>
  BY Zenon DEF ClearEpisode
<1>2. CASE (Done \/ Goto("terminal", rec.c, rec.n)) /\ UNCHANGED <<claim, stale>>
  BY <1>1, <1>2, SkipSafe, Zenon
<1>3. CASE "reboot" \notin stale /\ Written("reboot", w) /\ Goto("terminal", claim', rec.n)
  <2>1. w \in Claims /\ w.phase = claim.phase /\ w.ep = claim.ep /\ w.tgp = claim.tgp
    <3>1. claim \in Claims /\ NoBoot \in Nat /\ None \in Ages \cup {None}
      BY Zenon DEF TypeOK, NoBoot
    <3> QED BY <3>1, Zenon DEF Claims
  <2> HIDE DEF w
  <2>2. claim' = w
    BY <1>3, Zenon DEF Written
  <2>3. rec' \in Reconciles /\ rec'.pc = "terminal" /\ rec'.c = w /\ rec'.result = rec.result
    BY <1>3, <2>1, <2>2, GotoTyped, RecTyped, Zenon
  <2>4. w.ep \in 0..past.commits
    BY <2>1, Zenon DEF Safe, RequestInv
  <2>5. stale' \subseteq Holders /\ CopyInv' /\ RequestInv' /\ OneOperationPerRequest'
    BY <1>1, <1>3, <2>1, <2>3, <2>4, RebootWrites, Zenon
  <2>6. TypeOK'
    BY <1>1, <2>1, <2>2, <2>3, <2>5, Zenon DEF TypeOK
  <2>7. ~Open(w) /\ ~Open(seen)
    <3>1. Ending
      BY <1>1, Zenon DEF Ending
    <3> QED BY <1>3, <2>1, <3>1, EndsSafely, Zenon DEF Open
  <2>8. ~Issuing' /\ IssuingInv' /\ EndingInv'
    BY <1>1, <2>3, <2>7, Quiet, Zenon DEF EndingInv
  <2>9. OperationInv'
    BY <1>1, <2>2, <2>7, <2>8, Zenon DEF OperationInv
  <2> QED BY <2>5, <2>6, <2>8, <2>9, Zenon DEF Safe
<1> QED BY <1>2, <1>3, Zenon DEF ClearEpisode

(* setTerminal *)
LEMMA TerminalSafe ==
    ASSUME TypeOK, Safe, setTerminal
    PROVE  TypeOK' /\ Safe'
<1> DEFINE w == [claim EXCEPT !.phase = rec.result, !.age = 0]
<1>1. /\ rec.pc = "terminal" /\ rec' = IdleRec /\ Done
      /\ UNCHANGED <<seen, node, nseen, pods, machine, life, repair, started, history, past, env>>
  BY Zenon DEF setTerminal, Done
<1>2. CASE UNCHANGED <<claim, stale>>
  BY <1>1, <1>2, SkipSafe, Zenon
<1>3. CASE "reboot" \notin stale /\ Written("reboot", w)
  <2>1. w \in Claims /\ w.phase \in {"Succeeded", "Failed"} /\ w.ep = claim.ep
    <3>1. claim \in Claims /\ rec.result \in {"Succeeded", "Failed"}
      BY RecTyped, Zenon
    <3> QED BY <3>1, AgesTyped, Zenon DEF Claims
  <2> HIDE DEF w
  <2>2. claim' = w
    BY <1>3, Zenon DEF Written
  <2>3. w.ep \in 0..past.commits
    BY <2>1, Zenon DEF Safe, RequestInv
  <2>4. stale' \subseteq Holders /\ CopyInv' /\ RequestInv' /\ OneOperationPerRequest'
    BY <1>1, <1>3, <2>1, <2>3, RebootWrites, Zenon
  <2>5. TypeOK'
    BY <1>1, <2>1, <2>2, <2>4, NothingTyped, Zenon DEF TypeOK
  <2>6. ~Open(w) /\ ~Open(seen)
    <3>1. Ending
      BY <1>1, Zenon DEF Ending
    <3> QED BY <1>3, <2>1, <3>1, EndsSafely, Zenon DEF Open
  <2>7. ~Issuing' /\ IssuingInv' /\ EndingInv'
    BY <1>1, Idle, Zenon DEF Issuing, Ending, IssuingInv, EndingInv
  <2>8. OperationInv'
    BY <1>1, <2>2, <2>6, <2>7, Zenon DEF OperationInv
  <2> QED BY <2>4, <2>5, <2>7, <2>8, Zenon DEF Safe
<1> QED BY <1>2, <1>3, Zenon DEF setTerminal

(* TightenTermination and FailureDeletes leave the request alone. *)
LEMMA ReplacementSafe ==
    ASSUME TypeOK, Safe, TightenTermination \/ FailureDeletes
    PROVE  TypeOK' /\ Safe'
<1>1. /\ rec.pc \in {"tighten", "delete"}
      /\ UNCHANGED <<seen, node, nseen, pods, machine, life, repair, history, past, env>>
  BY Zenon DEF TightenTermination, FailureDeletes
<1>2. CASE UNCHANGED <<claim, stale, started>> /\ (Done \/ (rec.pc = "tighten" /\ Goto("delete", rec.c, rec.n)))
  BY <1>1, <1>2, SkipSafe, Zenon
<1>3. ASSUME NEW w \in {[claim EXCEPT !.tight = TRUE], [claim EXCEPT !.deleting = TRUE]},
             Written("reboot", w), Goto("delete", claim', rec.n) \/ Done,
             started' \in Ages \cup {None}
      PROVE  TypeOK' /\ Safe'
  <2>1. w \in Claims /\ SameRequest(w, claim)
    <3>1. claim \in Claims
      BY Zenon DEF TypeOK
    <3> QED BY <1>3, <3>1, Zenon DEF Claims, SameRequest
  <2>2. claim' = w
    BY <1>3, Zenon DEF Written
  <2>3. rec' \in Reconciles /\ rec'.pc \in {"idle", "delete"} /\ (rec' = IdleRec \/ rec'.c = w)
    <3>1. CASE Done
      BY <3>1, Idle, NothingTyped, Zenon DEF Done
    <3>2. CASE Goto("delete", claim', rec.n)
      BY <2>1, <2>2, <3>2, GotoTyped, RecTyped, Zenon
    <3> QED BY <1>3, <3>1, <3>2
  <2>4. w.ep \in 0..past.commits
    BY <2>1, Zenon DEF SameRequest, Safe, RequestInv
  <2>5. stale' \subseteq Holders /\ CopyInv' /\ RequestInv' /\ OneOperationPerRequest'
    BY <1>1, <1>3, <2>1, <2>3, <2>4, RebootWrites, Zenon
  <2>6. TypeOK'
    BY <1>1, <1>3, <2>1, <2>2, <2>3, <2>5, Zenon DEF TypeOK
  <2>7. ~Issuing' /\ ~Ending' /\ IssuingInv'
    BY <2>3, Zenon DEF Issuing, Ending, IssuingInv
  <2>8. OperationInv'
    <3>1. SamePast /\ node'.boot = node.boot /\ seen' = seen /\ OperationInv /\ SameRequest(claim', claim)
      BY <1>1, <2>1, <2>2, Zenon DEF SamePast, Safe
    <3> QED BY <2>7, <3>1, SameOperation, Zenon
  <2> QED BY <2>5, <2>6, <2>7, <2>8, Zenon DEF Safe, EndingInv
<1>4. CASE TightenTermination
  <2>1. \/ Goto("delete", rec.c, rec.n) /\ UNCHANGED <<claim, stale>>
        \/ Done /\ UNCHANGED <<claim, stale>>
        \/ Written("reboot", [claim EXCEPT !.tight = TRUE]) /\ Goto("delete", claim', rec.n)
    BY <1>4, Zenon DEF TightenTermination
  <2>2. rec.pc = "tighten" /\ UNCHANGED started
    BY <1>4, Zenon DEF TightenTermination
  <2>3. started' \in Ages \cup {None}
    BY <2>2, ClockTyped, Zenon
  <2> QED BY <1>2, <1>3, <2>1, <2>2, <2>3, Zenon
<1>5. CASE FailureDeletes
  <2>1. \/ UNCHANGED <<claim, stale, started>>
        \/ Written("reboot", [claim EXCEPT !.deleting = TRUE]) /\ clearIssuanceStarted
    BY <1>5, Zenon DEF FailureDeletes
  <2>2. Done
    BY <1>5, Zenon DEF FailureDeletes
  <2>3. clearIssuanceStarted => started' \in Ages \cup {None}
    BY ClockTyped, Zenon
  <2> QED BY <1>2, <1>3, <2>1, <2>2, <2>3, Zenon
<1> QED BY <1>4, <1>5

-----------------------------------------------------------------------------
(* The repair method. *)

(* RepairReads *)
LEMMA PassSafe ==
    ASSUME TypeOK, Safe, RepairReads
    PROVE  TypeOK' /\ Safe'
<1>1. UNCHANGED <<claim, seen, node, nseen, pods, machine, rec, life, started, history, past, env>>
  BY DEF RepairReads
<1>2. /\ repair' = [pc |-> "bound", tgp |-> seen.tgp] /\ ~RebootInProgress(seen)
      /\ history < rebootsBeforeReplacement /\ env.commits > 0
  BY Zenon DEF RepairReads
<1>3. stale' = IF "cache" \in stale THEN stale \cup {"repair"} ELSE stale \ {"repair"}
  BY Zenon DEF RepairReads, Read
<1>4. TypeOK'
  <2>1. seen.tgp \in Bounds
    BY RecTyped, ClaimTyped, Zenon
  <2>2. repair' \in [pc : {"idle", "bound", "commit"}, tgp : Bounds]
    BY <1>2, <2>1, Zenon
  <2>3. stale' \subseteq Holders
    BY <1>3, Zenon DEF TypeOK, Holders
  <2> QED BY <1>1, <2>2, <2>3, Zenon DEF TypeOK
<1>5. /\ "cache" \in stale' <=> "cache" \in stale
      /\ "reboot" \in stale' <=> "reboot" \in stale
      /\ "repair" \in stale' <=> "cache" \in stale
  BY <1>3, Zenon
<1>6. CopyInv'
  BY <1>1, <1>2, <1>5, Zenon DEF Safe, CopyInv
<1>7. RequestInv' /\ OneOperationPerRequest'
  BY <1>1, Zenon DEF Safe, RequestInv, OneOperationPerRequest
<1>8. EndingInv' /\ IssuingInv'
  BY <1>1, <1>5, Zenon DEF Safe, EndingInv, Ending, IssuingInv, Issuing
<1>9. OperationInv'
  BY <1>1, Zenon DEF Safe, OperationInv, Issuing, Current
<1> QED BY <1>4, <1>6, <1>7, <1>8, <1>9, Zenon DEF Safe

(* A write by anyone but nodeclaim.reboot: its copy is stale, and a request  *)
(* that it was about to end is not ended.                                    *)
LEMMA OtherWrites ==
    ASSUME Safe, NEW by \in {"repair", "queue", "lifecycle", "user"}, NEW w, Written(by, w),
           UNCHANGED <<seen, rec>>
    PROVE  /\ claim' = w /\ stale' \subseteq Holders /\ "cache" \in stale'
           /\ "repair" \in stale' <=> repair.pc # "idle" /\ by # "repair"
           /\ rec.pc # "idle" => "reboot" \in stale'
           /\ EndingInv' /\ IssuingInv'
           /\ Issuing' <=> Issuing
<1>1. /\ claim' = w /\ stale' \subseteq Holders /\ "cache" \in stale'
      /\ "reboot" \in stale' <=> rec.pc # "idle"
      /\ "repair" \in stale' <=> repair.pc # "idle" /\ by # "repair"
  BY WrittenStale, Zenon
<1>2. (Ending' <=> Ending) /\ (Issuing' <=> Issuing) /\ (Ending => rec.pc # "idle")
  BY Zenon DEF Ending, Issuing
<1>3. EndingInv'
  BY <1>1, <1>2, Zenon DEF Safe, EndingInv
<1>4. IssuingInv'
  BY <1>2, Zenon DEF Safe, IssuingInv
<1> QED BY <1>1, <1>2, <1>3, <1>4, Zenon

(* While the claim has no reboot in progress, no copy leads to a call. *)
LEMMA NothingOpen ==
    ASSUME Safe, ~RebootInProgress(claim), ~past.lost, ~past.lagged
    PROVE  ~Open(claim) /\ ~Open(seen) /\ ~Issuing
<1>1. ~Open(claim)
  BY Zenon DEF Open, RebootInProgress
<1> QED BY <1>1, Zenon DEF Safe, OperationInv, Current

(* CommitDrainBound *)
LEMMA BoundSafe ==
    ASSUME TypeOK, Safe, CommitDrainBound
    PROVE  TypeOK' /\ Safe'
<1> DEFINE w == [claim EXCEPT !.tgp = env.tgp]
<1>1. repair.pc = "bound" /\ UNCHANGED <<seen, node, nseen, pods, machine, rec, life, started, history, past, env>>
  BY Zenon DEF CommitDrainBound
<1>2. ASSUME repair' \in [pc : {"idle", "bound", "commit"}, tgp : Bounds], UNCHANGED <<claim, stale>>
      PROVE  TypeOK' /\ Safe'
  <2>1. TypeOK'
    BY <1>1, <1>2, Zenon DEF TypeOK
  <2>2. CopyInv'
    BY <1>1, <1>2, Zenon DEF Safe, CopyInv
  <2>3. RequestInv' /\ OneOperationPerRequest'
    BY <1>1, <1>2, Zenon DEF Safe, RequestInv, OneOperationPerRequest
  <2>4. EndingInv' /\ IssuingInv'
    BY <1>1, <1>2, Zenon DEF Safe, EndingInv, Ending, IssuingInv, Issuing
  <2>5. OperationInv'
    BY <1>1, <1>2, Zenon DEF Safe, OperationInv, Issuing, Current
  <2> QED BY <2>1, <2>2, <2>3, <2>4, <2>5, Zenon DEF Safe
<1>3. repair \in [pc : {"idle", "bound", "commit"}, tgp : Bounds] /\ env.tgp \in Bounds
  BY RecTyped, Zenon DEF TypeOK
<1>4. CASE repair' = [repair EXCEPT !.pc = "commit"] /\ UNCHANGED <<claim, stale>>
  <2>1. repair' \in [pc : {"idle", "bound", "commit"}, tgp : Bounds]
    BY <1>3, <1>4, Zenon
  <2> QED BY <1>2, <1>4, <2>1
<1>5. CASE repair' = IdlePass /\ UNCHANGED <<claim, stale>>
  BY <1>2, <1>5, NothingTyped, Zenon
<1>6. CASE "repair" \notin stale /\ Written("repair", w) /\ repair' = [pc |-> "commit", tgp |-> env.tgp]
  <2>1. w \in Claims /\ w.phase = claim.phase /\ w.ep = claim.ep
    <3>1. claim \in Claims
      BY Zenon DEF TypeOK
    <3> QED BY <1>3, <3>1, Zenon DEF Claims
  <2> HIDE DEF w
  <2>2. /\ claim' = w /\ stale' \subseteq Holders /\ "cache" \in stale' /\ "repair" \notin stale'
        /\ rec.pc # "idle" => "reboot" \in stale'
        /\ EndingInv' /\ IssuingInv' /\ (Issuing' <=> Issuing)
    BY <1>1, <1>6, OtherWrites, Zenon
  <2>3. TypeOK'
    <3>1. repair' \in [pc : {"idle", "bound", "commit"}, tgp : Bounds]
      BY <1>3, <1>6, Zenon
    <3> QED BY <1>1, <2>1, <2>2, <3>1, Zenon DEF TypeOK
  <2>4. ~RebootInProgress(claim) /\ ~RebootInProgress(seen)
    BY <1>1, <1>6, Zenon DEF Safe, CopyInv
  <2>5. ~RebootInProgress(w) /\ ~Open(w)
    BY <2>1, <2>4, Zenon DEF RebootInProgress, Open
  <2>6. CopyInv'
    BY <1>1, <2>2, <2>4, <2>5, Zenon DEF Safe, CopyInv
  <2>7. RequestInv' /\ OneOperationPerRequest'
    BY <1>1, <2>1, <2>2, Zenon DEF Safe, RequestInv, OneOperationPerRequest
  <2>8. OperationInv'
    BY <1>1, <2>2, <2>4, <2>5, NothingOpen, Zenon DEF OperationInv
  <2> QED BY <2>2, <2>3, <2>6, <2>7, <2>8, Zenon DEF Safe
<1> QED BY <1>4, <1>5, <1>6, Zenon DEF CommitDrainBound

(* commitReboot: a new request, that no copy and no call is of. *)
LEMMA CommitSafe ==
    ASSUME TypeOK, Safe, commitReboot
    PROVE  TypeOK' /\ Safe'
<1> DEFINE n == past.commits + 1
           w == [claim EXCEPT !.phase = "Requested", !.ep = n, !.age = 0]
<1>1. /\ repair.pc = "commit" /\ repair' = IdlePass
      /\ UNCHANGED <<seen, node, nseen, pods, machine, rec, life, started>>
  BY Zenon DEF commitReboot
<1>2. repair'.pc = "idle" /\ repair' \in [pc : {"idle", "bound", "commit"}, tgp : Bounds]
  BY <1>1, NothingTyped, Zenon DEF IdlePass
<1>3. CASE UNCHANGED <<claim, stale, history, past, env>>
  <2>1. TypeOK'
    BY <1>1, <1>2, <1>3, Zenon DEF TypeOK
  <2>2. CopyInv'
    BY <1>1, <1>2, <1>3, Zenon DEF Safe, CopyInv
  <2>3. RequestInv' /\ OneOperationPerRequest'
    BY <1>1, <1>3, Zenon DEF Safe, RequestInv, OneOperationPerRequest
  <2>4. EndingInv' /\ IssuingInv'
    BY <1>1, <1>3, Zenon DEF Safe, EndingInv, Ending, IssuingInv, Issuing
  <2>5. OperationInv'
    BY <1>1, <1>3, Zenon DEF Safe, OperationInv, Issuing, Current
  <2> QED BY <2>1, <2>2, <2>3, <2>4, <2>5, Zenon DEF Safe
<1>4. CASE /\ "repair" \notin stale /\ Written("repair", w)
           /\ history' \in {history, history + 1}
           /\ past' = [past EXCEPT !.commits = @ + 1, !.boot = node.boot]
           /\ \/ env' = [env EXCEPT !.commits = @ - 1]
              \/ env.errors > 0 /\ env' = [env EXCEPT !.commits = @ - 1, !.errors = @ - 1]
  <2>1. past \in [calls : SUBSET Operations, commits : Nat, boot : Nat, lost : BOOLEAN, lagged : BOOLEAN,
                  rejoined : BOOLEAN]
    BY Zenon DEF TypeOK
  <2>2. n \in Nat /\ past.commits \in Nat /\ n \notin 0..past.commits /\ n \in 0..n /\ 0..past.commits \subseteq 0..n
    <3>1. past.commits \in Nat
      BY <2>1, Zenon
    <3> QED BY <3>1
  <2> HIDE DEF n
  <2>3. w \in Claims /\ w.ep = n
    <3>1. claim \in Claims
      BY Zenon DEF TypeOK
    <3> QED BY <2>2, <3>1, AgesTyped, Zenon DEF Claims
  <2> HIDE DEF w
  <2>4. /\ claim' = w /\ stale' \subseteq Holders /\ "cache" \in stale'
        /\ rec.pc # "idle" => "reboot" \in stale'
        /\ EndingInv' /\ IssuingInv' /\ (Issuing' <=> Issuing)
    BY <1>1, <1>4, OtherWrites, Zenon
  <2>5. /\ past' \in [calls : SUBSET Operations, commits : Nat, boot : Nat, lost : BOOLEAN, lagged : BOOLEAN,
                      rejoined : BOOLEAN]
        /\ past'.calls = past.calls /\ past'.commits = n
        /\ past'.lost = past.lost /\ past'.lagged = past.lagged
    <3>1. node.boot \in Nat
      BY RecTyped, NodeWrites, Zenon
    <3> QED BY <1>4, <2>1, <2>2, <3>1, Zenon DEF n
  <2>6. history < rebootsBeforeReplacement /\ env.commits > 0
    BY <1>1, Zenon DEF Safe, CopyInv
  <2>7. TypeOK'
    <3>1. history' \in 0..rebootsBeforeReplacement
      BY <1>4, <2>6, RebootAssumption DEF TypeOK
    <3>2. env' \in Environments
      <4>1. env \in Environments
        BY Zenon DEF TypeOK
      <4>2. env.commits - 1 \in Nat /\ (env.errors > 0 => env.errors - 1 \in Nat)
        BY <2>6, <4>1 DEF Environments
      <4> QED BY <1>4, <4>1, <4>2, Zenon DEF Environments
    <3> QED BY <1>1, <1>2, <2>3, <2>4, <2>5, <3>1, <3>2, Zenon DEF TypeOK
  <2>8. ~RebootInProgress(claim) /\ ~RebootInProgress(seen) /\ ~Open(seen)
    BY <1>1, <1>4, Zenon DEF Safe, CopyInv, RebootInProgress, Open
  <2>9. CopyInv'
    BY <1>1, <1>2, <2>4, Zenon DEF Safe, CopyInv
  <2>10. RequestInv' /\ OneOperationPerRequest'
    <3>1. RequestInv'
      BY <1>1, <2>2, <2>3, <2>4, <2>5, Zenon DEF Safe, RequestInv
    <3>2. OneOperationPerRequest'
      BY <2>5, Zenon DEF Safe, OneOperationPerRequest
    <3> QED BY <3>1, <3>2
  <2>11. OperationInv'
    <3>1. \A p \in past'.calls : p.ep # claim'.ep
      BY <2>2, <2>3, <2>4, <2>5, Zenon DEF Safe, RequestInv
    <3> QED BY <1>1, <2>4, <2>5, <2>8, <3>1, NothingOpen, Zenon DEF OperationInv
  <2> QED BY <2>4, <2>7, <2>9, <2>10, <2>11, Zenon DEF Safe
<1> QED BY <1>3, <1>4, Zenon DEF commitReboot

(* EscalateToReplacement *)
LEMMA EscalateSafe ==
    ASSUME TypeOK, Safe, EscalateToReplacement
    PROVE  TypeOK' /\ Safe'
<1> DEFINE w == [claim EXCEPT !.deleting = TRUE]
<1>1. /\ repair.pc = "idle" /\ Written("queue", w)
      /\ UNCHANGED <<seen, node, nseen, pods, machine, rec, life, repair, started, history, past, env>>
  BY Zenon DEF EscalateToReplacement
<1>2. w \in Claims /\ SameRequest(w, claim)
  <2>1. claim \in Claims
    BY Zenon DEF TypeOK
  <2> QED BY <2>1, Zenon DEF Claims, SameRequest
<1> HIDE DEF w
<1>3. /\ claim' = w /\ stale' \subseteq Holders /\ "cache" \in stale'
      /\ rec.pc # "idle" => "reboot" \in stale'
      /\ EndingInv' /\ IssuingInv' /\ (Issuing' <=> Issuing)
  BY <1>1, OtherWrites, Zenon
<1>4. TypeOK'
  BY <1>1, <1>2, <1>3, Zenon DEF TypeOK
<1>5. CopyInv'
  BY <1>1, <1>3, Zenon DEF Safe, CopyInv
<1>6. RequestInv' /\ OneOperationPerRequest'
  BY <1>1, <1>2, <1>3, Zenon DEF Safe, RequestInv, OneOperationPerRequest, SameRequest
<1>7. OperationInv'
  <2>1. SamePast /\ node'.boot = node.boot /\ seen' = seen /\ rec'.c = rec.c /\ OperationInv
    BY <1>1, Zenon DEF SamePast, Safe
  <2> QED BY <1>2, <1>3, <2>1, SameOperation, Zenon
<1> QED BY <1>3, <1>4, <1>5, <1>6, <1>7, Zenon DEF Safe

-----------------------------------------------------------------------------
(* nodeclaim.lifecycle. *)

(* InitializationReads *)
LEMMA InitializationSafe ==
    ASSUME TypeOK, Safe, InitializationReads
    PROVE  TypeOK' /\ Safe'
<1>1. /\ UNCHANGED <<claim, seen, stale, node, nseen, pods, machine, rec, repair, started, history, past, env>>
      /\ ~RebootInProgress(seen)
  BY Zenon DEF InitializationReads
<1> DEFINE w == WithConditions(NoClaim, seen)
<1>2. w \in Claims /\ w.phase = seen.phase /\ w.ep = seen.ep
  <2>1. NoClaim \in Claims /\ seen \in Claims
    BY NothingTyped, RecTyped, Zenon
  <2> QED BY <2>1, ConditionsTyped, ConditionFields, Zenon
<1> HIDE DEF w
<1>3. PICK pc \in {"label", "patch"}, c \in {[w EXCEPT !.init = "True", !.initAge = 0], [w EXCEPT !.init = "NotReady"]} :
         life' = [pc |-> pc, c |-> c]
  BY Zenon DEF InitializationReads, w
<1>4. c \in Claims /\ c.phase = seen.phase /\ c.ep = seen.ep
  <2>1. c \in Claims
    BY <1>2, ConditionsTyped, Zenon
  <2> QED BY <1>2, <2>1, Zenon DEF Claims
<1>5. life'.c = c /\ life' \in [pc : {"idle", "label", "patch"}, c : Claims]
  BY <1>3, <1>4, Zenon
<1>6. TypeOK'
  BY <1>1, <1>5, Zenon DEF TypeOK
<1>7. CopyInv'
  <2>1. ~RebootInProgress(life'.c)
    BY <1>1, <1>4, <1>5, Zenon DEF RebootInProgress
  <2> QED BY <1>1, <2>1, Zenon DEF Safe, CopyInv
<1>8. RequestInv' /\ OneOperationPerRequest'
  BY <1>1, <1>4, <1>5, Zenon DEF Safe, RequestInv, OneOperationPerRequest
<1>9. EndingInv' /\ IssuingInv'
  BY <1>1, Zenon DEF Safe, EndingInv, Ending, IssuingInv, Issuing
<1>10. OperationInv'
  BY <1>1, Zenon DEF Safe, OperationInv, Issuing, Current
<1> QED BY <1>6, <1>7, <1>8, <1>9, <1>10, Zenon DEF Safe

(* LifecyclePatches: a request in progress is lost, which is recorded;       *)
(* otherwise there is none.                                                  *)
LEMMA PatchSafe ==
    ASSUME TypeOK, Safe, LifecyclePatches
    PROVE  TypeOK' /\ Safe'
<1> DEFINE w == WithConditions(claim, life.c)
<1>1. /\ Written("lifecycle", w) /\ life' = IdleLife
      /\ past' = [past EXCEPT !.lost = @ \/ RebootInProgress(claim)]
      /\ UNCHANGED <<seen, node, nseen, pods, machine, rec, repair, started, history, env>>
  BY Zenon DEF LifecyclePatches
<1>2. w \in Claims /\ w.phase = life.c.phase /\ w.ep = life.c.ep
  BY RecTyped, ConditionsTyped, ConditionFields, Zenon
<1> HIDE DEF w
<1>3. /\ claim' = w /\ stale' \subseteq Holders /\ "cache" \in stale'
      /\ "repair" \in stale' <=> repair.pc # "idle"
      /\ rec.pc # "idle" => "reboot" \in stale'
      /\ EndingInv' /\ IssuingInv' /\ (Issuing' <=> Issuing)
  BY <1>1, OtherWrites, Zenon
<1>4. /\ past' \in [calls : SUBSET Operations, commits : Nat, boot : Nat, lost : BOOLEAN, lagged : BOOLEAN,
                    rejoined : BOOLEAN]
      /\ past'.calls = past.calls /\ past'.commits = past.commits /\ past'.lagged = past.lagged
      /\ past'.lost <=> past.lost \/ RebootInProgress(claim)
  <2>1. past \in [calls : SUBSET Operations, commits : Nat, boot : Nat, lost : BOOLEAN, lagged : BOOLEAN,
                  rejoined : BOOLEAN]
    BY Zenon DEF TypeOK
  <2>2. (past.lost \/ RebootInProgress(claim)) \in BOOLEAN
    BY Zenon
  <2> QED BY <1>1, <2>1, <2>2, Zenon
<1>5. life'.c.phase = "none" /\ life'.c.ep = 0
  BY <1>1, Zenon DEF IdleLife, NoClaim
<1>6. TypeOK'
  BY <1>1, <1>2, <1>3, <1>4, NothingTyped, Zenon DEF TypeOK
<1>7. CopyInv'
  <2>1. ~RebootInProgress(life'.c)
    BY <1>5, Zenon DEF RebootInProgress
  <2> QED BY <1>1, <1>3, <2>1, Zenon DEF Safe, CopyInv
<1>8. RequestInv'
  <2>1. 0 \in 0..past.commits
    BY DEF TypeOK
  <2> QED BY <1>1, <1>2, <1>3, <1>4, <1>5, <2>1, Zenon DEF Safe, RequestInv
<1>9. OneOperationPerRequest'
  BY <1>4, Zenon DEF Safe, OneOperationPerRequest
<1>10. OperationInv'
  <2>1. ~Open(w)
    BY <1>2, Zenon DEF Safe, CopyInv, RebootInProgress, Open
  <2> QED BY <1>1, <1>3, <1>4, <2>1, NothingOpen, Zenon DEF OperationInv
<1> QED BY <1>3, <1>6, <1>7, <1>8, <1>9, <1>10, Zenon DEF Safe

-----------------------------------------------------------------------------
(* The informers, the machine, the user, the process and the clock. *)

(* DeliverClaim *)
LEMMA DeliverSafe ==
    ASSUME TypeOK, Safe, DeliverClaim
    PROVE  TypeOK' /\ Safe'
<1>1. /\ seen' = claim /\ stale' = stale \ {"cache"}
      /\ UNCHANGED <<claim, node, nseen, pods, machine, rec, life, repair, started, history, past, env>>
  BY Zenon DEF DeliverClaim
<1>2. TypeOK'
  BY <1>1, Zenon DEF TypeOK
<1>3. CopyInv'
  BY <1>1, Zenon DEF Safe, CopyInv
<1>4. RequestInv' /\ OneOperationPerRequest'
  BY <1>1, Zenon DEF Safe, RequestInv, OneOperationPerRequest
<1>5. IssuingInv'
  BY <1>1, Zenon DEF Safe, IssuingInv, Issuing
<1>6. EndingInv'
  <2>1. (Ending' <=> Ending) /\ (Ending => rec.pc # "idle")
    BY <1>1, Zenon DEF Ending
  <2> QED BY <1>1, <2>1, Zenon DEF Safe, EndingInv, CopyInv
<1>7. OperationInv'
  <2>1. Open(claim) => RebootInProgress(claim)
    BY Zenon DEF Open, RebootInProgress
  <2> QED BY <1>1, <2>1, Zenon DEF Safe, OperationInv, Issuing, Current
<1> QED BY <1>2, <1>3, <1>4, <1>5, <1>6, <1>7, Zenon DEF Safe

(* The steps that the claim and its copies do not notice. *)
LEMMA BesideSafe ==
    ASSUME TypeOK, Safe,
           \/ ReconcileDeleting \/ InitializationLabels \/ DeliverNode \/ NodeReady \/ NodeVanishes
           \/ NodeReturns \/ PodBinds \/ PodsLeave
    PROVE  TypeOK' /\ Safe'
<1>1. UNCHANGED <<claim, seen, stale, rec, repair, history>>
  BY Zenon DEF ReconcileDeleting, InitializationLabels, DeliverNode, NodeReady, NodeVanishes, NodeReturns,
               PodBinds, PodsLeave
<1>2. node \in Nodes /\ nseen \in Nodes
  BY RecTyped, Zenon
<1>3. nseen' \in Nodes
  BY <1>2, Zenon DEF ReconcileDeleting, InitializationLabels, DeliverNode, NodeReady, NodeVanishes, NodeReturns,
               PodBinds, PodsLeave
<1>4. node' \in Nodes /\ node'.boot = node.boot
  <2>1. node' \in {node, [node EXCEPT !.label = TRUE], [node EXCEPT !.ready = TRUE],
                   [node EXCEPT !.exists = FALSE, !.taint = FALSE, !.label = FALSE],
                   [node EXCEPT !.exists = TRUE, !.ready = TRUE]}
    BY Zenon DEF ReconcileDeleting, InitializationLabels, DeliverNode, NodeReady, NodeVanishes, NodeReturns,
                 PodBinds, PodsLeave
  <2> QED BY <1>2, <2>1, Zenon DEF Nodes
<1>5. life' \in [pc : {"idle", "label", "patch"}, c : Claims] /\ (life'.c = life.c \/ life' = IdleLife)
  <2>1. life \in [pc : {"idle", "label", "patch"}, c : Claims]
    BY Zenon DEF TypeOK
  <2>2. life' \in {life, [life EXCEPT !.pc = "patch"], IdleLife}
    BY Zenon DEF ReconcileDeleting, InitializationLabels, DeliverNode, NodeReady, NodeVanishes, NodeReturns,
                 PodBinds, PodsLeave
  <2> QED BY <2>1, <2>2, NothingTyped, Zenon
<1>6. /\ past' \in [calls : SUBSET Operations, commits : Nat, boot : Nat, lost : BOOLEAN, lagged : BOOLEAN,
                    rejoined : BOOLEAN]
      /\ SamePast
  <2>1. past \in [calls : SUBSET Operations, commits : Nat, boot : Nat, lost : BOOLEAN, lagged : BOOLEAN,
                  rejoined : BOOLEAN]
    BY Zenon DEF TypeOK
  <2>2. past' \in {past, [past EXCEPT !.rejoined = TRUE]}
    BY Zenon DEF ReconcileDeleting, InitializationLabels, DeliverNode, NodeReady, NodeVanishes, NodeReturns,
                 PodBinds, PodsLeave
  <2> QED BY <2>1, <2>2, Zenon DEF SamePast
<1>7. env' \in Environments /\ env'.commits = env.commits
  <2>1. env \in Environments
    BY Zenon DEF TypeOK
  <2>2. env' = env \/ (env.vanish > 0 /\ env' = [env EXCEPT !.vanish = @ - 1])
    BY Zenon DEF ReconcileDeleting, InitializationLabels, DeliverNode, NodeReady, NodeVanishes, NodeReturns,
                 PodBinds, PodsLeave
  <2>3. env.vanish > 0 => env.vanish - 1 \in Nat
    BY <2>1 DEF Environments
  <2> QED BY <2>1, <2>2, <2>3, Zenon DEF Environments
<1>8. pods' \in BOOLEAN /\ UNCHANGED machine
  BY Zenon DEF TypeOK, ReconcileDeleting, InitializationLabels, DeliverNode, NodeReady, NodeVanishes, NodeReturns,
               PodBinds, PodsLeave
<1>9. started' \in Ages \cup {None}
  <2>1. UNCHANGED started \/ clearIssuanceStarted
    BY Zenon DEF ReconcileDeleting, InitializationLabels, DeliverNode, NodeReady, NodeVanishes, NodeReturns,
                 PodBinds, PodsLeave
  <2> QED BY <2>1, ClockTyped, Zenon
<1>10. TypeOK'
  BY <1>1, <1>3, <1>4, <1>5, <1>6, <1>7, <1>8, <1>9, Zenon DEF TypeOK
<1>11. CASE life'.c = life.c
  BY <1>1, <1>4, <1>6, <1>7, <1>10, <1>11, SafeBeside, Zenon DEF SameWorld
<1>12. CASE life' = IdleLife
  <2>1. life'.c.phase = "none" /\ life'.c.ep = 0
    BY <1>12, Zenon DEF IdleLife, NoClaim
  <2>2. CopyInv'
    <3>1. ~RebootInProgress(life'.c)
      BY <2>1, Zenon DEF RebootInProgress
    <3> QED BY <1>1, <1>7, <3>1, Zenon DEF Safe, CopyInv
  <2>3. RequestInv'
    <3>1. 0 \in 0..past.commits
      BY DEF TypeOK
    <3> QED BY <1>1, <1>6, <2>1, <3>1, Zenon DEF Safe, RequestInv, SamePast
  <2>4. OneOperationPerRequest'
    BY <1>6, Zenon DEF Safe, OneOperationPerRequest, SamePast
  <2>5. EndingInv' /\ IssuingInv'
    BY <1>1, Zenon DEF Safe, EndingInv, Ending, IssuingInv, Issuing
  <2>6. OperationInv'
    BY <1>1, <1>4, <1>6, Zenon DEF Safe, OperationInv, Issuing, Current, SamePast
  <2> QED BY <1>10, <2>2, <2>3, <2>4, <2>5, <2>6, Zenon DEF Safe
<1> QED BY <1>5, <1>11, <1>12

(* A boot finds the cache with the claim, and no reconcile. *)
LEMMA BootSafe ==
    ASSUME TypeOK, Safe, Boot
    PROVE  TypeOK' /\ Safe'
<1>1. /\ "cache" \notin stale /\ rec.pc = "idle" /\ machine' = [machine EXCEPT !.due = FALSE]
      /\ UNCHANGED <<claim, seen, stale, nseen, pods, rec, life, repair, started, history, past, env>>
  BY Zenon DEF Boot
<1>2. TypeOK'
  <2>1. node' \in Nodes
    <3>1. PICK r \in BOOLEAN : node' = [node EXCEPT !.boot = @ + 1, !.ready = r]
      BY Zenon DEF Boot
    <3> QED BY <3>1, RecTyped, NodeWrites, Zenon
  <2>2. machine' \in [accepted : SUBSET Operations, due : BOOLEAN, refuses : BOOLEAN]
    BY <1>1, Zenon DEF TypeOK
  <2> QED BY <1>1, <2>1, <2>2, Zenon DEF TypeOK
<1>3. CopyInv' /\ RequestInv' /\ OneOperationPerRequest'
  BY <1>1, Zenon DEF Safe, CopyInv, RequestInv, OneOperationPerRequest
<1>4. EndingInv' /\ IssuingInv' /\ ~Issuing'
  BY <1>1, Zenon DEF EndingInv, Ending, IssuingInv, Issuing
<1>5. OperationInv'
  <2>1. seen = claim
    BY <1>1, Zenon DEF Safe, CopyInv
  <2>2. Open(claim) => RebootInProgress(claim)
    BY Zenon DEF Open, RebootInProgress
  <2> QED BY <1>1, <1>4, <2>1, <2>2, Zenon DEF Safe, OperationInv, Current
<1> QED BY <1>2, <1>3, <1>4, <1>5, Zenon DEF Safe

(* EditDrainBound: the request leads to no further call, but for a reconcile *)
(* or a cache that has not seen the edit.                                    *)
LEMMA EditSafe ==
    ASSUME TypeOK, Safe, EditDrainBound
    PROVE  TypeOK' /\ Safe'
<1> DEFINE w == [claim EXCEPT !.tgp = "invalid"]
<1>1. /\ env.edits > 0 /\ env' = [env EXCEPT !.edits = @ - 1] /\ Written("user", w)
      /\ UNCHANGED <<seen, node, nseen, pods, machine, rec, life, repair, started, history, past>>
  BY Zenon DEF EditDrainBound
<1>2. /\ w \in Claims /\ w.tgp = "invalid"
      /\ w.phase = claim.phase /\ w.ep = claim.ep /\ w.pre = claim.pre
  <2>1. claim \in Claims /\ "invalid" \in Bounds
    BY Zenon DEF TypeOK, Bounds
  <2> QED BY <2>1, Zenon DEF Claims
<1> HIDE DEF w
<1>3. /\ claim' = w /\ stale' \subseteq Holders /\ "cache" \in stale'
      /\ "repair" \in stale' <=> repair.pc # "idle"
      /\ rec.pc # "idle" => "reboot" \in stale'
      /\ EndingInv' /\ IssuingInv' /\ (Issuing' <=> Issuing)
  BY <1>1, OtherWrites, Zenon
<1>4. env' \in Environments /\ env'.commits = env.commits
  <2>1. env \in Environments
    BY Zenon DEF TypeOK
  <2>2. env.edits - 1 \in Nat
    BY <1>1, <2>1 DEF Environments
  <2> QED BY <1>1, <2>1, <2>2, Zenon DEF Environments
<1>5. TypeOK'
  BY <1>1, <1>2, <1>3, <1>4, Zenon DEF TypeOK
<1>6. CopyInv'
  BY <1>1, <1>3, <1>4, Zenon DEF Safe, CopyInv
<1>7. RequestInv' /\ OneOperationPerRequest'
  BY <1>1, <1>2, <1>3, Zenon DEF Safe, RequestInv, OneOperationPerRequest
<1>8. OperationInv'
  <2>1. ~Open(w) /\ (RebootInProgress(w) <=> RebootInProgress(claim))
    BY <1>2, Zenon DEF Open, RebootInProgress
  <2>2. \A c : Current(c) => RebootInProgress(w) /\ w.ep = c.ep
                               /\ (c.pre = w.pre \/ (c.pre = NoBoot /\ w.pre = node.boot))
    BY <1>2, <2>1, Zenon DEF Current
  <2>3. CASE past.lost \/ past.lagged
    BY <1>1, <2>3, Zenon DEF OperationInv
  <2>4. CASE ~past.lost /\ ~past.lagged
    <3>1. (Open(seen) => Current(seen)) /\ (Issuing => Current(rec.c))
      BY <2>4, Zenon DEF Safe, OperationInv
    <3>2. (Open(seen) => Current(seen))' /\ (Issuing => Current(rec.c))'
      BY <1>1, <1>3, <2>2, <3>1, Zenon DEF Current
    <3>3. Open(seen) \/ Issuing => \A p \in past.calls : p.ep = w.ep => p.pre = w.pre
      BY <1>2, <2>4, Zenon DEF Safe, OperationInv
    <3> QED BY <1>1, <1>3, <2>1, <3>2, <3>3, Zenon DEF OperationInv
  <2> QED BY <2>3, <2>4
<1> QED BY <1>3, <1>5, <1>6, <1>7, <1>8, Zenon DEF Safe

(* A restart reads everything anew. *)
LEMMA RestartSafe ==
    ASSUME TypeOK, Safe, Restart
    PROVE  TypeOK' /\ Safe'
<1>1. /\ env.restarts > 0 /\ env' = [env EXCEPT !.restarts = @ - 1]
      /\ rec' = IdleRec /\ life' = IdleLife /\ repair' = IdlePass
      /\ started' = None /\ history' = 0
      /\ seen' = claim /\ nseen' = node /\ stale' = {}
      /\ UNCHANGED <<pods, claim, node, machine, past>>
  BY Zenon DEF Restart
<1>2. /\ rec'.pc = "idle" /\ rec'.c.ep = 0 /\ repair'.pc = "idle"
      /\ life'.c.phase = "none" /\ life'.c.ep = 0
  BY <1>1, Idle, Zenon DEF IdleLife, IdlePass, NoClaim
<1>3. TypeOK'
  <2>1. env' \in Environments
    <3>1. env \in Environments
      BY Zenon DEF TypeOK
    <3>2. env.restarts - 1 \in Nat
      BY <1>1, <3>1 DEF Environments
    <3> QED BY <1>1, <3>1, <3>2, Zenon DEF Environments
  <2>2. history' \in 0..rebootsBeforeReplacement
    BY <1>1, RebootAssumption
  <2>3. /\ claim \in Claims /\ node \in Nodes /\ pods \in BOOLEAN
        /\ machine \in [accepted : SUBSET Operations, due : BOOLEAN, refuses : BOOLEAN]
        /\ past \in [calls : SUBSET Operations, commits : Nat, boot : Nat, lost : BOOLEAN, lagged : BOOLEAN,
                     rejoined : BOOLEAN]
    BY Zenon DEF TypeOK
  <2> QED BY <1>1, <2>1, <2>2, <2>3, NothingTyped, Zenon DEF TypeOK
<1>4. CopyInv'
  <2>1. ~RebootInProgress(life'.c)
    BY <1>2, Zenon DEF RebootInProgress
  <2> QED BY <1>1, <1>2, <2>1, Zenon DEF CopyInv
<1>5. RequestInv' /\ OneOperationPerRequest'
  <2>1. 0 \in 0..past.commits
    BY DEF TypeOK
  <2> QED BY <1>1, <1>2, <2>1, Zenon DEF Safe, RequestInv, OneOperationPerRequest
<1>6. EndingInv' /\ IssuingInv' /\ ~Issuing'
  BY <1>2, Zenon DEF EndingInv, Ending, IssuingInv, Issuing
<1>7. OperationInv'
  <2>1. Open(claim) => RebootInProgress(claim)
    BY Zenon DEF Open, RebootInProgress
  <2> QED BY <1>1, <1>6, <2>1, Zenon DEF Safe, OperationInv, Current
<1> QED BY <1>3, <1>4, <1>5, <1>6, <1>7, Zenon DEF Safe

(* Tick *)
LEMMA TickSafe ==
    ASSUME TypeOK, Safe, Tick
    PROVE  TypeOK' /\ Safe'
<1>1. /\ rec.pc = "idle" /\ claim' = Aged(claim) /\ seen' = Aged(seen)
      /\ node' = AgedNode(node) /\ nseen' = AgedNode(nseen) /\ started' = Later(started)
      /\ UNCHANGED <<stale, pods, machine, rec, life, repair, history, past, env>>
  BY Zenon DEF Tick
<1>2. \A c \in Claims : Aged(c) \in Claims /\ SameRequest(Aged(c), c)
  <2> TAKE c \in Claims
  <2>1. Aged(c) \in Claims
    BY ConditionsTyped, Zenon
  <2>2. SameRequest(Aged(c), c)
    BY Zenon DEF Claims, Aged, SameRequest
  <2> QED BY <2>1, <2>2
<1>3. /\ claim' \in Claims /\ seen' \in Claims /\ node' \in Nodes /\ nseen' \in Nodes
      /\ SameRequest(claim', claim) /\ SameRequest(seen', seen) /\ node'.boot = node.boot
  <2>1. claim \in Claims /\ seen \in Claims /\ node \in Nodes /\ nseen \in Nodes
    BY Zenon DEF TypeOK
  <2> QED BY <1>1, <1>2, <2>1, NodeWrites, Zenon
<1>4. started' \in Ages \cup {None}
  BY <1>1, AgesTyped, Zenon DEF TypeOK
<1>5. TypeOK'
  BY <1>1, <1>3, <1>4, Zenon DEF TypeOK
<1>6. /\ RebootInProgress(claim') <=> RebootInProgress(claim)
      /\ RebootInProgress(seen') <=> RebootInProgress(seen)
      /\ Open(claim') <=> Open(claim)
      /\ Open(seen') <=> Open(seen)
  BY <1>3, Zenon DEF SameRequest, RebootInProgress, Open
<1>7. CopyInv'
  BY <1>1, <1>6, Zenon DEF Safe, CopyInv
<1>8. RequestInv' /\ OneOperationPerRequest'
  BY <1>1, <1>3, Zenon DEF Safe, RequestInv, OneOperationPerRequest, SameRequest
<1>9. EndingInv' /\ IssuingInv' /\ ~Issuing'
  BY <1>1, Zenon DEF EndingInv, Ending, IssuingInv, Issuing
<1>10. OperationInv'
  <2>1. CASE past.lost \/ past.lagged
    BY <1>1, <2>1, Zenon DEF OperationInv
  <2>2. CASE ~past.lost /\ ~past.lagged
    <3>1. (Open(seen) => Current(seen))'
      BY <1>3, <1>6, <2>2, Zenon DEF Safe, OperationInv, Current, SameRequest
    <3>2. Open(claim) \/ Open(seen) => \A p \in past.calls : p.ep = claim'.ep => p.pre = claim'.pre
      BY <1>3, <2>2, Zenon DEF Safe, OperationInv, SameRequest
    <3> QED BY <1>1, <1>6, <1>9, <3>1, <3>2, Zenon DEF OperationInv
  <2> QED BY <2>1, <2>2
<1> QED BY <1>5, <1>7, <1>8, <1>9, <1>10, Zenon DEF Safe

-----------------------------------------------------------------------------
(* It holds at the start: no request, no copy but the cache. *)
LEMMA InitHolds == Init => RebootInv
<1> SUFFICES ASSUME Init PROVE RebootInv
  OBVIOUS
<1>1. /\ env \in Environments /\ env.init \in {"True", "NotReady"} /\ env.pods \in BOOLEAN
  BY ScenarioAssumption, Zenon DEF Init, Environments
<1>2. /\ claim \in Claims /\ claim.phase = "none" /\ claim.ep = 0 /\ seen = claim
  <2>1. NoClaim \in Claims /\ claim = [NoClaim EXCEPT !.init = env.init] /\ seen = claim
    BY NothingTyped, Zenon DEF Init
  <2>2. claim \in Claims
    BY <1>1, <2>1, Zenon DEF Claims
  <2>3. claim.phase = NoClaim.phase /\ claim.ep = NoClaim.ep
    BY <2>1, Zenon DEF Claims
  <2> QED BY <2>1, <2>2, <2>3, Zenon DEF NoClaim
<1>3. node \in Nodes /\ nseen \in Nodes
  <2>1. /\ node = [exists |-> TRUE, taint |-> FALSE, fenceAge |-> 0, label |-> (env.init = "True"), boot |-> 1,
                   ready |-> (env.init = "True")]
        /\ nseen = node
    BY Zenon DEF Init
  <2> QED BY <2>1, AgesTyped DEF Nodes, NoBoot
<1>4. /\ past = [calls |-> {}, commits |-> 0, boot |-> 0, lost |-> FALSE, lagged |-> FALSE, rejoined |-> FALSE]
      /\ machine = [accepted |-> {}, due |-> FALSE, refuses |-> FALSE]
      /\ rec = IdleRec /\ life = IdleLife /\ repair = IdlePass /\ pods = env.pods
      /\ started = None /\ history = 0 /\ stale = {}
  BY Zenon DEF Init
<1>5. /\ past \in [calls : SUBSET Operations, commits : Nat, boot : Nat, lost : BOOLEAN, lagged : BOOLEAN,
                   rejoined : BOOLEAN]
      /\ past.calls = {} /\ past.commits = 0
  BY <1>4
<1>6. TypeOK
  <2>1. history \in 0..rebootsBeforeReplacement
    BY <1>4, RebootAssumption
  <2>2. machine \in [accepted : SUBSET Operations, due : BOOLEAN, refuses : BOOLEAN]
    BY <1>4, Zenon
  <2> QED BY <1>1, <1>2, <1>3, <1>4, <1>5, <2>1, <2>2, NothingTyped, Zenon DEF TypeOK
<1>7. /\ rec.pc = "idle" /\ rec.c.ep = 0 /\ repair.pc = "idle"
      /\ life.c.phase = "none" /\ life.c.ep = 0
  BY <1>4, Idle, Zenon DEF IdleLife, IdlePass, NoClaim
<1>8. CopyInv
  BY <1>2, <1>7, Zenon DEF CopyInv, RebootInProgress
<1>9. RequestInv
  <2>1. 0 \in 0..past.commits
    BY <1>5
  <2> QED BY <1>2, <1>5, <1>7, <2>1, Zenon DEF RequestInv
<1>10. EndingInv /\ IssuingInv /\ OneOperationPerRequest /\ OperationInv
  BY <1>2, <1>5, <1>7, Zenon DEF EndingInv, Ending, IssuingInv, Issuing, OneOperationPerRequest, OperationInv, Open
<1> QED BY <1>6, <1>8, <1>9, <1>10, Zenon DEF RebootInv, Safe

(* Every step keeps it. *)
LEMMA StepHolds == RebootInv /\ [Next]_vars => RebootInv'
<1> SUFFICES ASSUME TypeOK, Safe, [Next]_vars PROVE TypeOK' /\ Safe'
  BY Zenon DEF RebootInv
<1>1. CASE UNCHANGED vars
  <2>1. UNCHANGED <<claim, seen, stale, node, nseen, pods, machine, rec, life, repair, started, history, past, env>>
    BY <1>1 DEF vars
  <2>2. SameWorld
    BY <2>1, Zenon DEF SameWorld, SamePast
  <2> QED BY <2>1, <2>2, SafeBeside, Zenon DEF TypeOK
<1>2. CASE Reconcile
  BY <1>2, ReadsSafe, BesideSafe, TaintSafe, DrainSafe, RecordSafe, CallSafe, IssuedAtSafe, IssuedSafe, LabelSafe,
     FenceSafe, ClearSafe, TerminalSafe, ReplacementSafe, Zenon DEF Reconcile
<1>3. CASE Repair
  BY <1>3, PassSafe, BoundSafe, CommitSafe, EscalateSafe, Zenon DEF Repair
<1>4. CASE Lifecycle
  BY <1>4, InitializationSafe, BesideSafe, PatchSafe, Zenon DEF Lifecycle
<1>5. CASE Environment
  BY <1>5, BootSafe, BesideSafe, EditSafe, RestartSafe, Zenon DEF Environment
<1>6. CASE ReconcileFails \/ DeliverClaim \/ DeliverNode \/ Tick
  BY <1>6, FailsSafe, DeliverSafe, BesideSafe, TickSafe, Zenon
<1> QED BY <1>1, <1>2, <1>3, <1>4, <1>5, <1>6, Zenon DEF Next

(* The copies of the claim that lead to a provider call agree on the         *)
(* operation, whatever the informers, the patches without a lock, the        *)
(* restarts and the machine do.                                              *)
THEOREM RebootInvariant == Spec => []RebootInv
BY InitHolds, StepHolds, PTL DEF Spec

(* All calls of Reboot for one request have the same operation ID, for any   *)
(* number of requests, failed calls, restarts, edits and vanished Nodes and  *)
(* any durations (reconcileRequested, recordIssuingState, issueReboot and    *)
(* rebootOperationID), unless the status patch of nodeclaim.lifecycle erased *)
(* a request or a boot ID was recorded from a copy of the Node older than    *)
(* its last boot.                                                            *)
THEOREM OneOperationAlways == Spec => []OneOperationPerRequest
<1>1. RebootInv => OneOperationPerRequest
  BY Zenon DEF RebootInv, Safe
<1> QED BY <1>1, RebootInvariant, PTL
=============================================================================
