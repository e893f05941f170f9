---------------------- MODULE NodeClaimLifecycleProofs ----------------------
(***************************************************************************)
(* The instance of a NodeClaim, for any number of instances and Nodes and  *)
(* any scenario: it is launched once and gone before the claim is.         *)
(***************************************************************************)
EXTENDS NodeClaimLifecycle, TLAPS

Populated  == {"register", "initialize", "liveness", "patch"}   \* between Launch and the patch
Finalizing == {"fAnnotate", "fNodes", "fDelete", "fStatus", "fFinalizer"}

(* Copy o of the claim may be older than c: an instance once recorded stays, *)
(* as do the deletion timestamp and, up to the removal, the finalizer.       *)
Earlier(o, c) ==
    /\ o.launched <=> o.pid # None
    /\ o.pid # None => o.pid = c.pid
    /\ o.deleting => c.deleting
    /\ o.fin => c.fin \/ c.phase = "gone"
    /\ o.phase = "gone" => c.phase = "gone"

(* The claim and the cache.  A launch that the cache does not show yet is in *)
(* Launch.cache.                                                             *)
ClaimInv ==
    /\ claim.phase \in {"exists", "gone"}
    /\ claim.launched <=> claim.pid # None
    /\ Earlier(seen, claim)
    /\ seen.phase = "exists" /\ seen.fin /\ ~seen.deleting => claim.phase = "exists"
    /\ claim.launched /\ ~seen.launched => cache = claim.pid
    /\ claim.launched => cache \in {None, claim.pid}

(* The reconcile of nodeclaim.lifecycle before and after it launched. *)
LaunchInv ==
    /\ lc.pc \in Populated \cup {"launch"} => claim.fin /\ claim.phase = "exists"
    /\ lc.pc = "launch" /\ claim.launched /\ ~lc.obj.launched => cache = claim.pid
    /\ lc.pc \in {"finalizer", "launch"} => lc.obj = lc.base
    /\ lc.pc \in Populated =>
          /\ lc.obj.launched <=> lc.obj.pid # None
          /\ claim.launched => lc.obj.pid = claim.pid
          /\ ~claim.launched /\ lc.obj.launched => lc.obj.pid = cache

(* Its copy, and what finalize knows of the instance. *)
CopyInv ==
    /\ lc.pc \notin {"idle", "sleep"} =>
          /\ Earlier(lc.base, claim) /\ lc.base.phase = "exists"
          /\ lc.base.pid # None => seen.pid = lc.base.pid
    /\ lc.pc \in Finalizing =>
          /\ lc.obj = [lc.base EXCEPT !.term = lc.obj.term]
          /\ seen.deleting /\ lc.base.deleting
    /\ lc.pc = "fStatus" => lc.obj.pid # None /\ (~lc.again => inst[lc.obj.pid] = "gone")
    /\ lc.pc = "fFinalizer" /\ lc.obj.pid # None => inst[lc.obj.pid] = "gone"

(* node.termination changes two conditions of its copy. *)
TerminationInv ==
    \A n \in Nodes :
        /\ nt[n].obj = [nt[n].base EXCEPT !.drained = nt[n].obj.drained, !.term = nt[n].obj.term]
        /\ nt[n].obj.pid # None => nt[n].obj.pid = claim.pid

(* Every instance is recorded, in Launch.cache or in the running reconcile. *)
InstanceInv ==
    /\ \A i \in Instances : inst[i] # "none" => claim.fin \/ claim.phase = "gone"
    /\ \A i \in Instances : inst[i] = "terminating" => claim.pid = i
    /\ ~env.forgot => \A i \in Instances : inst[i] # "none" => claim.pid = i \/ cache = i
    /\ ~env.lost => \A i \in Instances : inst[i] \in {"running", "terminating"} =>
          claim.phase = "exists" /\ (claim.pid = i \/ (lc.pc \in Populated /\ lc.obj.pid = i))

CoreInv == ClaimInv /\ LaunchInv /\ CopyInv /\ InstanceInv
LifecycleInv == TypeOK /\ CoreInv /\ TerminationInv

-----------------------------------------------------------------------------
(* Type correctness *)

(* The copies of the claim that a step takes or changes are of its type. *)
LEMMA ClaimTypes ==
    /\ NewClaim \in Claims
    /\ \A o \in Claims : Deleted(o) \in Claims
    /\ \A o \in Claims : \A b \in BOOLEAN :
          /\ [o EXCEPT !.fin = b] \in Claims /\ [o EXCEPT !.fin = b, !.phase = "gone"] \in Claims
          /\ [o EXCEPT !.ann = b] \in Claims /\ [o EXCEPT !.init = b] \in Claims
          /\ [o EXCEPT !.term = b] \in Claims
    /\ \A o \in Claims : \A r \in {"Unknown", "True", "False"} : [o EXCEPT !.reg = r] \in Claims
    /\ \A o \in Claims : \A d \in {"nil", "Unknown", "True"} : [o EXCEPT !.drained = d] \in Claims
    /\ \A o \in Claims : \A i \in Instances : [o EXCEPT !.pid = i, !.launched = TRUE] \in Claims
  <1>1. NewClaim \in Claims
    BY DEF Claims, NewClaim
  <1>2. ASSUME NEW o \in Claims PROVE Deleted(o) \in Claims
    BY Zenon DEF Claims, Deleted
  <1>3. ASSUME NEW o \in Claims, NEW b \in BOOLEAN
        PROVE  /\ [o EXCEPT !.fin = b] \in Claims /\ [o EXCEPT !.fin = b, !.phase = "gone"] \in Claims
               /\ [o EXCEPT !.ann = b] \in Claims /\ [o EXCEPT !.init = b] \in Claims
               /\ [o EXCEPT !.term = b] \in Claims
    BY Zenon DEF Claims
  <1>4. ASSUME NEW o \in Claims, NEW r \in {"Unknown", "True", "False"} PROVE [o EXCEPT !.reg = r] \in Claims
    BY DEF Claims
  <1>5. ASSUME NEW o \in Claims, NEW d \in {"nil", "Unknown", "True"} PROVE [o EXCEPT !.drained = d] \in Claims
    BY DEF Claims
  <1>6. ASSUME NEW o \in Claims, NEW i \in Instances PROVE [o EXCEPT !.pid = i, !.launched = TRUE] \in Claims
    BY Zenon DEF Claims
  <1> QED BY <1>1, <1>2, <1>3, <1>4, <1>5, <1>6, Zenon

LEMMA NodeTypes ==
    /\ NewNode \in NodeObjs
    /\ \A o \in NodeObjs : Deleted(o) \in NodeObjs
    /\ \A i \in Instances : [NewNode EXCEPT !.phase = "exists", !.inst = i] \in NodeObjs
    /\ \A o \in NodeObjs : \A b \in BOOLEAN :
          /\ [o EXCEPT !.fin = TRUE, !.reg = b] \in NodeObjs /\ [o EXCEPT !.init = b] \in NodeObjs
          /\ [o EXCEPT !.ready = b] \in NodeObjs /\ [o EXCEPT !.taint = b] \in NodeObjs
          /\ [o EXCEPT !.settled = b] \in NodeObjs /\ [o EXCEPT !.pod = b] \in NodeObjs
          /\ [o EXCEPT !.vol = b] \in NodeObjs /\ [o EXCEPT !.pod = TRUE, !.vol = b] \in NodeObjs
          /\ [o EXCEPT !.fin = FALSE, !.phase = "gone"] \in NodeObjs
  <1>1. NewNode \in NodeObjs /\ \A i \in Instances : [NewNode EXCEPT !.phase = "exists", !.inst = i] \in NodeObjs
    BY Zenon DEF NodeObjs, NewNode
  <1>2. ASSUME NEW o \in NodeObjs PROVE Deleted(o) \in NodeObjs
    BY Zenon DEF NodeObjs, Deleted
  <1>3. ASSUME NEW o \in NodeObjs, NEW b \in BOOLEAN
        PROVE  /\ [o EXCEPT !.fin = TRUE, !.reg = b] \in NodeObjs /\ [o EXCEPT !.init = b] \in NodeObjs
               /\ [o EXCEPT !.ready = b] \in NodeObjs /\ [o EXCEPT !.taint = b] \in NodeObjs
               /\ [o EXCEPT !.settled = b] \in NodeObjs
    BY Zenon DEF NodeObjs
  <1>4. ASSUME NEW o \in NodeObjs, NEW b \in BOOLEAN
        PROVE  /\ [o EXCEPT !.pod = b] \in NodeObjs /\ [o EXCEPT !.vol = b] \in NodeObjs
               /\ [o EXCEPT !.pod = TRUE, !.vol = b] \in NodeObjs
               /\ [o EXCEPT !.fin = FALSE, !.phase = "gone"] \in NodeObjs
    BY Zenon DEF NodeObjs
  <1> QED BY <1>1, <1>2, <1>3, <1>4, Zenon

(* What a step makes of the running reconciles. *)
LEMMA RecTypes ==
    /\ NoLc \in LcRecs /\ NoNt \in NtRecs
    /\ \A r \in LcRecs : \A p \in LcPcs : [r EXCEPT !.pc = p] \in LcRecs
    /\ \A r \in NtRecs : \A p \in NtPcs : [r EXCEPT !.pc = p] \in NtRecs
  BY ClaimTypes, ZenonT(60) DEF LcRecs, NtRecs, NoLc, NoNt, LcPcs, NtPcs

(* The copy and the requeue of a running reconcile change with its step. *)
LEMMA CopyTypes ==
    /\ \A r \in LcRecs : \A p \in LcPcs : \A a \in BOOLEAN : [r EXCEPT !.pc = p, !.again = a] \in LcRecs
    /\ \A r \in LcRecs : \A p \in LcPcs : \A o \in Claims :
          [r EXCEPT !.pc = p, !.obj = o, !.base = o] \in LcRecs /\ [r EXCEPT !.pc = p, !.base = o] \in LcRecs
    /\ \A r \in NtRecs : \A p \in NtPcs : \A a \in BOOLEAN : [r EXCEPT !.pc = p, !.again = a] \in NtRecs
    /\ \A r \in NtRecs : \A p \in NtPcs : \A o \in Claims : \A a \in BOOLEAN :
          /\ [r EXCEPT !.obj = o, !.again = a, !.pc = p] \in NtRecs
          /\ [r EXCEPT !.pc = p, !.obj = o, !.again = a] \in NtRecs
  BY Zenon DEF LcRecs, NtRecs

(* The bounds of the scenario count down. *)
LEMMA EnvTypes ==
    \A e \in Envs : \A b \in BOOLEAN :
        /\ e.launches > 0 => [e EXCEPT !.launches = @ - 1] \in Envs
        /\ e.launchErrors > 0 => [e EXCEPT !.launchErrors = @ - 1] \in Envs
        /\ e.patchErrors > 0 => [e EXCEPT !.patchErrors = @ - 1] \in Envs
        /\ e.patchErrors > 0 => [e EXCEPT !.patchErrors = @ - 1, !.lost = @ \/ b] \in Envs
        /\ e.deletes > 0 => [e EXCEPT !.deletes = @ - 1] \in Envs
        /\ e.pods > 0 => [e EXCEPT !.pods = @ - 1] \in Envs
        /\ \A c \in BOOLEAN : 
              e.restarts > 0 => [e EXCEPT !.restarts = @ - 1, !.lost = @ \/ b, !.forgot = @ \/ c] \in Envs
  <1> SUFFICES ASSUME NEW e \in Envs, NEW b \in BOOLEAN, NEW c \in BOOLEAN
               PROVE  /\ e.launches > 0 => [e EXCEPT !.launches = @ - 1] \in Envs
                      /\ e.launchErrors > 0 => [e EXCEPT !.launchErrors = @ - 1] \in Envs
                      /\ e.patchErrors > 0 => [e EXCEPT !.patchErrors = @ - 1] \in Envs
                      /\ e.patchErrors > 0 => [e EXCEPT !.patchErrors = @ - 1, !.lost = @ \/ b] \in Envs
                      /\ e.deletes > 0 => [e EXCEPT !.deletes = @ - 1] \in Envs
                      /\ e.pods > 0 => [e EXCEPT !.pods = @ - 1] \in Envs
                      /\ e.restarts > 0 =>
                            [e EXCEPT !.restarts = @ - 1, !.lost = @ \/ b, !.forgot = @ \/ c] \in Envs
    BY ZenonT(60)
  <1>1. \A k \in Nat : k > 0 => k - 1 \in Nat
    OBVIOUS
  <1>2. e.launches > 0 => [e EXCEPT !.launches = @ - 1] \in Envs
    BY <1>1, Zenon DEF Envs
  <1>3. e.launchErrors > 0 => [e EXCEPT !.launchErrors = @ - 1] \in Envs
    BY <1>1, Zenon DEF Envs
  <1>4. e.patchErrors > 0 => [e EXCEPT !.patchErrors = @ - 1] \in Envs
    BY <1>1, Zenon DEF Envs
  <1>5. e.patchErrors > 0 => [e EXCEPT !.patchErrors = @ - 1, !.lost = @ \/ b] \in Envs
    BY <1>1, Zenon DEF Envs
  <1>6. e.deletes > 0 => [e EXCEPT !.deletes = @ - 1] \in Envs
    BY <1>1, Zenon DEF Envs
  <1>7. e.pods > 0 => [e EXCEPT !.pods = @ - 1] \in Envs
    BY <1>1, Zenon DEF Envs
  <1>8. e.restarts > 0 => [e EXCEPT !.restarts = @ - 1, !.lost = @ \/ b, !.forgot = @ \/ c] \in Envs
    BY <1>1, Zenon DEF Envs
  <1> QED BY <1>2, <1>3, <1>4, <1>5, <1>6, <1>7, <1>8, Zenon

(* The first half of a reconcile of nodeclaim.lifecycle. *)
LEMMA LaunchTypes ==
    ASSUME TypeOK,
           \/ LcRead \/ LcAddFinalizer \/ LaunchKnown \/ LaunchCached \/ LaunchFails
           \/ \E i \in Instances : LaunchCreate(i)
    PROVE  TypeOK'
  <1>0. claim \in Claims /\ seen \in Claims /\ lc \in LcRecs /\ env \in Envs /\ lc.obj \in Claims /\ wake \in BOOLEAN
    BY Zenon DEF TypeOK, LcRecs
  <1>1. CASE LcRead
    <2>1. lc' \in LcRecs
      BY <1>0, <1>1, RecTypes, Zenon DEF LcRead, LcRecs, LcPcs
    <2> QED BY <1>1, <2>1, Zenon DEF TypeOK, LcRead
  <1>2. CASE LcAddFinalizer
    <2>1. claim' \in Claims
      BY <1>0, <1>2, ClaimTypes, Zenon DEF LcAddFinalizer
    <2>2. lc' \in LcRecs
      <3>1. [lc EXCEPT !.pc = "launch", !.obj = claim', !.base = claim'] \in LcRecs
        BY <1>0, <2>1, CopyTypes, Zenon DEF LcPcs
      <3> QED BY <1>2, <3>1, RecTypes, Zenon DEF LcAddFinalizer, Finish
    <2>3. wake' \in BOOLEAN
      BY <1>0, <1>2, Zenon DEF LcAddFinalizer, Finish, Exists
    <2> QED BY <1>2, <2>1, <2>2, <2>3, Zenon DEF TypeOK, LcAddFinalizer
  <1>3. CASE LaunchKnown
    <2>1. lc' \in LcRecs
      BY <1>0, <1>3, RecTypes, Zenon DEF LaunchKnown, LcPcs, GoTo
    <2> QED BY <1>3, <2>1, Zenon DEF TypeOK, LaunchKnown, GoTo
  <1>4. CASE LaunchCached
    <2>1. lc' \in LcRecs
      BY <1>0, <1>4, Zenon DEF TypeOK, LaunchCached, PopulateNodeClaimDetails, LcRecs, LcPcs, Claims
    <2> QED BY <1>4, <2>1, Zenon DEF TypeOK, LaunchCached
  <1>5. CASE LaunchFails
    <2>1. claim' \in Claims
      BY <1>0, <1>5, ClaimTypes, Zenon DEF LaunchFails, DeleteClaimObj
    <2>2. lc' \in LcRecs /\ UNCHANGED wake
      <3>1. [lc EXCEPT !.pc = "register"] \in LcRecs /\ [lc EXCEPT !.pc = "register", !.again = TRUE] \in LcRecs
        BY <1>0, RecTypes, CopyTypes, Zenon DEF LcPcs
      <3> QED BY <1>5, <3>1, Zenon DEF LaunchFails, GoTo
    <2>3. env' \in Envs
      BY <1>0, <1>5, EnvTypes, Zenon DEF LaunchFails
    <2> QED BY <1>5, <2>1, <2>2, <2>3, Zenon DEF TypeOK, LaunchFails
  <1>6. ASSUME NEW i \in Instances, LaunchCreate(i) PROVE TypeOK'
    <2>1. lc' \in LcRecs
      BY <1>0, <1>6, Zenon DEF LaunchCreate, PopulateNodeClaimDetails, LcRecs, LcPcs, Claims
    <2>2. env' \in Envs
      BY <1>0, <1>6, EnvTypes, Zenon DEF LaunchCreate
    <2>3. inst' \in [Instances -> {"none", "running", "terminating", "gone"}]
      BY <1>6, Zenon DEF LaunchCreate, TypeOK
    <2> QED BY <1>6, <2>1, <2>2, <2>3, Zenon DEF TypeOK, LaunchCreate
  <1> QED BY <1>1, <1>2, <1>3, <1>4, <1>5, <1>6, Zenon

(* A change of a Node wakes controllers. *)
LEMMA NodeEventTypes ==
    ASSUME TypeOK, NEW n \in Nodes, NodeEvent(n)
    PROVE  wake' \in BOOLEAN /\ nwake' \in SUBSET Nodes
  BY Zenon DEF TypeOK, NodeEvent

(* Registration, initialization, liveness and the patch. *)
LEMMA RegistrationTypes ==
    ASSUME TypeOK,
           \/ SkipRegistration \/ RegisterDuplicate \/ SkipInitialization \/ Liveness \/ LcCallFails
           \/ \E n \in Nodes : RegisterNode(n) \/ InitializeNode(n)
    PROVE  TypeOK'
  <1>0. claim \in Claims /\ seen \in Claims /\ lc \in LcRecs /\ env \in Envs /\ lc.obj \in Claims
    BY Zenon DEF TypeOK, LcRecs
  <1>1. CASE SkipRegistration \/ SkipInitialization
    <2>1. lc' \in LcRecs
      BY <1>0, <1>1, RecTypes, Zenon DEF SkipRegistration, SkipInitialization, LcPcs, GoTo
    <2> QED BY <1>1, <2>1, Zenon DEF TypeOK, SkipRegistration, SkipInitialization, GoTo
  <1>2. CASE RegisterDuplicate
    <2>0. [lc.obj EXCEPT !.reg = "False"] \in Claims
      BY <1>0, ClaimTypes, Zenon
    <2>1. lc' \in LcRecs
      BY <1>0, <1>2, <2>0, ZenonT(60) DEF RegisterDuplicate, LcRecs, LcPcs
    <2> QED BY <1>2, <2>1, Zenon DEF TypeOK, RegisterDuplicate
  <1>3. CASE Liveness
    <2>1. claim' \in Claims
      BY <1>0, <1>3, ClaimTypes, Zenon DEF Liveness, DeleteClaimObj
    <2>2. lc' \in LcRecs /\ UNCHANGED wake
      BY <1>0, <1>3, RecTypes, Zenon DEF Liveness, LcPcs, GoTo
    <2> QED BY <1>3, <2>1, <2>2, Zenon DEF TypeOK, Liveness
  <1>4. CASE LcCallFails
    <2>1. lc' \in LcRecs
      BY <1>0, <1>4, CopyTypes, Zenon DEF LcCallFails, LcPcs
    <2>2. env' \in Envs
      BY <1>0, <1>4, EnvTypes, Zenon DEF LcCallFails
    <2> QED BY <1>4, <2>1, <2>2, Zenon DEF TypeOK, LcCallFails
  <1>5. ASSUME NEW n \in Nodes, RegisterNode(n) PROVE TypeOK'
    <2>1. PICK hooks \in BOOLEAN :
             /\ nodes' = [nodes EXCEPT ![n].fin = TRUE, ![n].reg = hooks]
             /\ lc' = [lc EXCEPT !.pc = "initialize", !.obj.reg = IF hooks THEN "True" ELSE @,
                                 !.again = @ \/ ~hooks]
      BY <1>5, Zenon DEF RegisterNode, HookResults
    <2>2. lc' \in LcRecs
      <3>1. lc' = [pc |-> "initialize", obj |-> [lc.obj EXCEPT !.reg = IF hooks THEN "True" ELSE @],
                   base |-> lc.base, again |-> lc.again \/ ~hooks]
        BY <1>0, <2>1, Zenon DEF LcRecs
      <3>2. lc.obj.reg \in {"Unknown", "True", "False"}
        BY <1>0, Zenon DEF Claims
      <3>3. [lc.obj EXCEPT !.reg = IF hooks THEN "True" ELSE @] \in Claims
        BY <1>0, <3>2, ClaimTypes, Zenon
      <3> QED BY <1>0, <3>1, <3>3, Zenon DEF LcRecs, LcPcs
    <2>3. nodes' \in [Nodes -> NodeObjs]
      <3>1. nodes \in [Nodes -> NodeObjs] /\ [nodes[n] EXCEPT !.fin = TRUE, !.reg = hooks] \in NodeObjs
        BY NodeTypes, Zenon DEF TypeOK
      <3>2. nodes' = [nodes EXCEPT ![n] = [nodes[n] EXCEPT !.fin = TRUE, !.reg = hooks]]
        BY <2>1, <3>1, Zenon
      <3> QED BY <3>1, <3>2, Zenon
    <2>4. wake' \in BOOLEAN /\ nwake' \in SUBSET Nodes
      BY <1>5, NodeEventTypes, Zenon DEF RegisterNode
    <2> QED BY <1>5, <2>2, <2>3, <2>4, Zenon DEF TypeOK, RegisterNode
  <1>6. ASSUME NEW n \in Nodes, InitializeNode(n) PROVE TypeOK'
    <2>1. lc' \in LcRecs
      BY <1>0, <1>6, Zenon DEF InitializeNode, LcRecs, LcPcs, Claims
    <2>2. nodes' \in [Nodes -> NodeObjs]
      <3>1. nodes \in [Nodes -> NodeObjs] /\ [nodes[n] EXCEPT !.init = TRUE] \in NodeObjs
        BY NodeTypes, Zenon DEF TypeOK
      <3> QED BY <1>6, <3>1, Zenon DEF InitializeNode
    <2>3. wake' \in BOOLEAN /\ nwake' \in SUBSET Nodes
      BY <1>6, NodeEventTypes, Zenon DEF InitializeNode
    <2> QED BY <1>6, <2>1, <2>2, <2>3, Zenon DEF TypeOK, InitializeNode
  <1> QED BY <1>1, <1>2, <1>3, <1>4, <1>5, <1>6, Zenon

LEMMA PatchTypes ==
    ASSUME TypeOK, LcPatch \/ LcSleepEnds \/ LcPatchFails \/ LcNothingToPatch
    PROVE  TypeOK'
  <1>0. claim \in Claims /\ lc \in LcRecs /\ env \in Envs /\ lc.obj \in Claims /\ lc.again \in BOOLEAN /\ wake \in BOOLEAN
    BY Zenon DEF TypeOK, LcRecs
  <1>1. ASSUME NEW w \in BOOLEAN, Finish(w) PROVE lc' \in LcRecs /\ wake' \in BOOLEAN
    BY <1>0, <1>1, RecTypes, Zenon DEF Finish
  <1>2. CASE LcPatch
    <2>1. Patched \in Claims
      BY <1>0, ZenonT(60) DEF Patched, Claims
    <2>2. claim' \in Claims
      BY <1>0, <1>2, <2>1, Zenon DEF LcPatch
    <2>3. lc' \in LcRecs
      BY <1>0, <1>2, <1>1, RecTypes, Zenon DEF LcPatch, LcPcs
    <2>4. wake' \in BOOLEAN
      BY <1>0, <1>1, <1>2, Zenon DEF LcPatch
    <2> QED BY <1>2, <2>2, <2>3, <2>4, Zenon DEF TypeOK, LcPatch
  <1>3. CASE LcSleepEnds \/ LcNothingToPatch
    <2>1. lc' \in LcRecs /\ wake' \in BOOLEAN
      BY <1>0, <1>1, <1>3, Zenon DEF LcSleepEnds, LcNothingToPatch
    <2> QED BY <1>3, <2>1, Zenon DEF TypeOK, LcSleepEnds, LcNothingToPatch
  <1>4. CASE LcPatchFails
    <2>1. lc' \in LcRecs /\ wake' \in BOOLEAN
      BY <1>1, <1>4, Zenon DEF LcPatchFails
    <2>2. env' \in Envs
      BY <1>0, <1>4, EnvTypes, Zenon DEF LcPatchFails, Unrecorded
    <2> QED BY <1>4, <2>1, <2>2, Zenon DEF TypeOK, LcPatchFails
  <1> QED BY <1>2, <1>3, <1>4, Zenon

(* finalize *)
LEMMA FinalizeTypes ==
    ASSUME TypeOK,
           \/ FinalizeAnnotate \/ FinalizeNodes \/ FinalizeDelete \/ FinalizeDeleteFails
           \/ FinalizeStatus \/ FinalizeRemove
    PROVE  TypeOK'
  <1>0. /\ claim \in Claims /\ lc \in LcRecs /\ env \in Envs /\ wake \in BOOLEAN
        /\ lc.obj \in Claims /\ lc.again \in BOOLEAN /\ nodes \in [Nodes -> NodeObjs]
    BY Zenon DEF TypeOK, LcRecs
  <1>1. ASSUME NEW w \in BOOLEAN, Finish(w) PROVE lc' \in LcRecs /\ wake' \in BOOLEAN
    BY <1>0, <1>1, RecTypes, Zenon DEF Finish
  <1>2. ASSUME NEW p \in LcPcs, GoTo(p) PROVE lc' \in LcRecs /\ wake' \in BOOLEAN
    BY <1>0, <1>2, RecTypes, Zenon DEF GoTo
  <1>3. CASE FinalizeAnnotate
    <2>1. claim' \in Claims
      BY <1>0, <1>3, ClaimTypes, Zenon DEF FinalizeAnnotate
    <2>2. [lc EXCEPT !.pc = "fNodes", !.obj = claim', !.base = claim'] \in LcRecs
      BY <1>0, <2>1, CopyTypes, Zenon DEF LcPcs
    <2>3. lc' \in LcRecs /\ wake' \in BOOLEAN
      BY <1>0, <1>1, <1>2, <1>3, <2>2, Zenon DEF FinalizeAnnotate, LcPcs
    <2> QED BY <1>3, <2>1, <2>3, Zenon DEF TypeOK, FinalizeAnnotate
  <1>4. CASE FinalizeNodes
    <2>0. \A n \in Nodes : nodes[n] \in NodeObjs /\ Deleted(nodes[n]) \in NodeObjs
      BY <1>0, NodeTypes, Zenon
    <2>1. nodes' \in [Nodes -> NodeObjs] /\ nwake' \in SUBSET Nodes
      <3>1. nodes' \in [Nodes -> NodeObjs]
        BY <1>4, <2>0, Zenon DEF FinalizeNodes
      <3>2. nwake' \in SUBSET Nodes
        BY <1>4, Zenon DEF FinalizeNodes, TypeOK, NodesOf
      <3> QED BY <3>1, <3>2
    <2>2. lc' \in LcRecs /\ wake' \in BOOLEAN
      BY <1>1, <1>2, <1>4, Zenon DEF FinalizeNodes, LcPcs
    <2> QED BY <1>4, <2>1, <2>2, Zenon DEF TypeOK, FinalizeNodes
  <1>5. CASE FinalizeDelete
    <2>1. inst' \in [Instances -> {"none", "running", "terminating", "gone"}]
      BY <1>5, Zenon DEF FinalizeDelete, CloudDelete, TypeOK
    <2>2. lc' \in LcRecs /\ wake' \in BOOLEAN
      <3>1. CASE GoTo("fFinalizer")
        BY <1>2, <3>1, Zenon DEF LcPcs
      <3>2. CASE lc' = [lc EXCEPT !.pc = "fStatus", !.obj.term = TRUE, !.again = ~NotFound(lc.obj.pid)] /\ UNCHANGED wake
        <4>1. lc' = [pc |-> "fStatus", obj |-> [lc.obj EXCEPT !.term = TRUE], base |-> lc.base,
                     again |-> ~NotFound(lc.obj.pid)]
          BY <1>0, <3>2, Zenon DEF LcRecs
        <4>2. [lc.obj EXCEPT !.term = TRUE] \in Claims
          BY <1>0, ClaimTypes, Zenon
        <4> QED BY <1>0, <3>2, <4>1, <4>2, Zenon DEF LcRecs, LcPcs, NotFound
      <3> QED BY <1>5, <3>1, <3>2, Zenon DEF FinalizeDelete
    <2> QED BY <1>5, <2>1, <2>2, Zenon DEF TypeOK, FinalizeDelete
  <1>6. CASE FinalizeDeleteFails
    <2>1. lc' \in LcRecs /\ wake' \in BOOLEAN
      BY <1>1, <1>6, Zenon DEF FinalizeDeleteFails
    <2>2. env' \in Envs
      BY <1>0, <1>6, EnvTypes, Zenon DEF FinalizeDeleteFails
    <2> QED BY <1>6, <2>1, <2>2, Zenon DEF TypeOK, FinalizeDeleteFails
  <1>7. CASE FinalizeStatus
    <2>1. claim' \in Claims
      BY <1>0, <1>7, Zenon DEF FinalizeStatus
    <2>2. [lc EXCEPT !.pc = "fFinalizer", !.base = claim'] \in LcRecs
      BY <1>0, <2>1, CopyTypes, Zenon DEF LcPcs
    <2>3. lc' \in LcRecs /\ wake' \in BOOLEAN
      BY <1>0, <1>1, <1>2, <1>7, <2>2, Zenon DEF FinalizeStatus, LcPcs
    <2> QED BY <1>7, <2>1, <2>3, Zenon DEF TypeOK, FinalizeStatus
  <1>8. CASE FinalizeRemove
    <2>1. claim' \in Claims
      BY <1>0, <1>8, ClaimTypes, Zenon DEF FinalizeRemove
    <2>2. lc' \in LcRecs /\ wake' \in BOOLEAN
      BY <1>1, <1>8, Zenon DEF FinalizeRemove, Exists
    <2> QED BY <1>8, <2>1, <2>2, Zenon DEF TypeOK, FinalizeRemove
  <1> QED BY <1>3, <1>4, <1>5, <1>6, <1>7, <1>8, Zenon

(* node.termination *)
LEMMA TerminationTypes ==
    ASSUME TypeOK, NEW n \in Nodes, TerminationStep(n) \/ NtFails(n)
    PROVE  TypeOK'
  <1>0. /\ claim \in Claims /\ seen \in Claims /\ env \in Envs /\ nodes \in [Nodes -> NodeObjs]
        /\ nodes[n] \in NodeObjs /\ nt \in [Nodes -> NtRecs] /\ nt[n] \in NtRecs
        /\ nt[n].obj \in Claims /\ nt[n].base \in Claims /\ nwake \in SUBSET Nodes
    BY Zenon DEF TypeOK, NtRecs
  <1>1. ASSUME NEW w, NtFinish(n, w) PROVE nt' \in [Nodes -> NtRecs] /\ nwake' \in SUBSET Nodes
    BY <1>0, <1>1, RecTypes, Zenon DEF NtFinish
  <1>2. ASSUME NEW p \in NtPcs, NtGoTo(n, p) PROVE nt' \in [Nodes -> NtRecs] /\ nwake' \in SUBSET Nodes
    <2>1. [nt[n] EXCEPT !.pc = p] \in NtRecs
      BY <1>0, RecTypes, Zenon
    <2> QED BY <1>0, <1>2, <2>1, Zenon DEF NtGoTo
  <1>3. CASE NtRead(n)
    <2>1. nt' \in [Nodes -> NtRecs]
      BY <1>0, <1>3, RecTypes, ClaimTypes, Zenon DEF NtRead, NtRecs, NtPcs
    <2> QED BY <1>3, <2>1, Zenon DEF TypeOK, NtRead
  <1>4. CASE NtDeleteClaim(n)
    <2>1. claim' \in Claims
      BY <1>0, <1>4, ClaimTypes, Zenon DEF NtDeleteClaim, DeleteClaimObj
    <2>2. nt' \in [Nodes -> NtRecs] /\ nwake' \in SUBSET Nodes
      BY <1>2, <1>4, Zenon DEF NtDeleteClaim, NtPcs
    <2> QED BY <1>4, <2>1, <2>2, Zenon DEF TypeOK, NtDeleteClaim
  <1>5. CASE NtCheck(n)
    <2>1. nodes' \in [Nodes -> NodeObjs]
      <3>1. [nodes[n] EXCEPT !.taint = TRUE] \in NodeObjs
        BY <1>0, NodeTypes, Zenon
      <3> QED BY <1>0, <1>5, <3>1, Zenon DEF NtCheck, Taint
    <2>2. nt' \in [Nodes -> NtRecs]
      <3>1. [nt[n] EXCEPT !.pc = "drain"] \in NtRecs /\ [nt[n] EXCEPT !.pc = "remove"] \in NtRecs
        BY <1>0, RecTypes, Zenon DEF NtPcs
      <3> QED BY <1>0, <1>5, <3>1, Zenon DEF NtCheck, NtGoTo
    <2>3. wake' \in BOOLEAN /\ nwake' \in SUBSET Nodes
      BY <1>0, <1>5, NodeEventTypes, Zenon DEF NtCheck, NtGoTo, TypeOK
    <2> QED BY <1>5, <2>1, <2>2, <2>3, Zenon DEF TypeOK, NtCheck
  <1>6. CASE NtDrain(n)
    <2>1. ASSUME NEW o \in Claims PROVE [o EXCEPT !.drained = "Unknown"] \in Claims /\ [o EXCEPT !.drained = "True"] \in Claims
      BY ClaimTypes, Zenon
    <2>2. PICK o \in Claims, a \in BOOLEAN, p \in NtPcs :
             nt' = [nt EXCEPT ![n].obj = o, ![n].again = a, ![n].pc = p]
      BY <1>0, <1>6, <2>1, Zenon DEF NtDrain, NtPcs
    <2>3. nt' = [nt EXCEPT ![n] = [nt[n] EXCEPT !.obj = o, !.again = a, !.pc = p]]
      BY <1>0, <2>2, Zenon
    <2>4. nt' \in [Nodes -> NtRecs]
      <3>1. [nt[n] EXCEPT !.obj = o, !.again = a, !.pc = p] \in NtRecs
        BY <1>0, CopyTypes, Zenon
      <3> QED BY <1>0, <2>3, <3>1, Zenon
    <2> QED BY <1>6, <2>4, Zenon DEF TypeOK, NtDrain
  <1>7. CASE NtTerminate(n)
    <2>1. inst' \in [Instances -> {"none", "running", "terminating", "gone"}]
      BY <1>7, Zenon DEF NtTerminate, CloudDelete, TypeOK
    <2>2. nt' \in [Nodes -> NtRecs]
      <3>1. [nt[n] EXCEPT !.pc = "status", !.again = TRUE] \in NtRecs /\ [nt[n] EXCEPT !.pc = "status"] \in NtRecs
        BY <1>0, RecTypes, CopyTypes, Zenon DEF NtPcs
      <3>2. ASSUME nt' = [nt EXCEPT ![n].pc = "status", ![n].again = TRUE] PROVE nt' \in [Nodes -> NtRecs]
        <4>1. nt' = [nt EXCEPT ![n] = [nt[n] EXCEPT !.pc = "status", !.again = TRUE]]
          BY <1>0, <3>2, Zenon
        <4> QED BY <1>0, <3>1, <4>1, Zenon
      <3>3. ASSUME nt' = [nt EXCEPT ![n].pc = "status"] PROVE nt' \in [Nodes -> NtRecs]
        BY <1>0, <3>1, <3>3, Zenon
      <3>4. ASSUME nt' = [nt EXCEPT ![n].pc = "status", ![n].obj.term = TRUE, ![n].again = ~NotFound(nt[n].obj.pid)]
            PROVE  nt' \in [Nodes -> NtRecs]
        <4>1. nt' = [nt EXCEPT ![n] = [nt[n] EXCEPT !.pc = "status", !.obj = [nt[n].obj EXCEPT !.term = TRUE],
                                                    !.again = ~NotFound(nt[n].obj.pid)]]
          BY <1>0, <3>4, Zenon DEF NtRecs
        <4>2. [nt[n].obj EXCEPT !.term = TRUE] \in Claims
          BY <1>0, ClaimTypes, Zenon
        <4>3. [nt[n] EXCEPT !.pc = "status", !.obj = [nt[n].obj EXCEPT !.term = TRUE],
                            !.again = ~NotFound(nt[n].obj.pid)] \in NtRecs
          BY <1>0, <4>2, CopyTypes, Zenon DEF NtPcs, NotFound
        <4> QED BY <1>0, <4>1, <4>3, Zenon
      <3> QED BY <1>7, <3>2, <3>3, <3>4, Zenon DEF NtTerminate
    <2> QED BY <1>7, <2>1, <2>2, Zenon DEF TypeOK, NtTerminate
  <1>8. CASE NtStatus(n)
    <2>1. claim' \in Claims
      BY <1>0, <1>8, Zenon DEF NtStatus
    <2>2. nt' \in [Nodes -> NtRecs] /\ nwake' \in SUBSET Nodes
      BY <1>1, <1>2, <1>8, Zenon DEF NtStatus, NtPcs
    <2> QED BY <1>8, <2>1, <2>2, Zenon DEF TypeOK, NtStatus
  <1>9. CASE NtRemove(n)
    <2>1. nodes' \in [Nodes -> NodeObjs]
      <3>1. [nodes[n] EXCEPT !.fin = FALSE, !.phase = "gone"] \in NodeObjs
        BY <1>0, NodeTypes, Zenon
      <3>2. nodes' = [nodes EXCEPT ![n] = [nodes[n] EXCEPT !.fin = FALSE, !.phase = "gone"]]
        BY <1>0, <1>9, Zenon DEF NtRemove
      <3> QED BY <1>0, <3>1, <3>2, Zenon
    <2>2. nt' \in [Nodes -> NtRecs]
      BY <1>0, <1>9, RecTypes, Zenon DEF NtRemove
    <2>3. wake' \in BOOLEAN /\ nwake' \in SUBSET Nodes
      BY <1>9, NodeEventTypes, Zenon DEF NtRemove
    <2> QED BY <1>9, <2>1, <2>2, <2>3, Zenon DEF TypeOK, NtRemove
  <1>10. CASE NtFails(n)
    <2>1. nt' \in [Nodes -> NtRecs] /\ nwake' \in SUBSET Nodes
      BY <1>1, <1>10, Zenon DEF NtFails
    <2>2. env' \in Envs
      BY <1>0, <1>10, EnvTypes, Zenon DEF NtFails
    <2> QED BY <1>10, <2>1, <2>2, Zenon DEF TypeOK, NtFails
  <1> QED BY <1>3, <1>4, <1>5, <1>6, <1>7, <1>8, <1>9, <1>10, Zenon DEF TerminationStep

(* The kubelets, the scheduler, the cloud, the other controllers. *)
LEMMA WorldTypes ==
    ASSUME TypeOK,
           \/ \E n \in Nodes : WorldStep(n) \/ Disturbance(n)
           \/ \E i \in Instances : InstanceGone(i) \/ InstanceLost(i)
           \/ GarbageCollect \/ Expire \/ SyncClaim \/ Restart \/ Tick \/ TerminationTimePasses
    PROVE  TypeOK'
  <1>0. /\ claim \in Claims /\ env \in Envs /\ nodes \in [Nodes -> NodeObjs] /\ \A n \in Nodes : nodes[n] \in NodeObjs
    BY Zenon DEF TypeOK
  <1>1. ASSUME NEW n \in Nodes, NEW o \in NodeObjs, SetNode(n, o), env' \in Envs PROVE TypeOK'
    <2>1. nodes' \in [Nodes -> NodeObjs]
      BY <1>0, <1>1, Zenon DEF SetNode
    <2>2. wake' \in BOOLEAN /\ nwake' \in SUBSET Nodes
      BY <1>1, NodeEventTypes, Zenon DEF SetNode
    <2> QED BY <1>1, <2>1, <2>2, Zenon DEF TypeOK, SetNode
  <1>2. ASSUME NEW n \in Nodes, WorldStep(n) PROVE TypeOK'
    <2>1. /\ [nodes[n] EXCEPT !.ready = FALSE] \in NodeObjs /\ Deleted(nodes[n]) \in NodeObjs
          /\ [nodes[n] EXCEPT !.settled = TRUE] \in NodeObjs /\ [nodes[n] EXCEPT !.pod = FALSE] \in NodeObjs
          /\ [nodes[n] EXCEPT !.vol = FALSE] \in NodeObjs
      BY <1>0, NodeTypes, Zenon
    <2> QED BY <1>0, <1>1, <1>2, <2>1, Zenon
          DEF WorldStep, KubeletStops, DeleteNode, SchedulerSeesTaint, PodLeaves, VolumeDetaches
  <1>3. ASSUME NEW n \in Nodes, Disturbance(n) PROVE TypeOK'
    <2>1. Deleted(nodes[n]) \in NodeObjs
      BY <1>0, NodeTypes, Zenon
    <2>2. \A v \in BOOLEAN : [nodes[n] EXCEPT !.ready = v] \in NodeObjs /\ [nodes[n] EXCEPT !.pod = TRUE, !.vol = v] \in NodeObjs
      BY <1>0, NodeTypes, Zenon
    <2>3. CASE KubeletReady(n)
      BY <1>0, <1>1, <2>2, <2>3, Zenon DEF KubeletReady
    <2>4. CASE UserDeletesNode(n)
      BY <1>0, <1>1, <2>1, <2>4, EnvTypes, Zenon DEF UserDeletesNode
    <2>5. CASE BindPod(n)
      BY <1>0, <1>1, <2>2, <2>5, EnvTypes, Zenon DEF BindPod
    <2>6. ASSUME NEW i \in Instances, Join(n, i) PROVE TypeOK'
      BY <1>0, <1>1, <2>6, NodeTypes, Zenon DEF Join
    <2> QED BY <1>3, <2>3, <2>4, <2>5, <2>6, Zenon DEF Disturbance
  <1>4. ASSUME NEW i \in Instances, InstanceGone(i) \/ InstanceLost(i) PROVE TypeOK'
    <2>1. inst' \in [Instances -> {"none", "running", "terminating", "gone"}]
      BY <1>4, Zenon DEF InstanceGone, InstanceLost, TypeOK
    <2>2. env' \in Envs
      BY <1>0, <1>4, EnvTypes, Zenon DEF InstanceGone, InstanceLost
    <2> QED BY <1>4, <2>1, <2>2, Zenon DEF TypeOK, InstanceGone, InstanceLost
  <1>5. CASE GarbageCollect \/ Expire
    <2>1. claim' \in Claims
      BY <1>0, <1>5, ClaimTypes, Zenon DEF GarbageCollect, Expire, DeleteClaimObj
    <2>2. env' \in Envs
      BY <1>0, <1>5, EnvTypes, Zenon DEF GarbageCollect, Expire
    <2> QED BY <1>5, <2>1, <2>2, Zenon DEF TypeOK, GarbageCollect, Expire
  <1>6. CASE SyncClaim \/ TerminationTimePasses
    BY <1>6, Zenon DEF TypeOK, SyncClaim, TerminationTimePasses
  <1>7. CASE Restart
    <2>1. env' \in Envs
      BY <1>0, <1>7, EnvTypes, Zenon DEF Restart, Unrecorded
    <2>2. nt' \in [Nodes -> NtRecs] /\ lc' \in LcRecs
      BY <1>7, RecTypes, Zenon DEF Restart
    <2> QED BY <1>7, <2>1, <2>2, Zenon DEF TypeOK, Restart
  <1>8. CASE Tick
    <2>1. clock' \in 0..2
      BY <1>8 DEF Tick, TypeOK
    <2> QED BY <1>8, <2>1, Zenon DEF TypeOK, Tick
  <1> QED BY <1>2, <1>3, <1>4, <1>5, <1>6, <1>7, <1>8, Zenon

(* Objects, copies and counters keep the shape the code gives them, whatever *)
(* the order in which the controllers and the world step.                    *)
LEMMA TypeStep == TypeOK /\ [Next]_vars => TypeOK'
  <1>1. CASE Next
    BY <1>1, LaunchTypes, RegistrationTypes, PatchTypes, FinalizeTypes, TerminationTypes, WorldTypes, Zenon
       DEF Next, LifecycleStep, LifecycleFails
  <1>2. CASE UNCHANGED vars
    BY <1>2, Zenon DEF TypeOK, vars
  <1> QED BY <1>1, <1>2, Zenon

-----------------------------------------------------------------------------
(* The claim, its copies and its instances *)

LEMMA EarlierTransitive ==
    ASSUME NEW o, NEW c, NEW d, Earlier(o, c), Earlier(c, d)
    PROVE  Earlier(o, d)
  BY Zenon DEF Earlier

(* A step that leaves the claim, its copies and the instances alone. *)
LEMMA Frame ==
    ASSUME CoreInv, UNCHANGED <<claim, seen, inst, cache, lc>>, env'.lost = env.lost, env'.forgot = env.forgot
    PROVE  CoreInv'
  <1>1. ClaimInv'
    BY Zenon DEF CoreInv, ClaimInv
  <1>2. LaunchInv'
    BY Zenon DEF CoreInv, LaunchInv
  <1>3. CopyInv'
    BY Zenon DEF CoreInv, CopyInv
  <1>4. InstanceInv'
    BY Zenon DEF CoreInv, InstanceInv
  <1> QED BY <1>1, <1>2, <1>3, <1>4, Zenon DEF CoreInv

(* A reconcile ends and changes nothing else, except that it may leave an    *)
(* instance behind, which is noted.                                          *)
LEMMA FinishFrame ==
    ASSUME CoreInv, UNCHANGED <<claim, seen, inst, cache>>, lc'.pc \in {"idle", "sleep"}, env'.forgot = env.forgot,
           ~env'.lost => ~env.lost /\ (lc.pc \in Populated => ~Unrecorded)
    PROVE  CoreInv'
  <1>1. ClaimInv'
    BY Zenon DEF CoreInv, ClaimInv
  <1>2. LaunchInv'
    BY Zenon DEF LaunchInv, Populated
  <1>3. CopyInv'
    BY Zenon DEF CopyInv, Finalizing
  <1>4. InstanceInv'
    BY Zenon DEF CoreInv, InstanceInv, Unrecorded
  <1> QED BY <1>1, <1>2, <1>3, <1>4, Zenon DEF CoreInv

(* A reconcile between its launch and its patch goes on. *)
LEMMA PopulatedFrame ==
    ASSUME CoreInv, UNCHANGED <<claim, seen, inst, cache>>, env'.lost = env.lost, env'.forgot = env.forgot,
           lc.pc \in Populated, lc'.pc \in Populated, lc'.base = lc.base,
           lc'.obj.pid = lc.obj.pid, lc'.obj.launched = lc.obj.launched
    PROVE  CoreInv'
  <1>1. ClaimInv'
    BY Zenon DEF CoreInv, ClaimInv
  <1>2. LaunchInv'
    BY Zenon DEF CoreInv, LaunchInv, Populated
  <1>3. CopyInv'
    BY Zenon DEF CoreInv, CopyInv, Finalizing, Populated
  <1>4. InstanceInv'
    BY Zenon DEF CoreInv, InstanceInv
  <1> QED BY <1>1, <1>2, <1>3, <1>4, Zenon DEF CoreInv

(* The claim is deleted, or patched in what the instance does not depend on. *)
LEMMA ClaimFrame ==
    ASSUME CoreInv, UNCHANGED <<seen, inst, cache, lc>>, env'.lost = env.lost, env'.forgot = env.forgot,
           claim'.pid = claim.pid, claim'.launched = claim.launched, claim'.fin = claim.fin,
           claim.deleting => claim'.deleting,
           \/ claim'.phase = claim.phase
           \/ claim'.phase = "gone" /\ ~claim.fin /\ claim.phase = "exists"
    PROVE  CoreInv'
  <1>0. Earlier(claim, claim')
    BY Zenon DEF CoreInv, ClaimInv, Earlier
  <1>1. ClaimInv'
    <2>1. Earlier(seen, claim)'
      BY <1>0, EarlierTransitive, Zenon DEF CoreInv, ClaimInv
    <2> QED BY <2>1, Zenon DEF CoreInv, ClaimInv, Earlier
  <1>2. LaunchInv'
    BY Zenon DEF CoreInv, LaunchInv
  <1>3. CopyInv'
    <2>1. lc.pc \notin {"idle", "sleep"} => Earlier(lc.base, claim)'
      BY <1>0, EarlierTransitive, Zenon DEF CoreInv, CopyInv
    <2> QED BY <2>1, Zenon DEF CoreInv, CopyInv
  <1>4. InstanceInv'
    BY Zenon DEF CoreInv, InstanceInv
  <1> QED BY <1>1, <1>2, <1>3, <1>4, Zenon DEF CoreInv

(* Deletion sets a timestamp, or removes a claim that has no finalizer yet. *)
LEMMA DeleteFields ==
    ASSUME TypeOK, DeleteClaimObj
    PROVE  /\ claim'.pid = claim.pid /\ claim'.launched = claim.launched /\ claim'.fin = claim.fin
           /\ claim.deleting => claim'.deleting
           /\ \/ claim'.phase = claim.phase
              \/ claim'.phase = "gone" /\ ~claim.fin /\ claim.phase = "exists"
  <1>1. claim \in Claims
    BY Zenon DEF TypeOK
  <1>2. CASE Exists /\ claim.fin
    <2>1. claim' = [claim EXCEPT !.deleting = TRUE]
      BY <1>2, Zenon DEF DeleteClaimObj, Deleted
    <2> QED BY <1>1, <2>1, Zenon DEF Claims
  <1>3. CASE Exists /\ ~claim.fin
    <2>1. claim' = [claim EXCEPT !.deleting = TRUE, !.phase = "gone"]
      BY <1>3, Zenon DEF DeleteClaimObj, Deleted
    <2> QED BY <1>1, <1>3, <2>1, Zenon DEF Claims, Exists
  <1>4. CASE ~Exists
    BY <1>4, Zenon DEF DeleteClaimObj
  <1> QED BY <1>2, <1>3, <1>4, Zenon

(* The reconcile starts from the cache: it launches only when the cache      *)
(* shows the finalizer and no deletion, and then the claim is still there.   *)
LEMMA ReadStep ==
    ASSUME TypeOK, CoreInv, LcRead
    PROVE  CoreInv'
  <1>0. UNCHANGED <<claim, seen, inst, cache, env>> /\ lc.pc = "idle"
    BY Zenon DEF LcRead
  <1>1. CASE lc' = NoLc
    <2>1. lc'.pc = "idle" /\ lc.pc \notin Populated
      BY <1>0, <1>1, Zenon DEF NoLc, Populated
    <2> QED BY <1>0, <2>1, FinishFrame, Zenon
  <1>2. CASE lc' # NoLc
    <2>1. seen.phase = "exists" /\ (seen.deleting => seen.fin)
      BY <1>2, Zenon DEF LcRead
    <2>2. /\ lc'.pc = IF seen.deleting THEN "fAnnotate" ELSE IF seen.fin THEN "launch" ELSE "finalizer"
          /\ lc'.obj = seen /\ lc'.base = seen
      BY <1>2, Zenon DEF LcRead
    <2>3. ClaimInv'
      BY <1>0, Zenon DEF CoreInv, ClaimInv
    <2>4. LaunchInv'
      BY <1>0, <2>1, <2>2, Zenon DEF CoreInv, ClaimInv, LaunchInv, Earlier, Populated
    <2>5. CopyInv'
      <3>1. seen = [seen EXCEPT !.term = seen.term]
        BY Zenon DEF TypeOK, Claims
      <3>2. Earlier(seen, claim)
        BY Zenon DEF CoreInv, ClaimInv
      <3>3. lc'.pc \notin {"fStatus", "fFinalizer"} /\ (lc'.pc \in Finalizing => seen.deleting)
        BY <2>2, Zenon DEF Finalizing
      <3> QED BY <1>0, <2>1, <2>2, <3>1, <3>2, <3>3, Zenon DEF CopyInv
    <2>6. InstanceInv'
      <3>1. lc.pc \notin Populated
        BY <1>0, Zenon DEF Populated
      <3> QED BY <1>0, <3>1, Zenon DEF CoreInv, InstanceInv
    <2> QED BY <2>3, <2>4, <2>5, <2>6, Zenon DEF CoreInv
  <1> QED BY <1>1, <1>2, Zenon

(* The finalizer is added to the version that was read. *)
LEMMA FinalizerStep ==
    ASSUME TypeOK, CoreInv, LcAddFinalizer
    PROVE  CoreInv'
  <1>0. UNCHANGED <<seen, inst, cache, env>> /\ lc.pc = "finalizer" /\ claim \in Claims /\ lc \in LcRecs
    BY Zenon DEF LcAddFinalizer, TypeOK
  <1>1. CASE Finish(Exists) /\ UNCHANGED claim
    <2>1. lc'.pc = "idle" /\ lc.pc \notin Populated
      BY <1>0, <1>1, Zenon DEF Finish, NoLc, Populated
    <2> QED BY <1>0, <1>1, <2>1, FinishFrame, Zenon
  <1>2. CASE /\ Locked(lc) /\ Exists /\ claim' = [claim EXCEPT !.fin = TRUE]
             /\ lc' = [lc EXCEPT !.pc = "launch", !.obj = claim', !.base = claim']
    <2>1. /\ claim'.pid = claim.pid /\ claim'.launched = claim.launched /\ claim'.deleting = claim.deleting
          /\ claim'.phase = "exists" /\ claim'.fin /\ claim.phase = "exists"
      BY <1>0, <1>2, Zenon DEF Claims, Exists
    <2>2. lc'.pc = "launch" /\ lc'.obj = claim' /\ lc'.base = claim' /\ lc.base = claim
      BY <1>0, <1>2, Zenon DEF LcRecs, Locked
    <2>3. Earlier(claim, claim') /\ Earlier(claim', claim')
      BY <2>1, Zenon DEF CoreInv, ClaimInv, Earlier
    <2>4. ClaimInv'
      <3>1. Earlier(seen, claim)'
        BY <1>0, <2>3, EarlierTransitive, Zenon DEF CoreInv, ClaimInv
      <3> QED BY <1>0, <2>1, <3>1, Zenon DEF CoreInv, ClaimInv
    <2>5. LaunchInv'
      BY <2>1, <2>2, Zenon DEF LaunchInv, Populated
    <2>6. CopyInv'
      <3>1. claim.pid # None => seen.pid = claim.pid
        BY <1>0, <2>2, Zenon DEF CoreInv, CopyInv
      <3> QED BY <1>0, <2>1, <2>2, <2>3, <3>1, Zenon DEF CopyInv, Finalizing
    <2>7. InstanceInv'
      BY <1>0, <2>1, Zenon DEF CoreInv, InstanceInv, Populated
    <2> QED BY <2>4, <2>5, <2>6, <2>7, Zenon DEF CoreInv
  <1> QED BY <1>1, <1>2, Zenon DEF LcAddFinalizer

(* A launch that is recorded clears Launch.cache: the cache shows it too. *)
LEMMA KnownStep ==
    ASSUME TypeOK, CoreInv, LaunchKnown
    PROVE  CoreInv'
  <1>0. UNCHANGED <<claim, seen, inst, env>> /\ lc.pc = "launch" /\ lc.obj.launched /\ cache' = None
    BY Zenon DEF LaunchKnown
  <1>1. lc'.pc = "register" /\ lc'.obj = lc.obj /\ lc'.base = lc.base
    BY Zenon DEF LaunchKnown, GoTo, TypeOK, LcRecs
  <1>2. lc.obj = lc.base /\ Earlier(lc.base, claim) /\ (lc.base.pid # None => seen.pid = lc.base.pid)
    BY <1>0, Zenon DEF CoreInv, LaunchInv, CopyInv
  <1>3. lc.obj.pid # None /\ claim.pid = lc.obj.pid /\ claim.launched
    BY <1>0, <1>2, Zenon DEF Earlier, CoreInv, ClaimInv
  <1>4. seen.launched
    BY <1>2, <1>3, Zenon DEF Earlier, CoreInv, ClaimInv
  <1>5. ClaimInv'
    BY <1>0, <1>4, Zenon DEF CoreInv, ClaimInv
  <1>6. LaunchInv'
    BY <1>0, <1>1, <1>3, Zenon DEF CoreInv, LaunchInv, Populated
  <1>7. CopyInv'
    BY <1>0, <1>1, Zenon DEF CoreInv, CopyInv, Finalizing
  <1>8. InstanceInv'
    <2>1. cache \in {None, claim.pid}
      BY <1>3, Zenon DEF CoreInv, ClaimInv
    <2>2. lc.pc \notin Populated
      BY <1>0, Zenon DEF Populated
    <2> QED BY <1>0, <1>3, <2>1, <2>2, LifecycleAssumption, Zenon DEF CoreInv, InstanceInv
  <1> QED BY <1>5, <1>6, <1>7, <1>8, Zenon DEF CoreInv

(* A launch that the cache does not show is taken from Launch.cache. *)
LEMMA CachedStep ==
    ASSUME TypeOK, CoreInv, LaunchCached
    PROVE  CoreInv'
  <1>0. UNCHANGED <<claim, seen, inst, cache, env>> /\ lc.pc = "launch" /\ ~lc.obj.launched /\ cache # None
    BY Zenon DEF LaunchCached
  <1>1. lc'.pc = "register" /\ lc'.obj.pid = cache /\ lc'.obj.launched /\ lc'.base = lc.base
    BY Zenon DEF LaunchCached, PopulateNodeClaimDetails, TypeOK, LcRecs, Claims
  <1>2. ClaimInv'
    BY <1>0, Zenon DEF CoreInv, ClaimInv
  <1>3. LaunchInv'
    BY <1>0, <1>1, Zenon DEF CoreInv, LaunchInv, Populated
  <1>4. CopyInv'
    BY <1>0, <1>1, Zenon DEF CoreInv, CopyInv, Finalizing
  <1>5. InstanceInv'
    BY <1>0, Zenon DEF CoreInv, InstanceInv, Populated
  <1> QED BY <1>2, <1>3, <1>4, <1>5, Zenon DEF CoreInv

(* An instance is created only when neither the claim nor Launch.cache has   *)
(* one.                                                                      *)
LEMMA CreateStep ==
    ASSUME TypeOK, CoreInv, NEW i \in Instances, LaunchCreate(i)
    PROVE  CoreInv'
  <1>0. /\ UNCHANGED <<claim, seen>> /\ lc.pc = "launch" /\ ~lc.obj.launched /\ cache = None /\ cache' = i
        /\ inst' = [inst EXCEPT ![i] = "running"] /\ inst[i] = "none"
    BY Zenon DEF LaunchCreate
  <1>1. lc'.pc = "register" /\ lc'.obj.pid = i /\ lc'.obj.launched /\ lc'.base = lc.base
    BY Zenon DEF LaunchCreate, PopulateNodeClaimDetails, TypeOK, LcRecs, Claims
  <1>2. env'.lost = env.lost /\ env'.forgot = env.forgot
    BY Zenon DEF LaunchCreate, TypeOK, Envs
  <1>3. i # None /\ claim.fin /\ claim.phase = "exists"
    BY <1>0, LifecycleAssumption, Zenon DEF CoreInv, LaunchInv
  <1>4. ~claim.launched /\ claim.pid = None
    BY <1>0, Zenon DEF CoreInv, ClaimInv, LaunchInv
  <1>5. inst'[i] = "running" /\ \A j \in Instances \ {i} : inst'[j] = inst[j]
    BY <1>0, Zenon DEF TypeOK
  <1>6. ClaimInv'
    BY <1>0, <1>4, Zenon DEF CoreInv, ClaimInv
  <1>7. LaunchInv'
    BY <1>0, <1>1, <1>3, <1>4, Zenon DEF LaunchInv, Populated
  <1>8. CopyInv'
    BY <1>0, <1>1, Zenon DEF CoreInv, CopyInv, Finalizing
  <1>9. InstanceInv'
    <2>1. lc.pc \notin Populated /\ lc'.pc \in Populated
      BY <1>0, <1>1, Zenon DEF Populated
    <2>2. \A j \in Instances : j # None
      BY LifecycleAssumption, Zenon
    <2>3. /\ \A j \in Instances : inst'[j] # "none" => claim.fin
          /\ \A j \in Instances : inst'[j] = "terminating" => claim.pid = j
      BY <1>3, <1>5, Zenon DEF CoreInv, InstanceInv
    <2>4. ~env.forgot => \A j \in Instances : inst'[j] # "none" => j = i
      BY <1>0, <1>4, <1>5, <2>2, ZenonT(60) DEF CoreInv, InstanceInv
    <2>5. ~env.lost => \A j \in Instances : inst'[j] \in {"running", "terminating"} => j = i
      BY <1>0, <1>4, <1>5, <2>1, <2>2, Zenon DEF CoreInv, InstanceInv
    <2> QED BY <1>0, <1>1, <1>2, <1>3, <2>1, <2>3, <2>4, <2>5, Zenon DEF InstanceInv
  <1> QED BY <1>6, <1>7, <1>8, <1>9, Zenon DEF CoreInv

(* A launch that failed, or that failed for good and deleted the claim. *)
LEMMA LaunchFailsStep ==
    ASSUME TypeOK, CoreInv, LaunchFails
    PROVE  CoreInv'
  <1>0. UNCHANGED <<seen, inst, cache>> /\ lc.pc = "launch" /\ ~lc.obj.launched /\ cache = None
    BY Zenon DEF LaunchFails
  <1>1. env'.lost = env.lost /\ env'.forgot = env.forgot
    BY Zenon DEF LaunchFails, TypeOK, Envs
  <1>2. lc'.pc = "register" /\ lc'.obj = lc.obj /\ lc'.base = lc.base
    BY Zenon DEF LaunchFails, GoTo, TypeOK, LcRecs
  <1>3. claim.fin /\ claim.phase = "exists" /\ ~claim.launched /\ claim.pid = None
    BY <1>0, Zenon DEF CoreInv, ClaimInv, LaunchInv
  <1>4. /\ claim'.pid = claim.pid /\ claim'.launched = claim.launched /\ claim'.fin = claim.fin
        /\ claim'.phase = claim.phase /\ (claim.deleting => claim'.deleting)
    BY <1>3, DeleteFields, Zenon DEF LaunchFails
  <1>5. Earlier(claim, claim')
    BY <1>4, Zenon DEF CoreInv, ClaimInv, Earlier
  <1>6. lc.obj = lc.base /\ Earlier(lc.base, claim)
    BY <1>0, Zenon DEF CoreInv, LaunchInv, CopyInv
  <1>7. ClaimInv'
    <2>1. Earlier(seen, claim)'
      BY <1>0, <1>5, EarlierTransitive, Zenon DEF CoreInv, ClaimInv
    <2> QED BY <1>0, <1>4, <2>1, Zenon DEF CoreInv, ClaimInv
  <1>8. LaunchInv'
    BY <1>0, <1>2, <1>3, <1>4, <1>6, Zenon DEF LaunchInv, Populated, Earlier
  <1>9. CopyInv'
    <2>1. Earlier(lc.base, claim)'
      BY <1>2, <1>5, <1>6, EarlierTransitive, Zenon
    <2> QED BY <1>0, <1>2, <2>1, Zenon DEF CoreInv, CopyInv, Finalizing
  <1>10. InstanceInv'
    BY <1>0, <1>1, <1>4, Zenon DEF CoreInv, InstanceInv, Populated
  <1> QED BY <1>7, <1>8, <1>9, <1>10, Zenon DEF CoreInv

(* Registration, initialization, liveness. *)
LEMMA PopulatedStep ==
    ASSUME TypeOK, CoreInv,
           \/ SkipRegistration \/ RegisterDuplicate \/ SkipInitialization \/ Liveness \/ LcCallFails
           \/ \E n \in Nodes : RegisterNode(n) \/ InitializeNode(n)
    PROVE  CoreInv'
  <1>0. lc \in LcRecs /\ lc.obj \in Claims /\ env \in Envs
    BY Zenon DEF TypeOK, LcRecs
  <1>1. CASE SkipRegistration \/ SkipInitialization
    <2>1. lc.pc \in Populated /\ UNCHANGED <<claim, seen, inst, cache, env>>
      BY <1>1, Zenon DEF SkipRegistration, SkipInitialization, Populated
    <2>2. lc'.pc \in Populated /\ lc'.base = lc.base /\ lc'.obj = lc.obj
      BY <1>0, <1>1, Zenon DEF SkipRegistration, SkipInitialization, GoTo, LcRecs, Populated
    <2> QED BY <2>1, <2>2, PopulatedFrame, Zenon
  <1>2. CASE RegisterDuplicate
    <2>1. lc.pc \in Populated /\ UNCHANGED <<claim, seen, inst, cache, env>>
      BY <1>2, Zenon DEF RegisterDuplicate, Populated
    <2>2. /\ lc'.pc \in Populated /\ lc'.base = lc.base
          /\ lc'.obj.pid = lc.obj.pid /\ lc'.obj.launched = lc.obj.launched
      BY <1>0, <1>2, Zenon DEF RegisterDuplicate, LcRecs, Claims, Populated
    <2> QED BY <2>1, <2>2, PopulatedFrame, Zenon
  <1>3. CASE LcCallFails
    <2>1. lc.pc \in Populated /\ UNCHANGED <<claim, seen, inst, cache>>
      BY <1>3, Zenon DEF LcCallFails, Populated
    <2>2. lc'.pc \in Populated /\ lc'.base = lc.base /\ lc'.obj = lc.obj
      BY <1>0, <1>3, Zenon DEF LcCallFails, LcRecs, Populated
    <2>3. env'.lost = env.lost /\ env'.forgot = env.forgot
      BY <1>0, <1>3, Zenon DEF LcCallFails, Envs
    <2> QED BY <2>1, <2>2, <2>3, PopulatedFrame, Zenon
  <1>4. ASSUME NEW n \in Nodes, RegisterNode(n) PROVE CoreInv'
    <2>1. lc.pc \in Populated /\ UNCHANGED <<claim, seen, inst, cache, env>>
      BY <1>4, Zenon DEF RegisterNode, Populated
    <2>2. PICK h \in BOOLEAN : lc' = [lc EXCEPT !.pc = "initialize", !.obj.reg = IF h THEN "True" ELSE @,
                                                !.again = @ \/ ~h]
      BY <1>4, Zenon DEF RegisterNode, HookResults
    <2>3. /\ lc'.pc \in Populated /\ lc'.base = lc.base
          /\ lc'.obj.pid = lc.obj.pid /\ lc'.obj.launched = lc.obj.launched
      BY <1>0, <2>2, Zenon DEF LcRecs, Claims, Populated
    <2> QED BY <2>1, <2>3, PopulatedFrame, Zenon
  <1>5. ASSUME NEW n \in Nodes, InitializeNode(n) PROVE CoreInv'
    <2>1. lc.pc \in Populated /\ UNCHANGED <<claim, seen, inst, cache, env>>
      BY <1>5, Zenon DEF InitializeNode, Populated
    <2>2. /\ lc'.pc \in Populated /\ lc'.base = lc.base
          /\ lc'.obj.pid = lc.obj.pid /\ lc'.obj.launched = lc.obj.launched
      BY <1>0, <1>5, Zenon DEF InitializeNode, LcRecs, Claims, Populated
    <2> QED BY <2>1, <2>2, PopulatedFrame, Zenon
  <1>6. CASE Liveness
    <2>0. lc.pc = "liveness" /\ UNCHANGED <<seen, inst, cache, env>>
      BY <1>6, Zenon DEF Liveness
    <2>1. lc'.pc = "patch" /\ lc'.base = lc.base /\ lc'.obj = lc.obj
      BY <1>0, <1>6, Zenon DEF Liveness, GoTo, LcRecs
    <2>2. claim.fin /\ claim.phase = "exists"
      BY <2>0, Zenon DEF CoreInv, LaunchInv, Populated
    <2>3. /\ claim'.pid = claim.pid /\ claim'.launched = claim.launched /\ claim'.fin = claim.fin
          /\ claim'.phase = claim.phase /\ (claim.deleting => claim'.deleting)
      BY <1>6, <2>2, DeleteFields, Zenon DEF Liveness
    <2>4. Earlier(claim, claim')
      BY <2>3, Zenon DEF CoreInv, ClaimInv, Earlier
    <2>5. ClaimInv'
      <3>1. Earlier(seen, claim)'
        BY <2>0, <2>4, EarlierTransitive, Zenon DEF CoreInv, ClaimInv
      <3> QED BY <2>0, <2>3, <3>1, Zenon DEF CoreInv, ClaimInv
    <2>6. LaunchInv'
      BY <2>0, <2>1, <2>3, Zenon DEF CoreInv, LaunchInv, Populated
    <2>7. CopyInv'
      <3>1. Earlier(lc.base, claim)'
        BY <2>0, <2>1, <2>4, EarlierTransitive, Zenon DEF CoreInv, CopyInv
      <3> QED BY <2>0, <2>1, <3>1, Zenon DEF CoreInv, CopyInv, Finalizing
    <2>8. InstanceInv'
      BY <2>0, <2>1, <2>3, ZenonT(60) DEF CoreInv, InstanceInv, Populated
    <2> QED BY <2>5, <2>6, <2>7, <2>8, Zenon DEF CoreInv
  <1> QED BY <1>1, <1>2, <1>3, <1>4, <1>5, <1>6, Zenon

(* The patch records the instance that the reconcile launched, or repeats    *)
(* the one that is recorded.                                                 *)
LEMMA PatchedFields ==
    ASSUME TypeOK, CoreInv, lc.pc = "patch"
    PROVE  /\ Patched.pid = lc.obj.pid /\ Patched.launched = lc.obj.launched
           /\ Patched.fin = claim.fin /\ Patched.phase = claim.phase /\ Patched.deleting = claim.deleting
  <1>0. claim \in Claims
    BY Zenon DEF TypeOK
  <1>1. /\ Patched.launched = lc.obj.launched
        /\ Patched.fin = claim.fin /\ Patched.phase = claim.phase /\ Patched.deleting = claim.deleting
    BY <1>0, Zenon DEF Patched, Claims
  <1>2. Patched.pid = IF lc.obj.pid = lc.base.pid THEN claim.pid ELSE lc.obj.pid
    BY <1>0, Zenon DEF Patched, Claims
  <1>3. /\ claim.pid # None => lc.obj.pid = claim.pid
        /\ lc.base.pid # None => lc.base.pid = claim.pid
    BY Zenon DEF CoreInv, ClaimInv, LaunchInv, CopyInv, Populated, Earlier
  <1> QED BY <1>1, <1>2, <1>3, Zenon

LEMMA PatchStep ==
    ASSUME TypeOK, CoreInv, LcPatch
    PROVE  CoreInv'
  <1>0. UNCHANGED <<seen, inst, cache, env>> /\ lc.pc = "patch"
    BY Zenon DEF LcPatch
  <1>1. /\ claim.fin /\ claim.phase = "exists" /\ (lc.obj.launched <=> lc.obj.pid # None)
        /\ claim.launched => lc.obj.pid = claim.pid
        /\ ~claim.launched /\ lc.obj.launched => lc.obj.pid = cache
    BY <1>0, Zenon DEF CoreInv, LaunchInv, Populated
  <1>2. lc'.pc \in {"idle", "sleep"} /\ claim' = Patched
    <2>1. lc' = [NoLc EXCEPT !.pc = IF env.readsOwnWrites /\ Patched # claim THEN "sleep" ELSE "idle"] /\ claim' = Patched
      BY <1>1, Zenon DEF LcPatch, Exists
    <2> QED BY <2>1, Zenon DEF NoLc
  <1>3. /\ claim'.pid = lc.obj.pid /\ claim'.launched = lc.obj.launched
        /\ claim'.fin = claim.fin /\ claim'.phase = claim.phase /\ claim'.deleting = claim.deleting
    BY <1>0, <1>2, PatchedFields, Zenon
  <1>4. claim.launched <=> claim.pid # None
    BY Zenon DEF CoreInv, ClaimInv
  <1>5. Earlier(claim, claim')
    BY <1>1, <1>3, <1>4, Zenon DEF Earlier
  <1>6. ClaimInv'
    <2>1. Earlier(seen, claim)'
      BY <1>0, <1>5, EarlierTransitive, Zenon DEF CoreInv, ClaimInv
    <2> QED BY <1>0, <1>1, <1>3, <1>4, <2>1, Zenon DEF CoreInv, ClaimInv
  <1>7. LaunchInv' /\ CopyInv'
    BY <1>2, Zenon DEF LaunchInv, CopyInv, Populated, Finalizing
  <1>8. InstanceInv'
    <2>1. \A i \in Instances : claim.pid = i => claim'.pid = i
      BY <1>1, <1>3, <1>4, LifecycleAssumption, Zenon
    <2> QED BY <1>0, <1>1, <1>3, <2>1, Zenon DEF CoreInv, InstanceInv
  <1> QED BY <1>6, <1>7, <1>8, Zenon DEF CoreInv

(* A reconcile that ends without a patch, or whose patch fails. *)
LEMMA FinishStep ==
    ASSUME TypeOK, CoreInv, LcSleepEnds \/ LcPatchFails \/ LcNothingToPatch
    PROVE  CoreInv'
  <1>0. ASSUME NEW w, Finish(w) PROVE lc'.pc = "idle"
    BY <1>0, Zenon DEF Finish, NoLc
  <1>1. CASE LcSleepEnds
    <2>1. lc.pc \notin Populated /\ UNCHANGED <<claim, seen, inst, cache, env>>
      BY <1>1, Zenon DEF LcSleepEnds, Populated
    <2>2. lc'.pc = "idle"
      BY <1>0, <1>1, Zenon DEF LcSleepEnds
    <2> QED BY <2>1, <2>2, FinishFrame, Zenon
  <1>2. CASE LcPatchFails
    <2>0. UNCHANGED <<claim, seen, inst, cache>> /\ lc'.pc = "idle"
      BY <1>0, <1>2, Zenon DEF LcPatchFails
    <2>1. env' = [env EXCEPT !.patchErrors = @ - 1, !.lost = @ \/ Unrecorded] /\ env \in Envs
      BY <1>2, Zenon DEF LcPatchFails, TypeOK
    <2>2. env'.forgot = env.forgot /\ env'.lost = (env.lost \/ Unrecorded)
      BY <2>1, Zenon DEF Envs
    <2> QED BY <2>0, <2>2, FinishFrame, Zenon
  <1>3. CASE LcNothingToPatch
    <2>0. UNCHANGED <<claim, seen, inst, cache>> /\ lc'.pc = "idle"
      BY <1>0, <1>3, Zenon DEF LcNothingToPatch
    <2>1. lc.pc = "patch" /\ lc.obj = lc.base /\ UNCHANGED env
      BY <1>3, Zenon DEF LcNothingToPatch, MustPatch
    <2>2. lc.obj.pid # None => claim.pid = lc.obj.pid
      BY <2>1, Zenon DEF CoreInv, CopyInv, Earlier
    <2>3. ~env.lost => ~Unrecorded
      BY <2>2, LifecycleAssumption, Zenon DEF CoreInv, InstanceInv, Unrecorded
    <2> QED BY <2>0, <2>1, <2>3, FinishFrame, Zenon
  <1> QED BY <1>1, <1>2, <1>3, Zenon

(* finalize works on a copy that differs in one condition from the version   *)
(* it was taken from, so its instance is the recorded one.                   *)
LEMMA FinalizeCopy ==
    ASSUME TypeOK, CoreInv, lc.pc \in Finalizing
    PROVE  /\ lc.obj.pid = lc.base.pid /\ lc.obj.launched = lc.base.launched /\ lc.obj.fin = lc.base.fin
           /\ lc.obj.phase = lc.base.phase /\ lc.obj.deleting = lc.base.deleting
           /\ lc.base.pid # None => lc.base.pid = claim.pid
           /\ lc.pc \notin Populated /\ lc.pc \notin {"idle", "sleep"}
  <1>1. lc.obj = [lc.base EXCEPT !.term = lc.obj.term] /\ lc.base \in Claims
    BY Zenon DEF CoreInv, CopyInv, TypeOK, LcRecs
  <1>2. /\ lc.obj.pid = lc.base.pid /\ lc.obj.launched = lc.base.launched /\ lc.obj.fin = lc.base.fin
        /\ lc.obj.phase = lc.base.phase /\ lc.obj.deleting = lc.base.deleting
    BY <1>1, Zenon DEF Claims
  <1>3. lc.pc \notin Populated /\ lc.pc \notin {"idle", "sleep"}
    BY Zenon DEF Populated, Finalizing
  <1>4. lc.base.pid # None => lc.base.pid = claim.pid
    BY <1>3, Zenon DEF CoreInv, CopyInv, Earlier
  <1> QED BY <1>2, <1>3, <1>4, Zenon

(* finalize takes its next step. *)
LEMMA FinalizeFrame ==
    ASSUME TypeOK, CoreInv, UNCHANGED <<claim, seen, inst, cache, env>>, lc.pc \in Finalizing,
           lc'.pc \in {"fNodes", "fDelete", "fFinalizer"}, lc'.obj = lc.obj, lc'.base = lc.base,
           lc'.pc = "fFinalizer" /\ lc.obj.pid # None => inst[lc.obj.pid] = "gone"
    PROVE  CoreInv'
  <1>0. lc'.pc \in Finalizing /\ lc'.pc \notin {"idle", "sleep", "fStatus", "launch", "finalizer"} /\ lc'.pc \notin Populated
    BY Zenon DEF Finalizing, Populated
  <1>1. ClaimInv'
    BY Zenon DEF CoreInv, ClaimInv
  <1>2. LaunchInv'
    BY <1>0, Zenon DEF LaunchInv
  <1>3. CopyInv'
    BY <1>0, FinalizeCopy, ZenonT(60) DEF CoreInv, CopyInv
  <1>4. InstanceInv'
    BY FinalizeCopy, Zenon DEF CoreInv, InstanceInv
  <1> QED BY <1>1, <1>2, <1>3, <1>4, Zenon DEF CoreInv

(* finalize ends, to be run again or because its work is done. *)
LEMMA FinalizeFinish ==
    ASSUME TypeOK, CoreInv, UNCHANGED <<claim, seen, inst, cache>>, lc.pc \in Finalizing, NEW w, Finish(w),
           env'.lost = env.lost, env'.forgot = env.forgot
    PROVE  CoreInv'
  <1>1. lc'.pc = "idle" /\ lc.pc \notin Populated
    BY FinalizeCopy, Zenon DEF Finish, NoLc
  <1> QED BY <1>1, FinishFrame, Zenon

(* The termination timestamp is annotated, under a lock on the version. *)
LEMMA AnnotateStep ==
    ASSUME TypeOK, CoreInv, FinalizeAnnotate
    PROVE  CoreInv'
  <1>0. UNCHANGED <<seen, inst, cache, env>> /\ lc.pc = "fAnnotate" /\ lc.pc \in Finalizing /\ claim \in Claims /\ lc \in LcRecs
    BY Zenon DEF FinalizeAnnotate, Finalizing, TypeOK
  <1>1. CASE Finish(TRUE) /\ UNCHANGED claim
    BY <1>0, <1>1, FinalizeFinish, Zenon
  <1>2. CASE GoTo("fNodes") /\ UNCHANGED claim
    <2>1. lc'.pc = "fNodes" /\ lc'.obj = lc.obj /\ lc'.base = lc.base
      BY <1>0, <1>2, Zenon DEF GoTo, LcRecs
    <2> QED BY <1>0, <1>2, <2>1, FinalizeFrame, Zenon
  <1>3. CASE /\ Locked(lc) /\ Exists /\ claim' = [claim EXCEPT !.ann = TRUE]
             /\ lc' = [lc EXCEPT !.pc = "fNodes", !.obj = claim', !.base = claim']
    <2>1. /\ claim'.pid = claim.pid /\ claim'.launched = claim.launched /\ claim'.deleting = claim.deleting
          /\ claim'.phase = "exists" /\ claim'.fin = claim.fin /\ claim.phase = "exists"
      BY <1>0, <1>3, Zenon DEF Claims, Exists
    <2>2. lc'.pc = "fNodes" /\ lc'.obj = claim' /\ lc'.base = claim' /\ lc.base = claim
      BY <1>0, <1>3, Zenon DEF LcRecs, Locked
    <2>3. Earlier(claim, claim') /\ Earlier(claim', claim')
      BY <2>1, Zenon DEF CoreInv, ClaimInv, Earlier
    <2>4. ClaimInv'
      <3>1. Earlier(seen, claim)'
        BY <1>0, <2>3, EarlierTransitive, Zenon DEF CoreInv, ClaimInv
      <3> QED BY <1>0, <2>1, <3>1, Zenon DEF CoreInv, ClaimInv
    <2>5. LaunchInv'
      BY <2>2, Zenon DEF LaunchInv, Populated
    <2>6. CopyInv'
      <3>1. claim' \in Claims
        BY <1>0, <1>3, ClaimTypes, Zenon
      <3>2. claim' = [claim' EXCEPT !.term = claim'.term]
        BY <3>1, Zenon DEF Claims
      <3>3. (claim.pid # None => seen.pid = claim.pid) /\ seen.deleting /\ claim.deleting
        BY <1>0, <2>2, Zenon DEF CoreInv, CopyInv
      <3> QED BY <1>0, <2>1, <2>2, <2>3, <3>2, <3>3, Zenon DEF CopyInv
    <2>7. InstanceInv'
      BY <1>0, <2>1, FinalizeCopy, Zenon DEF CoreInv, InstanceInv
    <2> QED BY <2>4, <2>5, <2>6, <2>7, Zenon DEF CoreInv
  <1> QED BY <1>1, <1>2, <1>3, Zenon DEF FinalizeAnnotate

(* cloudProvider.Delete starts the termination of the instance it is given,  *)
(* and of no other.                                                          *)
LEMMA CloudDeleteInstances ==
    ASSUME TypeOK, NEW p, CloudDelete(p)
    PROVE  \A i \in Instances :
              /\ inst'[i] = "none" <=> inst[i] = "none"
              /\ inst'[i] = "gone" <=> inst[i] = "gone"
              /\ inst'[i] = "terminating" => inst[i] = "terminating" \/ i = p
              /\ inst'[i] \in {"running", "terminating"} => inst[i] \in {"running", "terminating"}
  <1>1. \A i \in Instances : inst'[i] = IF i = p /\ inst[i] = "running" THEN "terminating" ELSE inst[i]
    BY Zenon DEF TypeOK, CloudDelete
  <1> QED BY <1>1, Zenon

(* The claim's own instance is terminated, by whichever controller. *)
LEMMA CloudDeleteInv ==
    ASSUME TypeOK, CoreInv, NEW p, p # None => p = claim.pid, CloudDelete(p), UNCHANGED <<claim, cache, env>>,
           lc'.pc \in Populated <=> lc.pc \in Populated, lc.pc \in Populated => lc'.obj = lc.obj
    PROVE  InstanceInv'
  <1>1. \A i \in Instances : i = p => i = claim.pid
    BY LifecycleAssumption, Zenon
  <1>2. \A i \in Instances : inst'[i] # "none" => (claim.fin \/ claim.phase = "gone")'
    BY CloudDeleteInstances, Zenon DEF CoreInv, InstanceInv
  <1>5. \A i \in Instances : inst'[i] = "terminating" => claim'.pid = i
    BY <1>1, CloudDeleteInstances, ZenonT(60) DEF CoreInv, InstanceInv
  <1>3. ~env'.forgot => \A i \in Instances : inst'[i] # "none" => claim'.pid = i \/ cache' = i
    BY CloudDeleteInstances, Zenon DEF CoreInv, InstanceInv
  <1>4. ~env'.lost => \A i \in Instances : inst'[i] \in {"running", "terminating"} =>
          claim'.phase = "exists" /\ (claim'.pid = i \/ (lc'.pc \in Populated /\ lc'.obj.pid = i))
    <2>1. ~env.lost => \A i \in Instances : inst'[i] \in {"running", "terminating"} =>
             claim.phase = "exists" /\ (claim.pid = i \/ (lc.pc \in Populated /\ lc.obj.pid = i))
      BY CloudDeleteInstances, Zenon DEF CoreInv, InstanceInv
    <2> QED BY <2>1, Zenon
  <1> QED BY <1>2, <1>3, <1>4, <1>5, Zenon DEF InstanceInv

(* The Nodes of the claim are deleted first, then its instance. *)
LEMMA FinalizeDeleteStep ==
    ASSUME TypeOK, CoreInv, FinalizeNodes \/ FinalizeDelete \/ FinalizeDeleteFails
    PROVE  CoreInv'
  <1>0. lc \in LcRecs /\ lc.obj \in Claims /\ env \in Envs
    BY Zenon DEF TypeOK, LcRecs
  <1>1. CASE FinalizeNodes
    <2>1. UNCHANGED <<claim, seen, inst, cache, env>> /\ lc.pc \in Finalizing
      BY <1>1, Zenon DEF FinalizeNodes, Finalizing
    <2>2. ASSUME GoTo("fDelete") PROVE CoreInv'
      <3>1. lc'.pc = "fDelete" /\ lc'.obj = lc.obj /\ lc'.base = lc.base
        BY <1>0, <2>2, Zenon DEF GoTo, LcRecs
      <3> QED BY <2>1, <3>1, FinalizeFrame, Zenon
    <2>3. ASSUME NEW w, Finish(w) PROVE CoreInv'
      BY <2>1, <2>3, FinalizeFinish, Zenon
    <2> QED BY <1>1, <2>2, <2>3, Zenon DEF FinalizeNodes
  <1>2. CASE FinalizeDeleteFails
    <2>1. UNCHANGED <<claim, seen, inst, cache>> /\ lc.pc \in Finalizing /\ Finish(TRUE)
      BY <1>2, Zenon DEF FinalizeDeleteFails, Finalizing
    <2>2. env'.lost = env.lost /\ env'.forgot = env.forgot
      BY <1>0, <1>2, Zenon DEF FinalizeDeleteFails, Envs
    <2> QED BY <2>1, <2>2, FinalizeFinish, Zenon
  <1>3. CASE FinalizeDelete
    <2>0. UNCHANGED <<claim, seen, cache, env>> /\ lc.pc = "fDelete" /\ lc.pc \in Finalizing
      BY <1>3, Zenon DEF FinalizeDelete, Finalizing
    <2>1. CASE lc.obj.pid = None /\ GoTo("fFinalizer") /\ UNCHANGED inst
      <3>1. lc'.pc = "fFinalizer" /\ lc'.obj = lc.obj /\ lc'.base = lc.base
        BY <1>0, <2>1, Zenon DEF GoTo, LcRecs
      <3> QED BY <2>0, <2>1, <3>1, FinalizeFrame, Zenon
    <2>2. CASE /\ lc.obj.pid # None /\ CloudDelete(lc.obj.pid)
               /\ lc' = [lc EXCEPT !.pc = "fStatus", !.obj.term = TRUE, !.again = ~NotFound(lc.obj.pid)]
      <3>1. /\ lc'.pc = "fStatus" /\ lc'.obj = [lc.obj EXCEPT !.term = TRUE] /\ lc'.base = lc.base
            /\ lc'.again = ~NotFound(lc.obj.pid)
        BY <1>0, <2>2, Zenon DEF LcRecs
      <3>2. lc.obj.pid = claim.pid /\ lc.obj.pid \in Instances /\ lc.pc \notin Populated
        BY <1>0, <2>0, <2>2, FinalizeCopy, Zenon DEF Claims
      <3>3. ClaimInv' /\ LaunchInv'
        BY <2>0, <3>1, Zenon DEF CoreInv, ClaimInv, LaunchInv, Populated
      <3>4. CopyInv'
        <4>1. lc'.obj.pid = lc.obj.pid /\ lc'.obj.term = TRUE
          BY <1>0, <3>1, Zenon DEF Claims
        <4>2. lc'.obj = [lc.base EXCEPT !.term = TRUE]
          <5>1. lc.obj = [lc.base EXCEPT !.term = lc.obj.term] /\ lc.base \in Claims
            BY <1>0, <2>0, Zenon DEF CoreInv, CopyInv, LcRecs
          <5>2. [[lc.base EXCEPT !.term = lc.obj.term] EXCEPT !.term = TRUE] = [lc.base EXCEPT !.term = TRUE]
            BY <5>1, Zenon DEF Claims
          <5> QED BY <3>1, <5>1, <5>2, Zenon
        <4>3. ~lc'.again => inst'[lc.obj.pid] = "gone"
          BY <2>2, <3>1, <3>2, CloudDeleteInstances, Zenon DEF NotFound
        <4>4. /\ Earlier(lc.base, claim) /\ lc.base.phase = "exists"
              /\ lc.base.pid # None => seen.pid = lc.base.pid
              /\ seen.deleting /\ lc.base.deleting
          BY <2>0, Zenon DEF CoreInv, CopyInv
        <4> QED BY <2>0, <2>2, <3>1, <4>1, <4>2, <4>3, <4>4, Zenon DEF CopyInv, Finalizing
      <3>5. InstanceInv'
        <4>1. lc'.pc \notin Populated
          BY <3>1, Zenon DEF Populated
        <4> QED BY <2>0, <2>2, <3>2, <4>1, CloudDeleteInv, Zenon
      <3> QED BY <3>3, <3>4, <3>5, Zenon DEF CoreInv
    <2> QED BY <1>3, <2>1, <2>2, Zenon DEF FinalizeDelete
  <1> QED BY <1>1, <1>2, <1>3, Zenon

(* The condition is patched under a lock, so the claim becomes the copy. *)
LEMMA StatusStep ==
    ASSUME TypeOK, CoreInv, FinalizeStatus
    PROVE  CoreInv'
  <1>0. UNCHANGED <<seen, inst, cache, env>> /\ lc.pc = "fStatus" /\ lc.pc \in Finalizing /\ lc \in LcRecs /\ lc.obj \in Claims
    BY Zenon DEF FinalizeStatus, Finalizing, TypeOK, LcRecs
  <1>1. ASSUME NEW w, Finish(w), UNCHANGED claim PROVE CoreInv'
    BY <1>0, <1>1, FinalizeFinish, Zenon
  <1>2. lc.obj.pid # None /\ (~lc.again => inst[lc.obj.pid] = "gone")
    BY <1>0, Zenon DEF CoreInv, CopyInv
  <1>3. ASSUME GoTo("fFinalizer"), ~lc.again, UNCHANGED claim PROVE CoreInv'
    <2>1. lc'.pc = "fFinalizer" /\ lc'.obj = lc.obj /\ lc'.base = lc.base
      BY <1>0, <1>3, Zenon DEF GoTo, LcRecs
    <2> QED BY <1>0, <1>2, <1>3, <2>1, FinalizeFrame, Zenon
  <1>4. ASSUME Exists, Locked(lc), claim' = lc.obj,
               \/ Finish(TRUE)
               \/ ~lc.again /\ lc' = [lc EXCEPT !.pc = "fFinalizer", !.base = claim']
        PROVE  CoreInv'
    <2>1. lc.base = claim /\ claim.phase = "exists"
      BY <1>4, Zenon DEF Locked, Exists
    <2>2. /\ claim'.pid = claim.pid /\ claim'.launched = claim.launched /\ claim'.deleting = claim.deleting
          /\ claim'.phase = claim.phase /\ claim'.fin = claim.fin
      BY <1>0, <1>4, <2>1, FinalizeCopy, Zenon
    <2>3. Earlier(claim, claim') /\ Earlier(claim', claim')
      BY <2>2, Zenon DEF CoreInv, ClaimInv, Earlier
    <2>4. \/ lc'.pc = "idle"
          \/ lc'.pc = "fFinalizer" /\ ~lc.again /\ lc'.obj = claim' /\ lc'.base = claim'
      <3>1. CASE Finish(TRUE)
        BY <3>1, Zenon DEF Finish, NoLc
      <3>2. CASE ~lc.again /\ lc' = [lc EXCEPT !.pc = "fFinalizer", !.base = claim']
        BY <1>0, <1>4, <3>2, Zenon DEF LcRecs
      <3> QED BY <1>4, <3>1, <3>2, Zenon
    <2>5. ClaimInv'
      <3>1. Earlier(seen, claim)'
        BY <1>0, <2>3, EarlierTransitive, Zenon DEF CoreInv, ClaimInv
      <3> QED BY <1>0, <2>2, <3>1, Zenon DEF CoreInv, ClaimInv
    <2>6. LaunchInv'
      BY <2>4, Zenon DEF LaunchInv, Populated
    <2>7. CopyInv'
      <3>1. claim' = [claim' EXCEPT !.term = claim'.term]
        BY <1>0, <1>4, Zenon DEF Claims
      <3>2. (claim.pid # None => seen.pid = claim.pid) /\ seen.deleting /\ claim.deleting
        BY <1>0, <2>1, Zenon DEF CoreInv, CopyInv
      <3>3. CASE lc'.pc = "idle"
        BY <3>3, Zenon DEF CopyInv, Finalizing
      <3>4. CASE lc'.pc = "fFinalizer" /\ ~lc.again /\ lc'.obj = claim' /\ lc'.base = claim'
        <4>1. inst'[claim'.pid] = "gone"
          BY <1>0, <1>2, <1>4, <3>4, Zenon
        <4> QED BY <1>0, <2>1, <2>2, <2>3, <3>1, <3>2, <3>4, <4>1, Zenon DEF CopyInv
      <3> QED BY <2>4, <3>3, <3>4, Zenon
    <2>8. InstanceInv'
      BY <1>0, <2>2, FinalizeCopy, Zenon DEF CoreInv, InstanceInv
    <2> QED BY <2>5, <2>6, <2>7, <2>8, Zenon DEF CoreInv
  <1> QED BY <1>1, <1>3, <1>4, Zenon DEF FinalizeStatus

(* The finalizer is removed from the version whose instance was not found.   *)
LEMMA RemoveStep ==
    ASSUME TypeOK, CoreInv, FinalizeRemove
    PROVE  CoreInv'
  <1>0. UNCHANGED <<seen, inst, cache, env>> /\ lc.pc = "fFinalizer" /\ lc.pc \in Finalizing /\ claim \in Claims
    BY Zenon DEF FinalizeRemove, Finalizing, TypeOK
  <1>1. CASE Finish(Exists) /\ UNCHANGED claim
    BY <1>0, <1>1, FinalizeFinish, Zenon
  <1>2. CASE Exists /\ Locked(lc) /\ claim' = [claim EXCEPT !.fin = FALSE, !.phase = "gone"] /\ Finish(FALSE)
    <2>1. /\ claim'.pid = claim.pid /\ claim'.launched = claim.launched /\ claim'.deleting = claim.deleting
          /\ claim'.phase = "gone"
      BY <1>0, <1>2, Zenon DEF Claims
    <2>2. lc'.pc = "idle" /\ lc.base = claim
      BY <1>2, Zenon DEF Finish, NoLc, Locked
    <2>3. Earlier(claim, claim')
      BY <2>1, Zenon DEF CoreInv, ClaimInv, Earlier
    <2>4. seen.deleting
      BY <1>0, Zenon DEF CoreInv, CopyInv
    <2>5. ClaimInv'
      <3>1. Earlier(seen, claim)'
        BY <1>0, <2>3, EarlierTransitive, Zenon DEF CoreInv, ClaimInv
      <3> QED BY <1>0, <2>1, <2>4, <3>1, Zenon DEF CoreInv, ClaimInv
    <2>6. LaunchInv' /\ CopyInv'
      BY <2>2, Zenon DEF LaunchInv, CopyInv, Populated, Finalizing
    <2>7. InstanceInv'
      <3>1. claim.pid # None => inst[claim.pid] = "gone"
        BY <1>0, <2>2, FinalizeCopy, Zenon DEF CoreInv, CopyInv
      <3>2. ~env.lost => \A i \in Instances : inst[i] \notin {"running", "terminating"}
        BY <1>0, <3>1, FinalizeCopy, LifecycleAssumption, Zenon DEF CoreInv, InstanceInv
      <3> QED BY <1>0, <2>1, <3>2, Zenon DEF CoreInv, InstanceInv
    <2> QED BY <2>5, <2>6, <2>7, Zenon DEF CoreInv
  <1> QED BY <1>1, <1>2, Zenon DEF FinalizeRemove

(* node.termination deletes the claim, terminates its instance and patches   *)
(* two of its conditions.                                                    *)
LEMMA TerminationStepInv ==
    ASSUME TypeOK, CoreInv, TerminationInv, NEW n \in Nodes, TerminationStep(n) \/ NtFails(n)
    PROVE  CoreInv'
  <1>0. /\ claim \in Claims /\ env \in Envs /\ nt[n].obj \in Claims /\ nt[n].base \in Claims
        /\ nt[n].obj = [nt[n].base EXCEPT !.drained = nt[n].obj.drained, !.term = nt[n].obj.term]
        /\ nt[n].obj.pid # None => nt[n].obj.pid = claim.pid
    BY Zenon DEF TypeOK, TerminationInv, NtRecs
  <1>1. CASE NtRead(n) \/ NtCheck(n) \/ NtDrain(n) \/ NtRemove(n)
    <2>1. UNCHANGED <<claim, seen, inst, cache, lc, env>>
      BY <1>1, Zenon DEF NtRead, NtCheck, NtDrain, NtRemove
    <2> QED BY <2>1, Frame, Zenon
  <1>2. CASE NtFails(n)
    <2>1. UNCHANGED <<claim, seen, inst, cache, lc>>
      BY <1>2, Zenon DEF NtFails
    <2>2. env'.lost = env.lost /\ env'.forgot = env.forgot
      BY <1>0, <1>2, Zenon DEF NtFails, Envs
    <2> QED BY <2>1, <2>2, Frame, Zenon
  <1>3. CASE NtDeleteClaim(n)
    <2>1. UNCHANGED <<seen, inst, cache, lc, env>> /\ (DeleteClaimObj \/ UNCHANGED claim)
      BY <1>3, Zenon DEF NtDeleteClaim
    <2> QED BY <2>1, DeleteFields, ClaimFrame, Zenon
  <1>4. CASE NtTerminate(n)
    <2>1. UNCHANGED <<claim, seen, cache, lc, env>> /\ (UNCHANGED inst \/ CloudDelete(nt[n].obj.pid))
      BY <1>4, Zenon DEF NtTerminate
    <2>2. CASE UNCHANGED inst
      BY <2>1, <2>2, Frame, Zenon
    <2>3. CASE CloudDelete(nt[n].obj.pid)
      <3>1. ClaimInv' /\ LaunchInv'
        BY <2>1, Zenon DEF CoreInv, ClaimInv, LaunchInv
      <3>2. CopyInv'
        <4>1. \A i \in Instances : inst[i] = "gone" => inst'[i] = "gone"
          BY <2>3, CloudDeleteInstances, Zenon
        <4>2. lc.obj.pid # None => lc.obj.pid \in Instances
          BY Zenon DEF TypeOK, LcRecs, Claims
        <4> QED BY <2>1, <4>1, <4>2, Zenon DEF CoreInv, CopyInv
      <3>3. InstanceInv'
        BY <1>0, <2>1, <2>3, CloudDeleteInv, Zenon
      <3> QED BY <3>1, <3>2, <3>3, Zenon DEF CoreInv
    <2> QED BY <2>1, <2>2, <2>3, Zenon
  <1>5. CASE NtStatus(n)
    <2>1. /\ UNCHANGED <<seen, inst, cache, lc, env>>
          /\ UNCHANGED claim \/ (Locked(nt[n]) /\ claim' = nt[n].obj)
      BY <1>5, Zenon DEF NtStatus
    <2>2. CASE UNCHANGED claim
      BY <2>1, <2>2, Frame, Zenon
    <2>3. CASE Locked(nt[n]) /\ claim' = nt[n].obj
      <3>1. claim' = [claim EXCEPT !.drained = nt[n].obj.drained, !.term = nt[n].obj.term]
        BY <1>0, <2>3, Zenon DEF Locked
      <3>2. /\ claim'.pid = claim.pid /\ claim'.launched = claim.launched /\ claim'.fin = claim.fin
            /\ claim'.deleting = claim.deleting /\ claim'.phase = claim.phase
        BY <1>0, <3>1, Zenon DEF Claims
      <3> QED BY <2>1, <3>2, ClaimFrame, Zenon
    <2> QED BY <2>1, <2>2, <2>3, Zenon
  <1> QED BY <1>1, <1>2, <1>3, <1>4, <1>5, Zenon DEF TerminationStep

(* The kubelets, the scheduler, the cloud, the other controllers. *)
LEMMA WorldStepInv ==
    ASSUME TypeOK, CoreInv,
           \/ \E n \in Nodes : WorldStep(n) \/ Disturbance(n)
           \/ \E i \in Instances : InstanceGone(i) \/ InstanceLost(i)
           \/ GarbageCollect \/ Expire \/ SyncClaim \/ Restart \/ Tick \/ TerminationTimePasses
    PROVE  CoreInv'
  <1>0. env \in Envs
    BY Zenon DEF TypeOK
  <1>1. ASSUME NEW n \in Nodes, WorldStep(n) PROVE CoreInv'
    <2>1. UNCHANGED <<claim, seen, inst, cache, lc, env>>
      BY <1>1, Zenon DEF WorldStep, KubeletStops, DeleteNode, SchedulerSeesTaint, PodLeaves, VolumeDetaches, SetNode
    <2> QED BY <2>1, Frame, Zenon
  <1>2. ASSUME NEW n \in Nodes, Disturbance(n) PROVE CoreInv'
    <2>1. UNCHANGED <<claim, seen, inst, cache, lc>>
      BY <1>2, Zenon DEF Disturbance, KubeletReady, UserDeletesNode, BindPod, Join, SetNode
    <2>2. env'.lost = env.lost /\ env'.forgot = env.forgot
      BY <1>0, <1>2, Zenon DEF Disturbance, KubeletReady, UserDeletesNode, BindPod, Join, Envs
    <2> QED BY <2>1, <2>2, Frame, Zenon
  <1>3. ASSUME NEW i \in Instances, InstanceGone(i) \/ InstanceLost(i) PROVE CoreInv'
    <2>1. UNCHANGED <<claim, seen, cache, lc>> /\ inst' = [inst EXCEPT ![i] = "gone"] /\ inst[i] # "none"
      BY <1>3, Zenon DEF InstanceGone, InstanceLost
    <2>2. env'.lost = env.lost /\ env'.forgot = env.forgot
      BY <1>0, <1>3, Zenon DEF InstanceGone, InstanceLost, Envs
    <2>3. inst'[i] = "gone" /\ \A j \in Instances \ {i} : inst'[j] = inst[j]
      BY <2>1, Zenon DEF TypeOK
    <2>4. ClaimInv' /\ LaunchInv'
      BY <2>1, Zenon DEF CoreInv, ClaimInv, LaunchInv
    <2>5. CopyInv'
      <3>1. \A j \in Instances : inst[j] = "gone" => inst'[j] = "gone"
        BY <2>3, Zenon
      <3>2. lc.obj.pid # None => lc.obj.pid \in Instances
        BY Zenon DEF TypeOK, LcRecs, Claims
      <3> QED BY <2>1, <3>1, <3>2, Zenon DEF CoreInv, CopyInv
    <2>6. InstanceInv'
      <3>1. \A j \in Instances : /\ inst'[j] # "none" => inst[j] # "none"
                                 /\ inst'[j] = "terminating" => inst[j] = "terminating"
                                 /\ inst'[j] \in {"running", "terminating"} => inst[j] \in {"running", "terminating"}
        BY <2>1, <2>3, Zenon
      <3>2. /\ \A j \in Instances : inst'[j] # "none" => claim.fin \/ claim.phase = "gone"
            /\ \A j \in Instances : inst'[j] = "terminating" => claim.pid = j
        BY <3>1, Zenon DEF CoreInv, InstanceInv
      <3>3. ~env.forgot => \A j \in Instances : inst'[j] # "none" => claim.pid = j \/ cache = j
        BY <3>1, Zenon DEF CoreInv, InstanceInv
      <3>4. ~env.lost => \A j \in Instances : inst'[j] \in {"running", "terminating"} =>
               claim.phase = "exists" /\ (claim.pid = j \/ (lc.pc \in Populated /\ lc.obj.pid = j))
        BY <3>1, Zenon DEF CoreInv, InstanceInv
      <3> QED BY <2>1, <2>2, <3>2, <3>3, <3>4, Zenon DEF InstanceInv
    <2> QED BY <2>4, <2>5, <2>6, Zenon DEF CoreInv
  <1>4. CASE GarbageCollect \/ Expire
    <2>1. UNCHANGED <<seen, inst, cache, lc>> /\ DeleteClaimObj
      BY <1>4, Zenon DEF GarbageCollect, Expire
    <2>2. env'.lost = env.lost /\ env'.forgot = env.forgot
      BY <1>0, <1>4, Zenon DEF GarbageCollect, Expire, Envs
    <2> QED BY <2>1, <2>2, DeleteFields, ClaimFrame, Zenon
  <1>5. CASE SyncClaim
    <2>1. UNCHANGED <<claim, inst, cache, lc, env>> /\ seen' = claim
      BY <1>5, Zenon DEF SyncClaim
    <2>2. ClaimInv'
      BY <2>1, Zenon DEF CoreInv, ClaimInv, Earlier
    <2>3. LaunchInv' /\ InstanceInv'
      BY <2>1, Zenon DEF CoreInv, LaunchInv, InstanceInv
    <2>4. CopyInv'
      <3>1. lc.pc \in Finalizing => lc.pc \notin {"idle", "sleep"}
        BY Zenon DEF Finalizing
      <3> QED BY <2>1, <3>1, Zenon DEF CoreInv, CopyInv, Earlier
    <2> QED BY <2>2, <2>3, <2>4, Zenon DEF CoreInv
  <1>6. CASE Restart
    <2>1. UNCHANGED <<claim, inst>> /\ cache' = None /\ seen' = claim /\ lc'.pc = "idle"
      BY <1>6, Zenon DEF Restart, NoLc
    <2>2. /\ env'.lost = (env.lost \/ Unrecorded)
          /\ env'.forgot = (env.forgot \/ \E i \in Instances : inst[i] # "none" /\ claim.pid # i)
      BY <1>0, <1>6, Zenon DEF Restart, Envs
    <2>3. ClaimInv'
      BY <2>1, Zenon DEF CoreInv, ClaimInv, Earlier
    <2>4. LaunchInv' /\ CopyInv'
      BY <2>1, Zenon DEF LaunchInv, CopyInv, Populated, Finalizing
    <2>5. InstanceInv'
      BY <2>1, <2>2, Zenon DEF CoreInv, InstanceInv, Unrecorded
    <2> QED BY <2>3, <2>4, <2>5, Zenon DEF CoreInv
  <1>7. CASE Tick \/ TerminationTimePasses
    <2>1. UNCHANGED <<claim, seen, inst, cache, lc, env>>
      BY <1>7, Zenon DEF Tick, TerminationTimePasses
    <2> QED BY <2>1, Frame, Zenon
  <1> QED BY <1>1, <1>2, <1>3, <1>4, <1>5, <1>6, <1>7, Zenon

(* The instance a claim records is never replaced. *)
LEMMA RecordStays ==
    ASSUME TypeOK, CoreInv, TerminationInv, Next
    PROVE  claim.pid # None => claim'.pid = claim.pid
  <1>0. claim \in Claims
    BY Zenon DEF TypeOK
  <1>1. CASE UNCHANGED claim
    BY <1>1, Zenon
  <1>2. CASE DeleteClaimObj
    BY <1>2, DeleteFields, Zenon
  <1>3. CASE claim' = [claim EXCEPT !.fin = TRUE]
    BY <1>0, <1>3, Zenon DEF Claims
  <1>4. CASE LcPatch
    <2>1. lc.pc = "patch" /\ (claim' = Patched \/ UNCHANGED claim)
      BY <1>4, Zenon DEF LcPatch
    <2>2. claim.pid # None => Patched.pid = claim.pid
      BY <2>1, PatchedFields, Zenon DEF CoreInv, ClaimInv, LaunchInv, Populated
    <2> QED BY <2>1, <2>2, Zenon
  <1>5. CASE claim' = [claim EXCEPT !.ann = TRUE]
    BY <1>0, <1>5, Zenon DEF Claims
  <1>6. CASE lc.pc = "fStatus" /\ Locked(lc) /\ claim' = lc.obj
    <2>1. lc.obj.pid = lc.base.pid
      BY <1>6, FinalizeCopy, Zenon DEF Finalizing
    <2> QED BY <1>6, <2>1, Zenon DEF Locked
  <1>7. CASE claim' = [claim EXCEPT !.fin = FALSE, !.phase = "gone"]
    BY <1>0, <1>7, Zenon DEF Claims
  <1>8. ASSUME NEW n \in Nodes, Locked(nt[n]), claim' = nt[n].obj PROVE claim'.pid = claim.pid
    <2>1. claim' = [claim EXCEPT !.drained = nt[n].obj.drained, !.term = nt[n].obj.term]
      BY <1>8, Zenon DEF Locked, TerminationInv
    <2> QED BY <1>0, <2>1, Zenon DEF Claims
  <1>9. CASE LifecycleStep
    <2>1. CASE LcAddFinalizer \/ Liveness
      BY <1>1, <1>2, <1>3, <2>1, Zenon DEF LcAddFinalizer, Liveness
    <2>2. CASE FinalizeAnnotate \/ FinalizeRemove
      BY <1>1, <1>5, <1>7, <2>2, Zenon DEF FinalizeAnnotate, FinalizeRemove
    <2>3. CASE FinalizeStatus
      BY <1>1, <1>6, <2>3, Zenon DEF FinalizeStatus
    <2>4. CASE \/ LcRead \/ LaunchKnown \/ LaunchCached \/ SkipRegistration \/ RegisterDuplicate \/ SkipInitialization
               \/ LcSleepEnds \/ LcNothingToPatch \/ FinalizeNodes \/ FinalizeDelete
               \/ \E i \in Instances : LaunchCreate(i)
               \/ \E n \in Nodes : RegisterNode(n) \/ InitializeNode(n)
      BY <1>1, <2>4, Zenon DEF LcRead, LaunchKnown, LaunchCached, SkipRegistration, RegisterDuplicate,
            SkipInitialization, LcSleepEnds, LcNothingToPatch, FinalizeNodes, FinalizeDelete, LaunchCreate,
            RegisterNode, InitializeNode
    <2> QED BY <1>4, <1>9, <2>1, <2>2, <2>3, <2>4, Zenon DEF LifecycleStep
  <1>10. CASE LifecycleFails
    BY <1>1, <1>2, <1>10, Zenon DEF LifecycleFails, LaunchFails, LcCallFails, LcPatchFails, FinalizeDeleteFails
  <1>11. ASSUME NEW n \in Nodes, TerminationStep(n) \/ NtFails(n) PROVE claim.pid # None => claim'.pid = claim.pid
    <2>1. CASE NtStatus(n)
      BY <1>1, <1>8, <2>1, Zenon DEF NtStatus
    <2> QED BY <1>1, <1>2, <1>11, <2>1, Zenon
          DEF TerminationStep, NtRead, NtDeleteClaim, NtCheck, NtDrain, NtTerminate, NtRemove, NtFails
  <1>12. ASSUME NEW n \in Nodes, WorldStep(n) \/ Disturbance(n) PROVE UNCHANGED claim
    BY <1>12, Zenon DEF WorldStep, KubeletStops, DeleteNode, SchedulerSeesTaint, PodLeaves, VolumeDetaches,
          Disturbance, KubeletReady, UserDeletesNode, BindPod, Join, SetNode
  <1>13. CASE \/ \E i \in Instances : InstanceGone(i) \/ InstanceLost(i)
              \/ GarbageCollect \/ Expire \/ SyncClaim \/ Restart \/ Tick \/ TerminationTimePasses
    BY <1>1, <1>2, <1>13, Zenon DEF InstanceGone, InstanceLost, GarbageCollect, Expire, SyncClaim, Restart, Tick,
          TerminationTimePasses
  <1> QED BY <1>1, <1>9, <1>10, <1>11, <1>12, <1>13, Zenon DEF Next

(* The copies of node.termination: taken from the cache, changed in two      *)
(* conditions, and dropped.                                                  *)
LEMMA TerminationCopies ==
    ASSUME TypeOK, CoreInv, TerminationInv, Next
    PROVE  TerminationInv'
  <1> DEFINE Kept(r) == /\ r.obj = [r.base EXCEPT !.drained = r.obj.drained, !.term = r.obj.term]
                        /\ r.obj.pid # None => r.obj.pid = claim.pid
  <1>0. /\ nt \in [Nodes -> NtRecs] /\ \A n \in Nodes : nt[n] \in NtRecs /\ nt[n].obj \in Claims /\ nt[n].base \in Claims
        /\ seen \in Claims /\ \A n \in Nodes : Kept(nt[n])
    BY Zenon DEF TypeOK, TerminationInv, NtRecs
  <1>1. SUFFICES \A n \in Nodes : Kept(nt'[n])
    BY <1>1, RecordStays, Zenon DEF TerminationInv
  <1>2. ASSUME NEW o \in Claims PROVE o = [o EXCEPT !.drained = o.drained, !.term = o.term]
    BY Zenon DEF Claims
  <1>3. Kept(NoNt)
    <2>1. NoNt.obj = NewClaim /\ NoNt.base = NewClaim /\ NewClaim.pid = None /\ NewClaim \in Claims
      BY ClaimTypes, Zenon DEF NoNt, NewClaim
    <2> QED BY <1>2, <2>1, Zenon
  <1>4. ASSUME NEW n \in Nodes, NEW r, Kept(r), nt' = [nt EXCEPT ![n] = r] PROVE \A m \in Nodes : Kept(nt'[m])
    BY <1>0, <1>4, Zenon
  <1>5. ASSUME NEW n \in Nodes, NEW p, nt' = [nt EXCEPT ![n].pc = p] PROVE \A m \in Nodes : Kept(nt'[m])
    <2>1. [nt[n] EXCEPT !.pc = p].obj = nt[n].obj /\ [nt[n] EXCEPT !.pc = p].base = nt[n].base
      BY <1>0, Zenon DEF NtRecs
    <2>2. Kept([nt[n] EXCEPT !.pc = p])
      BY <1>0, <2>1, Zenon
    <2> QED BY <1>4, <1>5, <2>2, Zenon
  <1>6. ASSUME NEW n \in Nodes, NEW w, NtFinish(n, w) PROVE \A m \in Nodes : Kept(nt'[m])
    BY <1>3, <1>4, <1>6, Zenon DEF NtFinish
  <1>7. CASE UNCHANGED nt
    BY <1>0, <1>7, Zenon
  <1>8. ASSUME NEW n \in Nodes, NtRead(n) PROVE \A m \in Nodes : Kept(nt'[m])
    <2>1. seen.pid # None => seen.pid = claim.pid
      BY Zenon DEF CoreInv, ClaimInv, Earlier
    <2>2. NewClaim \in Claims /\ NewClaim.pid = None
      BY ClaimTypes, Zenon DEF NewClaim
    <2>3. \A o \in {seen, NewClaim} : Kept([pc |-> "claim", obj |-> o, base |-> o, again |-> FALSE])
      <3> SUFFICES ASSUME NEW o \in {seen, NewClaim} PROVE Kept([pc |-> "claim", obj |-> o, base |-> o, again |-> FALSE])
        BY Zenon
      <3>1. o \in Claims /\ (o.pid # None => o.pid = claim.pid)
        BY <1>0, <2>1, <2>2, Zenon
      <3> QED BY <1>2, <3>1, Zenon
    <2>4. \/ nt' = [nt EXCEPT ![n] = NoNt]
          \/ \E o \in {seen, NewClaim} : nt' = [nt EXCEPT ![n] = [pc |-> "claim", obj |-> o, base |-> o, again |-> FALSE]]
      BY <1>8, Zenon DEF NtRead
    <2> QED BY <1>3, <1>4, <2>3, <2>4, Zenon
  <1>9. ASSUME NEW n \in Nodes, NEW r, NEW d, NEW t, nt' = [nt EXCEPT ![n] = r],
               r.obj = [nt[n].obj EXCEPT !.drained = d, !.term = t], r.base = nt[n].base
        PROVE  \A m \in Nodes : Kept(nt'[m])
    <2>1. \A o \in Claims : /\ [o EXCEPT !.drained = d, !.term = t].drained = d
                            /\ [o EXCEPT !.drained = d, !.term = t].term = t
                            /\ [o EXCEPT !.drained = d, !.term = t].pid = o.pid
      BY Zenon DEF Claims
    <2>2. r.obj.drained = d /\ r.obj.term = t /\ r.obj.pid = nt[n].obj.pid
      <3>1. nt[n].obj \in Claims
        BY <1>0, Zenon
      <3> QED BY <1>9, <2>1, <3>1, Zenon
    <2>3. nt[n].obj = [nt[n].base EXCEPT !.drained = nt[n].obj.drained, !.term = nt[n].obj.term]
      BY <1>0, Zenon
    <2>4. \A b \in Claims : \A x, y : [[b EXCEPT !.drained = x, !.term = y] EXCEPT !.drained = d, !.term = t]
                                         = [b EXCEPT !.drained = d, !.term = t]
      BY Zenon DEF Claims
    <2>5. r.obj = [nt[n].base EXCEPT !.drained = d, !.term = t]
      BY <1>0, <1>9, <2>3, <2>4, Zenon
    <2>6. Kept(r)
      BY <1>0, <1>9, <2>2, <2>5, Zenon
    <2> QED BY <1>4, <1>9, <2>6, Zenon
  <1>10. ASSUME NEW n \in Nodes, NtDrain(n) PROVE \A m \in Nodes : Kept(nt'[m])
    <2>0. nt[n].obj \in Claims
      BY <1>0, Zenon
    <2>1. ASSUME NEW d, NEW e
          PROVE  LET o == nt[n].obj
                     f == [o EXCEPT !.drained = d]
                 IN  /\ o = [o EXCEPT !.drained = o.drained, !.term = o.term]
                     /\ f = [o EXCEPT !.drained = d, !.term = o.term]
                     /\ [f EXCEPT !.drained = e] = [o EXCEPT !.drained = e, !.term = o.term]
      BY <2>0, Zenon DEF Claims
    <2>2. PICK o, a, p : /\ nt' = [nt EXCEPT ![n].obj = o, ![n].again = a, ![n].pc = p]
                         /\ \/ o = nt[n].obj
                            \/ \E d : o = [nt[n].obj EXCEPT !.drained = d]
                            \/ \E d, e : o = [[nt[n].obj EXCEPT !.drained = d] EXCEPT !.drained = e]
      BY <1>10, Zenon DEF NtDrain
    <2>3. PICK d : o = [nt[n].obj EXCEPT !.drained = d, !.term = nt[n].obj.term]
      <3>1. CASE o = nt[n].obj
        <4>1. o = [nt[n].obj EXCEPT !.drained = nt[n].obj.drained, !.term = nt[n].obj.term]
          BY <2>1, <3>1, Zenon
        <4> QED BY <4>1, Zenon
      <3>2. ASSUME NEW d, o = [nt[n].obj EXCEPT !.drained = d]
            PROVE  o = [nt[n].obj EXCEPT !.drained = d, !.term = nt[n].obj.term]
        BY <2>1, <3>2, Zenon
      <3>3. ASSUME NEW d, NEW e, o = [[nt[n].obj EXCEPT !.drained = d] EXCEPT !.drained = e]
            PROVE  o = [nt[n].obj EXCEPT !.drained = e, !.term = nt[n].obj.term]
        BY <2>1, <3>3, Zenon
      <3> QED BY <2>2, <3>1, <3>2, <3>3, Zenon
    <2>4. nt' = [nt EXCEPT ![n] = [nt[n] EXCEPT !.obj = o, !.again = a, !.pc = p]]
      BY <1>0, <2>2, Zenon
    <2>5. /\ [nt[n] EXCEPT !.obj = o, !.again = a, !.pc = p].obj = o
          /\ [nt[n] EXCEPT !.obj = o, !.again = a, !.pc = p].base = nt[n].base
      BY <1>0, Zenon DEF NtRecs
    <2> QED BY <1>9, <2>3, <2>4, <2>5, Zenon
  <1>11. ASSUME NEW n \in Nodes, NtTerminate(n) PROVE \A m \in Nodes : Kept(nt'[m])
    <2>1. CASE nt' = [nt EXCEPT ![n].pc = "status", ![n].again = TRUE]
      <3>1. nt' = [nt EXCEPT ![n] = [nt[n] EXCEPT !.pc = "status", !.again = TRUE]]
        BY <1>0, <2>1, Zenon
      <3>2. /\ [nt[n] EXCEPT !.pc = "status", !.again = TRUE].obj = nt[n].obj
            /\ [nt[n] EXCEPT !.pc = "status", !.again = TRUE].base = nt[n].base
        BY <1>0, Zenon DEF NtRecs
      <3>3. Kept([nt[n] EXCEPT !.pc = "status", !.again = TRUE])
        BY <1>0, <3>2, Zenon
      <3> QED BY <1>4, <3>1, <3>3, Zenon
    <2>2. CASE nt' = [nt EXCEPT ![n].pc = "status", ![n].obj.term = TRUE, ![n].again = ~NotFound(nt[n].obj.pid)]
      <3> DEFINE o == [nt[n].obj EXCEPT !.term = TRUE]
                 a == ~NotFound(nt[n].obj.pid)
      <3>1. nt' = [nt EXCEPT ![n] = [nt[n] EXCEPT !.pc = "status", !.obj = o, !.again = a]]
        BY <1>0, <2>2, Zenon DEF NtRecs
      <3>2. o = [nt[n].obj EXCEPT !.drained = nt[n].obj.drained, !.term = TRUE]
        BY <1>0, Zenon DEF Claims
      <3> HIDE DEF o, a
      <3>3. /\ [nt[n] EXCEPT !.pc = "status", !.obj = o, !.again = a].obj = o
            /\ [nt[n] EXCEPT !.pc = "status", !.obj = o, !.again = a].base = nt[n].base
        BY <1>0, Zenon DEF NtRecs
      <3> QED BY <1>9, <3>1, <3>2, <3>3, Zenon
    <2>3. CASE nt' = [nt EXCEPT ![n].pc = "status"]
      BY <1>5, <2>3, Zenon
    <2> QED BY <1>11, <2>1, <2>2, <2>3, Zenon DEF NtTerminate
  <1>12. ASSUME NEW n \in Nodes, NtDeleteClaim(n) \/ NtCheck(n) \/ NtStatus(n) PROVE \A m \in Nodes : Kept(nt'[m])
    BY <1>5, <1>6, <1>12, Zenon DEF NtDeleteClaim, NtCheck, NtStatus, NtGoTo
  <1>13. ASSUME NEW n \in Nodes, NtRemove(n) \/ NtFails(n) PROVE \A m \in Nodes : Kept(nt'[m])
    BY <1>3, <1>4, <1>6, <1>13, Zenon DEF NtRemove, NtFails
  <1>14. CASE LifecycleStep \/ LifecycleFails
    <2>1. UNCHANGED nt
      BY <1>14, Zenon DEF LifecycleStep, LifecycleFails, LcRead, LcAddFinalizer, LaunchKnown, LaunchCached,
            LaunchCreate, LaunchFails, SkipRegistration, RegisterDuplicate, RegisterNode, InitializeNode,
            SkipInitialization, Liveness, LcCallFails, LcPatch, LcSleepEnds, LcPatchFails, LcNothingToPatch,
            FinalizeAnnotate, FinalizeNodes, FinalizeDelete, FinalizeDeleteFails, FinalizeStatus, FinalizeRemove
    <2> QED BY <1>7, <2>1, Zenon
  <1>15. ASSUME NEW n \in Nodes, WorldStep(n) \/ Disturbance(n) PROVE UNCHANGED nt
    BY <1>15, Zenon DEF WorldStep, KubeletStops, DeleteNode, SchedulerSeesTaint, PodLeaves, VolumeDetaches,
          Disturbance, KubeletReady, UserDeletesNode, BindPod, Join, SetNode
  <1>16. CASE \/ \E i \in Instances : InstanceGone(i) \/ InstanceLost(i)
              \/ GarbageCollect \/ Expire \/ SyncClaim \/ Tick \/ TerminationTimePasses
    BY <1>7, <1>16, Zenon DEF InstanceGone, InstanceLost, GarbageCollect, Expire, SyncClaim, Tick, TerminationTimePasses
  <1>17. CASE Restart
    BY <1>3, <1>17, Zenon DEF Restart
  <1>18. ASSUME NEW n \in Nodes, TerminationStep(n) PROVE \A m \in Nodes : Kept(nt'[m])
    BY <1>8, <1>10, <1>11, <1>12, <1>13, <1>18, Zenon DEF TerminationStep
  <1> QED BY <1>7, <1>13, <1>14, <1>15, <1>16, <1>17, <1>18, Zenon DEF Next

-----------------------------------------------------------------------------
(* At the start there is a claim, no instance and no reconcile. *)
LEMMA LifecycleStarts == Init => LifecycleInv
  <1> SUFFICES ASSUME Init PROVE LifecycleInv
    OBVIOUS
  <1>0. /\ NewClaim \in Claims /\ NewClaim.phase = "absent" /\ NewClaim.pid = None /\ ~NewClaim.launched
        /\ ~NewClaim.fin /\ ~NewClaim.deleting
    BY ClaimTypes, Zenon DEF NewClaim
  <1>1. claim \in Claims /\ claim.phase = "exists" /\ claim.pid = None /\ ~claim.launched
    BY <1>0, Zenon DEF Init, Claims
  <1>2. lc.pc = "idle" /\ seen = NewClaim /\ cache = None
    BY Zenon DEF Init, NoLc
  <1>3. TypeOK
    <2>1. clock \in 0..2
      BY DEF Init
    <2> QED BY <1>0, <1>1, <2>1, NodeTypes, RecTypes, LifecycleAssumption, Zenon DEF Init, TypeOK
  <1>4. ClaimInv
    BY <1>0, <1>1, <1>2, Zenon DEF ClaimInv, Earlier
  <1>5. LaunchInv /\ CopyInv
    BY <1>2, Zenon DEF LaunchInv, CopyInv, Populated, Finalizing
  <1>6. InstanceInv
    BY Zenon DEF Init, InstanceInv
  <1>7. TerminationInv
    <2>1. NewClaim = [NewClaim EXCEPT !.drained = NewClaim.drained, !.term = NewClaim.term]
      BY <1>0, Zenon DEF Claims
    <2>2. \A n \in Nodes : nt[n].obj = NewClaim /\ nt[n].base = NewClaim
      BY Zenon DEF Init, NoNt
    <2> QED BY <1>0, <2>1, <2>2, Zenon DEF TerminationInv
  <1> QED BY <1>3, <1>4, <1>5, <1>6, <1>7, Zenon DEF LifecycleInv, CoreInv

(* Every step of every controller, of the world and of the clock preserves   *)
(* what is recorded of the instance: in the claim, in Launch.cache, in the   *)
(* copies that reconciles work on.                                           *)
LEMMA LifecycleStepInv == LifecycleInv /\ [Next]_vars => LifecycleInv'
  <1> SUFFICES ASSUME LifecycleInv, [Next]_vars PROVE LifecycleInv'
    OBVIOUS
  <1>0. TypeOK /\ CoreInv /\ TerminationInv
    BY Zenon DEF LifecycleInv
  <1>1. TypeOK'
    BY <1>0, TypeStep, Zenon
  <1>2. CASE UNCHANGED vars
    <2>1. TerminationInv'
      BY <1>0, <1>2, Zenon DEF TerminationInv, vars
    <2>2. CoreInv'
      BY <1>0, <1>2, Frame, Zenon DEF vars
    <2> QED BY <1>1, <2>1, <2>2, Zenon DEF LifecycleInv
  <1>3. CASE Next
    <2>1. TerminationInv'
      BY <1>0, <1>3, TerminationCopies, Zenon
    <2>2. CASE LifecycleStep
      BY <1>0, <2>2, ReadStep, FinalizerStep, KnownStep, CachedStep, CreateStep, PopulatedStep, PatchStep,
         FinishStep, AnnotateStep, FinalizeDeleteStep, StatusStep, RemoveStep, <1>1, <2>1, Zenon
         DEF LifecycleStep, LifecycleInv
    <2>3. CASE LifecycleFails
      BY <1>0, <2>3, LaunchFailsStep, PopulatedStep, FinishStep, FinalizeDeleteStep, <1>1, <2>1, Zenon
         DEF LifecycleFails, LifecycleInv
    <2>4. ASSUME NEW n \in Nodes, TerminationStep(n) \/ NtFails(n) PROVE LifecycleInv'
      BY <1>0, <1>1, <2>1, <2>4, TerminationStepInv, Zenon DEF LifecycleInv
    <2>5. ASSUME \/ \E n \in Nodes : WorldStep(n) \/ Disturbance(n)
                 \/ \E i \in Instances : InstanceGone(i) \/ InstanceLost(i)
                 \/ GarbageCollect \/ Expire \/ SyncClaim \/ Restart \/ Tick \/ TerminationTimePasses
          PROVE  LifecycleInv'
      BY <1>0, <1>1, <2>1, <2>5, WorldStepInv, Zenon DEF LifecycleInv
    <2> QED BY <1>3, <2>2, <2>3, <2>4, <2>5, Zenon DEF Next
  <1> QED BY <1>2, <1>3, Zenon

(* At every moment each instance of the claim is recorded in the claim, in   *)
(* Launch.cache or in the reconcile that launched it, and every copy a       *)
(* controller works on agrees with the record (launch.go:63-80,              *)
(* controller.go:147-267).                                                   *)
THEOREM LifecycleInvariant == Spec => []LifecycleInv
  BY LifecycleStarts, LifecycleStepInv, PTL DEF Spec

(* For any number of instances and Nodes, any bounds on errors, restarts and *)
(* deletions, and any lag of the cache: a claim launches at most one         *)
(* instance, unless the process stopped while only Launch.cache knew of it,  *)
(* and one that is gone leaves no instance, unless the patch that records it *)
(* never succeeded.                                                          *)
THEOREM InstancesAlwaysKept == Spec => []InstancesKept
  <1>1. LifecycleInv => InstancesKept
    <2> SUFFICES ASSUME LifecycleInv PROVE InstancesKept
      OBVIOUS
    <2>1. NoInstanceLeak
      <3>1. ASSUME NEW i \in Instances PROVE inst[i] \in {"none", "running", "terminating", "gone"}
        BY Zenon DEF LifecycleInv, TypeOK
      <3> QED BY <3>1, Zenon DEF LifecycleInv, CoreInv, InstanceInv, NoInstanceLeak
    <2>2. OneInstance
      <3>1. claim.pid # None => cache \in {None, claim.pid}
        BY Zenon DEF LifecycleInv, CoreInv, ClaimInv
      <3>2. ~env.forgot => \A i \in Instances : inst[i] # "none" => claim.pid = i \/ cache = i
        BY Zenon DEF LifecycleInv, CoreInv, InstanceInv
      <3> QED BY <3>1, <3>2, LifecycleAssumption, Zenon DEF OneInstance
    <2> QED BY <2>1, <2>2, Zenon DEF InstancesKept
  <1> QED BY <1>1, LifecycleInvariant, PTL
=============================================================================
