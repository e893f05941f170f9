---------------------------- MODULE NodePoolHealth ----------------------------
(***************************************************************************)
(* The NodeRegistrationHealthy condition of one NodePool: the ring buffer  *)
(* of registration results in memory, the NodeClaim reconciles that count  *)
(* a success (registration) or a failure (liveness), and the               *)
(* registrationhealth controller that fills the buffer after a restart and *)
(* flushes it when the NodePool or its NodeClass changed.                  *)
(***************************************************************************)
EXTENDS Integers, Sequences, FiniteSets

CONSTANTS
    BufferSize,     \* capacity of the buffer; half of it makes a pool unhealthy
    Workers,        \* NodeClaim reconciles that run at the same time
    Kinds,          \* results of a NodeClaim: "ok", "fail", or "both" for two timeouts at once
    MaxFailures, MaxEdits, MaxRestarts,  \* bounds, and
    MaxDisturbances                       \* how many of these a behaviour has

ASSUME HealthAssumption ==
    /\ BufferSize \in Nat \ {0} /\ Kinds \subseteq {"ok", "fail", "both"}
    /\ {MaxFailures, MaxEdits, MaxRestarts, MaxDisturbances} \subseteq Nat

VARIABLES
    buf,        \* Tracker.buffer: the values, and the head
    recent,     \* the last results since the buffer was reset (history)
    failed,     \* NodeClaims that failed since then, counted up to 2 (history)
    pool,       \* the NodePool: condition, the generation it was set for, generations
    class,      \* generation of the NodeClass
    work,       \* the NodeClaim reconciles
    ctl,        \* the registrationhealth controller
    env         \* disturbances left

vars == <<buf, recent, failed, pool, class, work, ctl, env>>

Gens == 1..(MaxEdits + 1)
Pools == [cond : {"Unknown", "True", "False"}, obs : Gens, gen : Gens, classObs : Gens]
Results == [ok : BOOLEAN, gen : Gens]
UpTo(S) == UNION {[1..n -> S] : n \in 0..BufferSize}

-----------------------------------------------------------------------------
(* The ring buffer.  values has a fixed capacity; once it is full, Insert    *)
(* replaces the value at the head, the oldest one.                           *)

Empty == [values |-> <<>>, head |-> 0]

InsertStuck(b, v) ==
    IF Len(b.values) < BufferSize
    THEN [b EXCEPT !.values = Append(@, v)]
    ELSE [b EXCEPT !.values[b.head + 1] = v]

Insert(b, v) ==
    IF Len(b.values) < BufferSize
    THEN [b EXCEPT !.values = Append(@, v)]
    ELSE [values |-> [b.values EXCEPT ![b.head + 1] = v], head |-> (b.head + 1) % BufferSize]

(* At most BufferSize values inserted into an empty buffer. *)
Fill(vs) == [values |-> vs, head |-> 0]

Failures(vs) == Cardinality({i \in DOMAIN vs : ~vs[i]})

Status(b) ==
    IF b.values = <<>> THEN "Unknown"
    ELSE IF 2 * Failures(b.values) >= BufferSize THEN "False" ELSE "True"

DryRun(b, v) == Insert(Fill(b.values), v)

(* SetStatus: what the buffer is reset to. *)
Hydrated(s) ==
    CASE s = "True" -> <<TRUE>>
      [] s = "False" -> [i \in 1..(BufferSize \div 2) |-> FALSE]
      [] OTHER -> <<>>

TypeOK ==
    /\ buf.values \in UpTo(BOOLEAN) /\ buf.head \in 0..(BufferSize - 1)
    /\ recent \in UpTo(Results) /\ failed \in 0..2
    /\ pool \in Pools /\ class \in Gens
    /\ \A w \in Workers : work[w].pc \in {"idle", "dryrun", "patch", "record"} /\ work[w].kind \in Kinds \cup {"ok"}
    /\ ctl.pc \in {"idle", "patch"}
    /\ env \in [failures : 0..MaxFailures, edits : 0..MaxEdits, restarts : 0..MaxRestarts]

(* The controller has set the condition long before a first node registers. *)
Blank == [cond |-> "Unknown", obs |-> 1, gen |-> 1, classObs |-> 1]
NoWork == [pc |-> "idle", kind |-> "ok", snap |-> Blank, again |-> FALSE]
NoPatch == [pc |-> "idle", snap |-> Blank, want |-> Blank]

Init ==
    /\ buf = Empty /\ recent = <<>> /\ failed = 0
    /\ pool = Blank /\ class = 1
    /\ work = [w \in Workers |-> NoWork]
    /\ ctl = NoPatch
    /\ env \in {e \in [failures : 0..MaxFailures, edits : 0..MaxEdits, restarts : 0..MaxRestarts] :
                e.failures + e.edits + e.restarts = MaxDisturbances}

-----------------------------------------------------------------------------
(* updateNodePoolRegistrationHealth, for a success and for a failure.  It    *)
(* reads the NodePool, asks what the buffer would say with this result,      *)
(* patches the condition under the resource version of the read if that      *)
(* changes it, and then records the result.                                  *)

Ok(w) == work[w].kind = "ok"

Read(w, k) ==
    /\ work[w].pc = "idle" /\ k \in Kinds
    /\ k # "ok" => env.failures > 0
    /\ work' = [work EXCEPT ![w] = [pc |-> "dryrun", kind |-> k, snap |-> pool, again |-> FALSE]]
    /\ env' = IF k = "ok" THEN env ELSE [env EXCEPT !.failures = @ - 1]
    /\ UNCHANGED <<buf, recent, failed, pool, class, ctl>>

Wanted(w) ==
    IF Ok(w) THEN [work[w].snap EXCEPT !.cond = "True", !.obs = work[w].snap.gen]
    ELSE IF work[w].snap.cond = "False" THEN work[w].snap
    ELSE [work[w].snap EXCEPT !.cond = "False", !.obs = work[w].snap.gen]

TrueOnlyOnce(w) ==
    LET s == Status(DryRun(buf, Ok(w)))
    IN  s = (IF Ok(w) THEN "True" ELSE "False") /\ Wanted(w) # work[w].snap
        /\ (Ok(w) => work[w].snap.cond # "False")

Changes(w) ==
    LET s == Status(DryRun(buf, Ok(w)))
    IN  s = (IF Ok(w) THEN "True" ELSE "False") /\ Wanted(w) # work[w].snap

DryRunStep(w) ==
    /\ work[w].pc = "dryrun"
    /\ work' = [work EXCEPT ![w].pc = IF Changes(w) THEN "patch" ELSE "record"]
    /\ UNCHANGED <<buf, recent, failed, pool, class, ctl, env>>

Patch(w) ==
    /\ work[w].pc = "patch" /\ pool = work[w].snap
    /\ pool' = Wanted(w)
    /\ work' = [work EXCEPT ![w].pc = "record", ![w].snap = Wanted(w)]
    /\ UNCHANGED <<buf, recent, failed, class, ctl, env>>

(* A conflict requeues the NodeClaim.  A success is not tried again: the     *)
(* Registered condition was set and is saved, and the next reconcile returns *)
(* early.  A failure is, with a new read, unless the launch timeout has      *)
(* deleted the NodeClaim already.                                            *)
Conflict(w) ==
    /\ work[w].pc = "patch" /\ pool # work[w].snap
    /\ work' = [work EXCEPT ![w] = IF Ok(w) \/ work[w].again THEN NoWork
                                   ELSE [@ EXCEPT !.pc = "dryrun", !.snap = pool]]
    /\ UNCHANGED <<buf, recent, failed, pool, class, ctl, env>>

Weight(w) == IF Ok(w) \/ work[w].again THEN 0 ELSE 1

(* The launch timeout does not return after it deleted the NodeClaim, so the *)
(* registration timeout may count the same NodeClaim once more.              *)
Record(w) ==
    /\ work[w].pc = "record"
    /\ buf' = Insert(buf, Ok(w))
    /\ LET r == Append(recent, [ok |-> Ok(w), gen |-> pool.gen])
       IN  recent' = IF Len(r) > BufferSize THEN Tail(r) ELSE r
    /\ failed' = IF failed < 2 THEN failed + Weight(w) ELSE 2
    /\ work' = [work EXCEPT ![w] = IF work[w].kind = "both"
                                   THEN [pc |-> "dryrun", kind |-> "fail", snap |-> pool, again |-> TRUE]
                                   ELSE NoWork]
    /\ UNCHANGED <<pool, class, ctl, env>>

-----------------------------------------------------------------------------
(* The registrationhealth controller.                                        *)

Outdated == pool.classObs # class \/ pool.gen # pool.obs

(* The buffer after both checks of Reconcile. *)
Refilled ==
    IF Outdated THEN "Unknown"
    ELSE IF buf.values = <<>> /\ pool.cond \in {"True", "False"} THEN pool.cond
    ELSE "keep"

HealthReconcile ==
    /\ ctl.pc = "idle" /\ Refilled # "keep"
    /\ buf' = Fill(Hydrated(Refilled))
    /\ recent' = [i \in DOMAIN Hydrated(Refilled) |->
                    [ok |-> Hydrated(Refilled)[i], gen |-> pool.gen]]
    /\ failed' = IF Refilled = "False" THEN 2 ELSE 0
    /\ ctl' = IF Outdated
              THEN [pc |-> "patch", snap |-> pool,
                    want |-> [pool EXCEPT !.cond = "Unknown", !.obs = pool.gen, !.classObs = class]]
              ELSE ctl
    /\ UNCHANGED <<pool, class, work, env>>

HealthPatch ==
    /\ ctl.pc = "patch"
    /\ pool' = IF pool = ctl.snap THEN ctl.want ELSE pool
    /\ ctl' = NoPatch
    /\ UNCHANGED <<buf, recent, failed, class, work, env>>

-----------------------------------------------------------------------------
(* The user edits the NodePool or the NodeClass; the process restarts.       *)

Edit ==
    /\ env.edits > 0
    /\ env' = [env EXCEPT !.edits = @ - 1]
    /\ \/ pool' = [pool EXCEPT !.gen = @ + 1] /\ UNCHANGED class
       \/ class' = class + 1 /\ UNCHANGED pool
    /\ UNCHANGED <<buf, recent, failed, work, ctl>>

Restart ==
    /\ env.restarts > 0
    /\ env' = [env EXCEPT !.restarts = @ - 1]
    /\ buf' = Empty /\ recent' = <<>> /\ failed' = 0
    /\ work' = [w \in Workers |-> NoWork] /\ ctl' = NoPatch
    /\ UNCHANGED <<pool, class>>

WorkStep(w) == DryRunStep(w) \/ Patch(w) \/ Conflict(w) \/ Record(w)
HealthStep == HealthReconcile \/ HealthPatch

Next ==
    \/ \E w \in Workers : (\E k \in Kinds : Read(w, k)) \/ WorkStep(w)
    \/ HealthStep \/ Edit \/ Restart

Spec == Init /\ [][Next]_vars

(* NodeClaims go on to register, and both kinds of reconcile make progress. *)
Fairness ==
    /\ \A w \in Workers : WF_vars(Read(w, "ok")) /\ WF_vars(WorkStep(w))
    /\ WF_vars(HealthStep)

FairSpec == Spec /\ Fairness

-----------------------------------------------------------------------------
(* Properties *)

Oks(rs) == [i \in DOMAIN rs |-> rs[i].ok]
InOrder(b) ==
    [i \in DOMAIN b.values |->
        b.values[IF b.head + i <= Len(b.values) THEN b.head + i ELSE b.head + i - Len(b.values)]]

Window == INSTANCE SlidingWindow WITH Size <- BufferSize, window <- InOrder(buf)

(* The ring buffer, read from its head, moves as a window that slides over   *)
(* the results: after it wrapped a new result replaces the oldest one and no *)
(* other (utils/ringbuffer/buffer.go:30-39).  These are the steps of         *)
(* Window!Spec, which the buffer implements.                                 *)
RecentResults == [][Window!Next]_(InOrder(buf))

(* A reconcile decides to turn the condition False only when two NodeClaims  *)
(* failed, its own included, among the results since the last reset; one     *)
(* transient failure never makes a NodePool unhealthy, whatever edits and    *)
(* restarts reset the buffer in between.                                     *)
FalseNeedsTwoFailures ==
    [][\A w \in Workers : DryRunStep(w) /\ work'[w].pc = "patch" /\ ~Ok(w) => failed + Weight(w) >= 2]_vars

(* DryRun tells what the buffer says once the result is recorded. *)
DryRunIsUpdate == \A v \in BOOLEAN : Status(DryRun(buf, v)) = Status(Insert(buf, v))

Quiet == ctl.pc = "idle" /\ Refilled = "keep" /\ \A w \in Workers : work[w].pc = "idle"

(* When nothing is in flight, the condition is the status of the buffer. *)
ConditionMatches == Quiet /\ buf.values # <<>> => pool.cond \in {Status(buf), "Unknown"}

(* When nothing is in flight, every result in the buffer was recorded under  *)
(* the present generation of the NodePool.                                   *)
FlushedOnUpdate == Quiet => \A i \in DOMAIN recent : recent[i].gen = pool.gen
=============================================================================
