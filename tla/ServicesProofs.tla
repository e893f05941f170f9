--------------------------- MODULE ServicesProofs ---------------------------
(***************************************************************************)
(* Three services that the controllers rely on.  The label algebra is      *)
(* exact: narrowing requirements, which is all the scheduler does to them, *)
(* keeps precisely the values both sides admit, and no check refuses       *)
(* requirements that have a value in common.  The ring buffer of a         *)
(* NodePool's health holds the most recent registration results, for every *)
(* BufferSize, every set of concurrent reconciles and every bound.  No     *)
(* claim is called Consolidatable while a pod event on it is recent.       *)
(***************************************************************************)
EXTENDS NodePoolHealth, Requirements, ClaimConditions, TLAPS

-----------------------------------------------------------------------------
(* Requirements *)

Bound == Int \cup {None}

(* A value is within the tighter bounds when it is within both. *)
LEMMA BoundsMeet ==
    ASSUME NEW v \in Values, NEW a \in Bound, NEW b \in Bound, NEW c \in Bound, NEW d \in Bound
    PROVE  withinBounds(v, maxIntPtr(a, c), minIntPtr(b, d)) <=> withinBounds(v, a, b) /\ withinBounds(v, c, d)
<1>1. Atoi[v] \in Int \cup {None} /\ None \notin Int
  BY RequirementsAssumption
<1>. QED
  BY <1>1 DEF Bound, withinBounds, maxIntPtr, minIntPtr

(* No value is within bounds that cross. *)
LEMMA NoneBetween ==
    ASSUME NEW v \in Values, NEW a \in Bound, NEW b \in Bound, Crossed(a, b)
    PROVE  ~withinBounds(v, a, b)
<1>1. Atoi[v] \in Int \cup {None} /\ None \notin Int
  BY RequirementsAssumption
<1>. QED
  BY <1>1 DEF Bound, withinBounds, Crossed

(* The tighter of two bounds is a bound. *)
LEMMA BoundsTyped ==
    ASSUME NEW a \in Bound, NEW b \in Bound
    PROVE  maxIntPtr(a, b) \in Bound /\ minIntPtr(a, b) \in Bound
  BY DEF Bound, maxIntPtr, minIntPtr

(* The fields of a requirement. *)
LEMMA Fields ==
    ASSUME NEW r \in Requirement
    PROVE  /\ r.complement \in BOOLEAN /\ r.values \subseteq Values
           /\ r.gte \in Bound /\ r.lte \in Bound /\ r.min \in Nat \cup {None}
           /\ ~r.complement => r.gte = None /\ r.lte = None
  BY DEF Requirement, Bound

(* A requirement without bounds bounds nothing. *)
LEMMA Unbounded ==
    ASSUME NEW v
    PROVE  withinBounds(v, None, None)
  BY DEF withinBounds

(* The intersection of two requirements admits exactly the values both admit *)
(* (Requirement.Intersection, requirement.go): excluded values, bounds and   *)
(* bounds that cross included, whatever the values and the numbers.          *)
THEOREM IntersectionExact ==
    ASSUME NEW r \in Requirement, NEW q \in Requirement, NEW v \in Values
    PROVE  Has(Intersection(r, q), v) <=> Has(r, v) /\ Has(q, v)
<1>. DEFINE g == maxIntPtr(r.gte, q.gte)
            l == minIntPtr(r.lte, q.lte)
            i == Intersection(r, q)
            In1 == IF r.complement THEN v \notin r.values ELSE v \in r.values
            In2 == IF q.complement THEN v \notin q.values ELSE v \in q.values
            W == withinBounds(v, g, l)
<1>1. g \in Bound /\ l \in Bound
  BY Fields, BoundsTyped
<1>2. W <=> withinBounds(v, r.gte, r.lte) /\ withinBounds(v, q.gte, q.lte)
  BY Fields, BoundsMeet
<1>3. Has(r, v) /\ Has(q, v) <=> In1 /\ In2 /\ W
  BY <1>2 DEF Has
<1>4. CASE Crossed(g, l)
  <2>1. i = [complement |-> FALSE, values |-> {}, gte |-> None, lte |-> None, min |-> maxIntPtr(r.min, q.min)]
    BY <1>4, Zenon DEF Intersection, WithMinValues, DoesNotExist, In
  <2>2. ~Has(i, v)
    BY <2>1 DEF Has
  <2>3. ~W
    BY <1>1, <1>4, NoneBetween
  <2>. QED
    BY <1>3, <2>2, <2>3
<1>5. CASE ~Crossed(g, l)
  <2>. DEFINE both == r.complement /\ q.complement
  <2>1. i = [complement |-> both, values |-> {x \in Listed(r, q) : withinBounds(x, g, l)},
             gte |-> IF both THEN g ELSE None, lte |-> IF both THEN l ELSE None, min |-> maxIntPtr(r.min, q.min)]
    BY <1>5 DEF Intersection
  <2>2. /\ i.complement = both
        /\ i.values = {x \in Listed(r, q) : withinBounds(x, g, l)}
        /\ i.gte = (IF both THEN g ELSE None) /\ i.lte = (IF both THEN l ELSE None)
    BY <2>1
  <2>. HIDE DEF i, g, l
  <2>3. v \in i.values <=> v \in Listed(r, q) /\ W
    BY <2>2
  <2>4. CASE both
    <3>1. Has(i, v) <=> v \notin i.values /\ W
      BY <2>2, <2>4, Zenon DEF Has
    <3>2. v \in Listed(r, q) <=> v \in r.values \/ v \in q.values
      BY <2>4 DEF Listed
    <3>. QED
      BY <1>3, <2>3, <2>4, <3>1, <3>2 DEF i
  <2>5. CASE ~both
    <3>1. Has(i, v) <=> v \in i.values
      BY <2>2, <2>5, Unbounded, Zenon DEF Has
    <3>2. v \in Listed(r, q) <=> In1 /\ In2
      BY <2>5, Fields DEF Listed
    <3>. QED
      BY <1>3, <2>3, <3>1, <3>2 DEF i
  <2>. QED
    BY <2>4, <2>5
<1>. QED
  BY <1>4, <1>5

(* The intersection is a requirement again: one that lists its values keeps  *)
(* no bounds.                                                                *)
LEMMA IntersectionTyped ==
    ASSUME NEW r \in Requirement, NEW q \in Requirement
    PROVE  Intersection(r, q) \in Requirement
<1>. DEFINE g == maxIntPtr(r.gte, q.gte)
            l == minIntPtr(r.lte, q.lte)
            m == maxIntPtr(r.min, q.min)
            both == r.complement /\ q.complement
<1>1. g \in Bound /\ l \in Bound
  BY Fields, BoundsTyped
<1>2. m \in Nat \cup {None}
  BY Fields DEF maxIntPtr
<1>3. Listed(r, q) \subseteq Values
  BY Fields DEF Listed
<1>4. both \in BOOLEAN
  BY Fields
<1>5. CASE Crossed(g, l)
  BY <1>2, <1>5, Zenon DEF Intersection, WithMinValues, DoesNotExist, In, Requirement
<1>6. CASE ~Crossed(g, l)
  <2>1. Intersection(r, q) = [complement |-> both, values |-> {x \in Listed(r, q) : withinBounds(x, g, l)},
             gte |-> IF both THEN g ELSE None, lte |-> IF both THEN l ELSE None, min |-> m]
    BY <1>6 DEF Intersection
  <2>2. {x \in Listed(r, q) : withinBounds(x, g, l)} \in SUBSET Values
    BY <1>3
  <2>. HIDE DEF g, l, m, both
  <2>. QED
    BY <1>1, <1>2, <1>4, <2>1, <2>2 DEF Requirement, Bound
<1>. QED
  BY <1>5, <1>6

(* HasIntersection, the check made without building the intersection, never  *)
(* refuses two requirements that have a value in common.                     *)
THEOREM NothingRefused ==
    ASSUME NEW r \in Requirement, NEW q \in Requirement, NEW v \in Values, Has(r, v), Has(q, v)
    PROVE  HasIntersection(r, q)
<1>. DEFINE g == maxIntPtr(r.gte, q.gte)
            l == minIntPtr(r.lte, q.lte)
<1>1. g \in Bound /\ l \in Bound
  BY Fields, BoundsTyped
<1>2. withinBounds(v, g, l)
  BY Fields, BoundsMeet DEF Has
<1>3. ~Crossed(g, l)
  BY <1>1, <1>2, NoneBetween
<1>4. (r.complement /\ q.complement) \/ v \in Listed(r, q)
  BY Fields DEF Has, Listed
<1>. QED
  BY <1>2, <1>3, <1>4 DEF HasIntersection

Typed(rs) == rs \in [DOMAIN rs -> Requirement]

(* Add narrows each label to what both sides admit and takes over the labels *)
(* only one side names, so the order in which requirements are added never   *)
(* matters to the values admitted (Requirements.Add, requirements.go).       *)
THEOREM AddExact ==
    ASSUME NEW rs, NEW qs, Typed(rs), Typed(qs), NEW k \in DOMAIN rs \cup DOMAIN qs, NEW v \in Values
    PROVE  Has(Add(rs, qs)[k], v) <=> (k \in DOMAIN rs => Has(rs[k], v)) /\ (k \in DOMAIN qs => Has(qs[k], v))
<1>1. Add(rs, qs)[k] = IF k \in DOMAIN rs \cap DOMAIN qs THEN Intersection(qs[k], rs[k])
                       ELSE IF k \in DOMAIN rs THEN rs[k] ELSE qs[k]
  BY DEF Add
<1>2. k \in DOMAIN rs => rs[k] \in Requirement
  BY DEF Typed
<1>3. k \in DOMAIN qs => qs[k] \in Requirement
  BY DEF Typed
<1>4. CASE k \in DOMAIN rs \cap DOMAIN qs
  <2>1. Has(Intersection(qs[k], rs[k]), v) <=> Has(qs[k], v) /\ Has(rs[k], v)
    BY <1>2, <1>3, <1>4, IntersectionExact
  <2>. QED
    BY <1>1, <1>4, <2>1
<1>5. CASE k \notin DOMAIN rs \cap DOMAIN qs
  BY <1>1, <1>5
<1>. QED
  BY <1>4, <1>5

(* Labels that satisfy two sets of requirements are never called an          *)
(* incompatibility: a pod that fits a node is not turned away                *)
(* (Requirements.Intersects, requirements.go).                               *)
THEOREM FittingIntersects ==
    ASSUME NEW rs, NEW qs, Typed(rs), Typed(qs), NEW labels \in [DOMAIN rs \cap DOMAIN qs -> Values],
           \A k \in DOMAIN rs \cap DOMAIN qs : Has(rs[k], labels[k]) /\ Has(qs[k], labels[k])
    PROVE  Intersects(rs, qs)
<1>1. ASSUME NEW k \in DOMAIN rs \cap DOMAIN qs
      PROVE  HasIntersection(rs[k], qs[k])
  <2>1. rs[k] \in Requirement /\ qs[k] \in Requirement /\ labels[k] \in Values
    BY <1>1 DEF Typed
  <2>. QED
    BY <1>1, <2>1, NothingRefused
<1>. QED
  BY <1>1 DEF Intersects

-----------------------------------------------------------------------------
(* NodePoolHealth *)

(* The place in values of the i-th oldest of L results. *)
Place(h, L, i) == IF h + i <= L THEN h + i ELSE h + i - L

(* A ring buffer b that holds the results r: as long as it is not full the   *)
(* head is at the start, and it is read around the end from the head.        *)
Holds(b, r) ==
    /\ b = [values |-> b.values, head |-> b.head]
    /\ b.values \in Seq(BOOLEAN) /\ Len(b.values) <= BufferSize
    /\ b.head \in 0..(BufferSize - 1)
    /\ Len(b.values) < BufferSize => b.head = 0
    /\ r \in Seq([ok : BOOLEAN, gen : Int]) /\ Len(r) = Len(b.values)
    /\ \A i \in 1..Len(r) : r[i].ok = b.values[Place(b.head, Len(b.values), i)]

(* The next head of a full buffer, without the remainder. *)
LEMMA NextHead ==
    ASSUME NEW h \in 0..(BufferSize - 1)
    PROVE  (h + 1) % BufferSize = IF h + 1 = BufferSize THEN 0 ELSE h + 1
<1>1. BufferSize \in Nat \ {0}
  BY HealthAssumption
<1>2. CASE h + 1 = BufferSize
  BY <1>1, <1>2
<1>3. CASE h + 1 # BufferSize
  <2>1. h + 1 \in 0..(BufferSize - 1)
    BY <1>1, <1>3
  <2>. QED
    BY <1>1, <1>3, <2>1
<1>. QED
  BY <1>2, <1>3

(* Insert keeps a buffer that is not full in step with the results. *)
LEMMA InsertGrows ==
    ASSUME NEW b, NEW r, Holds(b, r), Len(b.values) < BufferSize,
           NEW v \in BOOLEAN, NEW g \in Int
    PROVE  Holds(Insert(b, v), Append(r, [ok |-> v, gen |-> g]))
<1>. DEFINE c == Insert(b, v)
            s == Append(r, [ok |-> v, gen |-> g])
            L == Len(b.values)
<1>1. BufferSize \in Nat \ {0} /\ L \in Nat
  BY HealthAssumption DEF Holds
<1>2. c = [values |-> Append(b.values, v), head |-> 0]
  BY Zenon DEF Insert, Holds
<1>3. c.values = Append(b.values, v) /\ c.head = 0
  BY <1>2
<1>4. c.values \in Seq(BOOLEAN) /\ Len(c.values) = L + 1
  BY <1>3 DEF Holds
<1>5. s \in Seq([ok : BOOLEAN, gen : Int]) /\ Len(s) = L + 1
  BY DEF Holds
<1>6. ASSUME NEW i \in 1..Len(s)
      PROVE  s[i].ok = c.values[Place(c.head, Len(c.values), i)]
  <2>1. Place(c.head, Len(c.values), i) = i
    BY <1>1, <1>3, <1>4, <1>5 DEF Place
  <2>2. CASE i = L + 1
    BY <1>1, <1>3, <2>1, <2>2 DEF Holds
  <2>3. CASE i # L + 1
    <3>1. i \in 1..L
      BY <1>1, <1>5, <2>3
    <3>2. s[i] = r[i] /\ c.values[i] = b.values[i]
      BY <1>3, <3>1 DEF Holds
    <3>3. Place(b.head, L, i) = i
      BY <1>1, <3>1 DEF Holds, Place
    <3>. QED
      BY <2>1, <3>1, <3>2, <3>3 DEF Holds
  <2>. QED
    BY <2>2, <2>3
<1>7. c = [values |-> c.values, head |-> c.head] /\ c.head \in 0..(BufferSize - 1) /\ c.head = 0
  BY <1>1, <1>2
<1>8. L + 1 <= BufferSize
  BY <1>1
<1>. HIDE DEF c, s, L
<1>9. Holds(c, s)
  BY <1>4, <1>5, <1>6, <1>7, <1>8 DEF Holds
<1>. QED
  BY <1>9 DEF c, s

(* Insert into a full buffer replaces the oldest result and no other. *)
LEMMA InsertReplaces ==
    ASSUME NEW b, NEW r, Holds(b, r), Len(b.values) >= BufferSize,
           NEW v \in BOOLEAN, NEW g \in Int
    PROVE  Holds(Insert(b, v), Tail(Append(r, [ok |-> v, gen |-> g])))
<1>. DEFINE c == Insert(b, v)
            e == [ok |-> v, gen |-> g]
            s == Tail(Append(r, e))
            B == BufferSize
<1>1. B \in Nat \ {0} /\ Len(b.values) = B /\ Len(r) = B
  BY HealthAssumption DEF Holds
<1>2. b.head \in 0..(B - 1) /\ b.values \in Seq(BOOLEAN)
  BY DEF Holds
<1>3. c = [values |-> [b.values EXCEPT ![b.head + 1] = v], head |-> (b.head + 1) % B]
  BY <1>1 DEF Insert
<1>4. c.values = [b.values EXCEPT ![b.head + 1] = v]
  BY <1>3
<1>5. c.head = IF b.head + 1 = B THEN 0 ELSE b.head + 1
  BY <1>2, <1>3, NextHead
<1>6. c.head \in 0..(B - 1)
  BY <1>1, <1>2, <1>5
<1>7. c.values \in Seq(BOOLEAN) /\ Len(c.values) = B
  BY <1>1, <1>2, <1>4
<1>8. Append(r, e) \in Seq([ok : BOOLEAN, gen : Int]) /\ Len(Append(r, e)) = B + 1
  BY <1>1 DEF Holds
<1>9. s \in Seq([ok : BOOLEAN, gen : Int]) /\ Len(s) = B
  BY <1>1, <1>8
<1>10. ASSUME NEW i \in 1..B
       PROVE  s[i].ok = c.values[Place(c.head, B, i)]
  <2>1. s[i] = Append(r, e)[i + 1]
    BY <1>1, <1>8
  <2>2. CASE i = B
    <3>1. s[i].ok = v
      BY <1>1, <2>1, <2>2 DEF Holds
    <3>2. Place(c.head, B, i) = b.head + 1
      BY <1>1, <1>2, <1>5, <2>2 DEF Place
    <3>. QED
      BY <1>1, <1>2, <1>4, <3>1, <3>2, SMTT(60)
  <2>3. CASE i # B
    <3>1. i + 1 \in 1..B
      BY <1>1, <2>3
    <3>2. s[i].ok = b.values[Place(b.head, B, i + 1)]
      BY <1>1, <2>1, <3>1 DEF Holds
    <3>3. Place(c.head, B, i) = Place(b.head, B, i + 1)
      BY <1>1, <1>2, <1>5, <3>1, SMTT(60) DEF Place
    <3>4. Place(b.head, B, i + 1) \in 1..B /\ Place(b.head, B, i + 1) # b.head + 1
      BY <1>1, <1>2, <2>3, <3>1 DEF Place
    <3>. QED
      BY <1>1, <1>2, <1>4, <3>2, <3>3, <3>4
  <2>. QED
    BY <2>2, <2>3, Zenon
<1>11. c = [values |-> c.values, head |-> c.head]
  BY <1>3
<1>. HIDE DEF c, s
<1>12. Holds(c, s)
  BY <1>1, <1>6, <1>7, <1>9, <1>10, <1>11 DEF Holds
<1>. QED
  BY <1>12 DEF c, s

-----------------------------------------------------------------------------
(* What SetStatus refills the buffer with. *)
LEMMA FillHolds ==
    ASSUME NEW vs \in Seq(BOOLEAN), Len(vs) <= BufferSize, NEW g \in Int
    PROVE  Holds(Fill(vs), [i \in DOMAIN vs |-> [ok |-> vs[i], gen |-> g]])
<1>. DEFINE c == Fill(vs)
            s == [i \in DOMAIN vs |-> [ok |-> vs[i], gen |-> g]]
<1>1. BufferSize \in Nat \ {0} /\ Len(vs) \in Nat /\ DOMAIN vs = 1..Len(vs)
  BY HealthAssumption
<1>2. c = [values |-> c.values, head |-> c.head] /\ c.values = vs /\ c.head = 0
  BY DEF Fill
<1>3. c.head \in 0..(BufferSize - 1)
  BY <1>1, <1>2
<1>4. s \in Seq([ok : BOOLEAN, gen : Int]) /\ Len(s) = Len(vs)
  BY <1>1
<1>5. ASSUME NEW i \in 1..Len(vs)
      PROVE  s[i].ok = vs[Place(0, Len(vs), i)]
  BY <1>1 DEF Place
<1>. HIDE DEF c, s
<1>6. Holds(c, s)
  BY <1>2, <1>3, <1>4, <1>5 DEF Holds
<1>. QED
  BY <1>6 DEF c, s

(* The empty buffer of a new tracker is in step with no results. *)
LEMMA EmptyHolds == Holds(Empty, <<>>)
<1>1. BufferSize \in Nat \ {0}
  BY HealthAssumption
<1>2. Empty = [values |-> Empty.values, head |-> Empty.head] /\ Empty.values = <<>> /\ Empty.head = 0
  BY DEF Empty
<1>. QED
  BY <1>1, <1>2 DEF Holds

(* SetStatus never inserts more values than the buffer holds. *)
LEMMA HydratedFits ==
    ASSUME NEW x
    PROVE  Hydrated(x) \in Seq(BOOLEAN) /\ Len(Hydrated(x)) <= BufferSize
<1>1. BufferSize \in Nat \ {0}
  BY HealthAssumption
<1>2. CASE x = "True"
  BY <1>1, <1>2 DEF Hydrated
<1>3. CASE x = "False"
  <2>1. Hydrated(x) = [i \in 1..(BufferSize \div 2) |-> FALSE]
    BY <1>3 DEF Hydrated
  <2>2. PICK n \in Nat : n = BufferSize \div 2 /\ n <= BufferSize
    BY <1>1
  <2>3. Hydrated(x) = [i \in 1..n |-> FALSE]
    BY <2>1, <2>2
  <2>4. [i \in 1..n |-> FALSE] \in Seq(BOOLEAN) /\ Len([i \in 1..n |-> FALSE]) = n
    OBVIOUS
  <2>. QED
    BY <2>2, <2>3, <2>4
<1>4. CASE x # "True" /\ x # "False"
  BY <1>1, <1>4 DEF Hydrated
<1>. QED
  BY <1>2, <1>3, <1>4

(* The inductive invariant: the buffer is in step with the results.  The     *)
(* generation recorded with a result has to be a number, which the NodePool, *)
(* the NodeClass and the patch of the controller preserve together.          *)
PoolType == [cond : {"Unknown", "True", "False"}, obs : Int, gen : Int, classObs : Int]
PoolTyped == pool \in PoolType /\ class \in Int /\ (ctl.pc = "patch" => ctl.want \in PoolType)
IInv == PoolTyped /\ Holds(buf, recent)

(* A new process satisfies the invariant. *)
LEMMA Initially == Init => IInv
<1>. SUFFICES ASSUME Init PROVE IInv
  OBVIOUS
<1>1. PoolTyped
  BY DEF Init, PoolTyped, PoolType, Blank, NoPatch
<1>2. Holds(buf, recent)
  BY EmptyHolds DEF Init
<1>. QED
  BY <1>1, <1>2 DEF IInv

(* Recording a result keeps the buffer in step, whether it is full or not. *)
LEMMA RecordHolds ==
    ASSUME IInv, NEW w \in Workers, Record(w)
    PROVE  IInv'
<1>. DEFINE e == [ok |-> Ok(w), gen |-> pool.gen]
<1>1. Ok(w) \in BOOLEAN
  BY DEF Ok
<1>2. pool.gen \in Int
  BY DEF IInv, PoolTyped, PoolType
<1>3. BufferSize \in Nat \ {0} /\ Len(buf.values) \in Nat /\ Len(buf.values) <= BufferSize
      /\ Len(recent) = Len(buf.values) /\ recent \in Seq([ok : BOOLEAN, gen : Int])
  BY HealthAssumption DEF IInv, Holds
<1>4. Len(Append(recent, e)) = Len(recent) + 1
  BY <1>1, <1>2, <1>3
<1>5. Holds(buf', recent')
  <2>1. CASE Len(buf.values) < BufferSize
    <3>1. recent' = Append(recent, e)
      BY <1>3, <1>4, <2>1 DEF Record
    <3>2. buf' = Insert(buf, Ok(w))
      BY DEF Record
    <3>. QED
      BY <1>1, <1>2, <2>1, <3>1, <3>2, InsertGrows DEF IInv
  <2>2. CASE Len(buf.values) >= BufferSize
    <3>1. recent' = Tail(Append(recent, e))
      BY <1>3, <1>4, <2>2, SMTT(60) DEF Record
    <3>2. buf' = Insert(buf, Ok(w))
      BY DEF Record
    <3>. QED
      BY <1>1, <1>2, <2>2, <3>1, <3>2, InsertReplaces DEF IInv
  <2>. QED
    BY <1>3, <2>1, <2>2
<1>6. PoolTyped'
  BY DEF Record, IInv, PoolTyped
<1>. QED
  BY <1>5, <1>6 DEF IInv, Holds

(* A step of any action keeps the invariant. *)
LEMMA StepHolds == IInv /\ [Next]_vars => IInv'
<1>. SUFFICES ASSUME IInv, [Next]_vars PROVE IInv'
  OBVIOUS
<1>. DEFINE Same == UNCHANGED <<buf, recent>>
<1>0. ASSUME Same, PoolTyped' PROVE IInv'
  BY <1>0 DEF IInv, Holds
<1>1. ASSUME NEW w \in Workers, NEW k \in Kinds, Read(w, k) PROVE IInv'
  BY <1>0, <1>1 DEF Read, IInv, PoolTyped
<1>2. ASSUME NEW w \in Workers, DryRunStep(w) PROVE IInv'
  BY <1>0, <1>2 DEF DryRunStep, IInv, PoolTyped
<1>3. ASSUME NEW w \in Workers, Patch(w) PROVE IInv'
  <2>1. Wanted(w) \in PoolType
    BY <1>3, Zenon DEF Patch, Wanted, IInv, PoolTyped, PoolType
  <2>. QED
    BY <1>0, <1>3, <2>1 DEF Patch, IInv, PoolTyped
<1>4. ASSUME NEW w \in Workers, Conflict(w) PROVE IInv'
  BY <1>0, <1>4 DEF Conflict, IInv, PoolTyped
<1>5. ASSUME NEW w \in Workers, Record(w) PROVE IInv'
  BY <1>5, RecordHolds
<1>6. CASE HealthReconcile
  <2>1. Holds(Fill(Hydrated(Refilled)),
              [i \in DOMAIN Hydrated(Refilled) |-> [ok |-> Hydrated(Refilled)[i], gen |-> pool.gen]])
    <3>1. pool.gen \in Int
      BY DEF IInv, PoolTyped, PoolType
    <3>. QED
      BY <3>1, HydratedFits, FillHolds
  <2>2. Holds(buf', recent')
    BY <1>6, <2>1 DEF HealthReconcile
  <2>3. PoolTyped'
    <3>1. [pool EXCEPT !.cond = "Unknown", !.obs = pool.gen, !.classObs = class] \in PoolType
      BY Zenon DEF IInv, PoolTyped, PoolType
    <3>. QED
      BY <1>6, <3>1 DEF HealthReconcile, IInv, PoolTyped
  <2>. QED
    BY <2>2, <2>3 DEF IInv, Holds
<1>7. CASE HealthPatch
  BY <1>0, <1>7 DEF HealthPatch, NoPatch, IInv, PoolTyped
<1>8. CASE Edit
  <2>1. [pool EXCEPT !.gen = @ + 1] \in PoolType /\ class + 1 \in Int
    BY DEF IInv, PoolTyped, PoolType
  <2>. QED
    BY <1>0, <1>8, <2>1 DEF Edit, IInv, PoolTyped
<1>9. CASE Restart
  <2>4. Holds(buf', recent')
    BY <1>9, EmptyHolds DEF Restart
  <2>5. PoolTyped'
    BY <1>9 DEF Restart, NoPatch, IInv, PoolTyped
  <2>. QED
    BY <2>4, <2>5 DEF IInv, Holds
<1>10. CASE UNCHANGED vars
  BY <1>0, <1>10 DEF vars, IInv, PoolTyped
<1>. QED
  BY <1>1, <1>2, <1>3, <1>4, <1>5, <1>6, <1>7, <1>8, <1>9, <1>10 DEF Next, WorkStep, HealthStep

(* An element of a sequence is one of its set. *)
LEMMA ElementOf ==
    ASSUME NEW S, NEW r \in Seq(S), NEW i \in 1..Len(r)
    PROVE  r[i] \in S
OBVIOUS

(* Sequences that agree everywhere are equal. *)
LEMMA SameSeq ==
    ASSUME NEW S, NEW s \in Seq(S), NEW t \in Seq(S), Len(s) = Len(t), \A i \in 1..Len(s) : s[i] = t[i]
    PROVE  s = t
OBVIOUS

(* The results without the generations. *)
LEMMA OksType ==
    ASSUME NEW r \in Seq([ok : BOOLEAN, gen : Int])
    PROVE  Oks(r) \in Seq(BOOLEAN) /\ Len(Oks(r)) = Len(r) /\ \A i \in 1..Len(r) : Oks(r)[i] = r[i].ok
<1>1. Len(r) \in Nat /\ DOMAIN r = 1..Len(r)
  OBVIOUS
<1>2. \A i \in 1..Len(r) : r[i] \in [ok : BOOLEAN, gen : Int]
  BY ElementOf, Zenon
<1>3. \A x \in [ok : BOOLEAN, gen : Int] : x.ok \in BOOLEAN
  BY Zenon
<1>4. Oks(r) = [i \in 1..Len(r) |-> r[i].ok]
  BY <1>1 DEF Oks
<1>5. \A i \in 1..Len(r) : r[i].ok \in BOOLEAN
  BY <1>2, <1>3, Zenon
<1>6. Oks(r) \in [1..Len(r) -> BOOLEAN]
  BY <1>4, <1>5, Zenon
<1>. QED
  BY <1>1, <1>4, <1>6

(* What the invariant says of the buffer read from its head. *)
LEMMA ReadInOrder ==
    ASSUME NEW b, NEW r, Holds(b, r)
    PROVE  InOrder(b) = Oks(r) /\ InOrder(b) \in Seq(BOOLEAN) /\ Len(InOrder(b)) = Len(r)
<1>1. DOMAIN b.values = 1..Len(b.values) /\ DOMAIN r = 1..Len(r) /\ Len(r) = Len(b.values) /\ Len(r) \in Nat
  BY DEF Holds
<1>2. \A i \in 1..Len(r) : r[i].ok = b.values[Place(b.head, Len(b.values), i)]
  BY DEF Holds
<1>3. InOrder(b) = Oks(r)
  BY <1>1, <1>2 DEF InOrder, Oks, Place
<1>4. Oks(r) \in Seq(BOOLEAN) /\ Len(Oks(r)) = Len(r)
  BY OksType DEF Holds
<1>. QED
  BY <1>3, <1>4

(* The results, and the results one more has pushed along, without the       *)
(* generations.                                                              *)
LEMMA OksSlide ==
    ASSUME NEW r \in Seq([ok : BOOLEAN, gen : Int]), NEW e \in [ok : BOOLEAN, gen : Int]
    PROVE  /\ Oks(Append(r, e)) = Append(Oks(r), e.ok)
           /\ Oks(Tail(Append(r, e))) = Tail(Append(Oks(r), e.ok))
<1>1. Oks(r) \in Seq(BOOLEAN) /\ Len(Oks(r)) = Len(r) /\ Len(r) \in Nat
  BY OksType
<1>2. Append(r, e) \in Seq([ok : BOOLEAN, gen : Int]) /\ Len(Append(r, e)) = Len(r) + 1
  OBVIOUS
<1>3. Oks(Append(r, e)) = Append(Oks(r), e.ok)
  <2>1. Oks(Append(r, e)) \in Seq(BOOLEAN) /\ Len(Oks(Append(r, e))) = Len(r) + 1
    BY <1>2, OksType, Zenon
  <2>2. Append(Oks(r), e.ok) \in Seq(BOOLEAN) /\ Len(Append(Oks(r), e.ok)) = Len(r) + 1
    BY <1>1
  <2>3. \A i \in 1..(Len(r) + 1) : Oks(Append(r, e))[i] = Append(Oks(r), e.ok)[i]
    BY <1>1, <1>2 DEF Oks
  <2>. QED
    BY <1>1, <2>1, <2>2, <2>3, SMTT(60)
<1>4. Oks(Tail(Append(r, e))) = Tail(Oks(Append(r, e)))
  <2>. DEFINE a == Append(r, e)
  <2>1. a \in Seq([ok : BOOLEAN, gen : Int]) /\ Len(a) = Len(r) + 1 /\ Len(r) \in Nat
    BY <1>1, <1>2
  <2>. HIDE DEF a
  <2>2. Tail(a) \in Seq([ok : BOOLEAN, gen : Int]) /\ Len(Tail(a)) = Len(r)
    BY <2>1
  <2>3. Oks(Tail(a)) \in Seq(BOOLEAN) /\ Len(Oks(Tail(a))) = Len(r)
    BY <2>2, OksType, Zenon
  <2>4. Oks(a) \in Seq(BOOLEAN) /\ Len(Oks(a)) = Len(r) + 1
    BY <2>1, OksType
  <2>5. Tail(Oks(a)) \in Seq(BOOLEAN) /\ Len(Tail(Oks(a))) = Len(r)
    BY <2>1, <2>4
  <2>6. \A i \in 1..Len(r) : Oks(Tail(a))[i] = Tail(Oks(a))[i]
    <3>. SUFFICES ASSUME NEW i \in 1..Len(r) PROVE Oks(Tail(a))[i] = Tail(Oks(a))[i]
      BY Zenon
    <3>1. Oks(Tail(a))[i] = Tail(a)[i].ok
      BY <2>2, OksType, Zenon
    <3>2. Tail(a)[i] = a[i + 1] /\ Tail(Oks(a))[i] = Oks(a)[i + 1] /\ i + 1 \in 1..Len(a)
      <4>1. i + 1 \in 1..Len(a)
        BY <2>1
      <4>2. Tail(a)[i] = a[i + 1]
        BY <2>1
      <4>3. Tail(Oks(a))[i] = Oks(a)[i + 1]
        BY <2>1, <2>4
      <4>. QED
        BY <4>1, <4>2, <4>3, Zenon
    <3>3. Oks(a)[i + 1] = a[i + 1].ok
      BY <2>1, <3>2, OksType, Zenon
    <3>. QED
      BY <3>1, <3>2, <3>3, Zenon
  <2>7. Oks(Tail(a)) = Tail(Oks(a))
    BY <2>3, <2>5, <2>6, SameSeq, Zenon
  <2>. QED
    BY <2>7 DEF a
<1>. QED
  BY <1>3, <1>4

(* A result that is recorded slides the window by one. *)
LEMMA RecordObserves ==
    ASSUME IInv, IInv', NEW w \in Workers, Record(w)
    PROVE  Window!Observe(Ok(w))
<1>. DEFINE e == [ok |-> Ok(w), gen |-> pool.gen]
<1>1. Ok(w) \in BOOLEAN /\ pool.gen \in Int /\ e \in [ok : BOOLEAN, gen : Int] /\ e.ok = Ok(w)
  BY DEF Ok, IInv, PoolTyped, PoolType
<1>2. recent \in Seq([ok : BOOLEAN, gen : Int]) /\ Len(recent) \in Nat
  BY DEF IInv, Holds
<1>3. recent' = IF Len(Append(recent, e)) > BufferSize THEN Tail(Append(recent, e)) ELSE Append(recent, e)
  BY DEF Record
<1>4. Len(Append(recent, e)) = Len(Append(Oks(recent), Ok(w)))
  BY <1>1, <1>2 DEF Oks
<1>5. Oks(recent') = Window!Latest(Append(Oks(recent), Ok(w)))
  BY <1>1, <1>2, <1>3, <1>4, OksSlide, Zenon DEF Window!Latest
<1>6. InOrder(buf) = Oks(recent)
  BY ReadInOrder DEF IInv
<1>7. Holds(buf', recent')
  BY DEF IInv, Holds
<1>8. InOrder(buf') = Oks(recent')
  BY <1>7, ReadInOrder
<1>. QED
  BY <1>5, <1>6, <1>8, Zenon DEF Window!Observe, InOrder

(* Refilling and emptying the buffer are the resets of the window. *)
LEMMA FillResets ==
    ASSUME NEW x
    PROVE  InOrder(Fill(Hydrated(x))) \in {<<>>, <<TRUE>>, [i \in 1..(BufferSize \div 2) |-> FALSE]}
<1>. DEFINE vs == Hydrated(x)
<1>1. vs \in Seq(BOOLEAN) /\ vs \in {<<>>, <<TRUE>>, [i \in 1..(BufferSize \div 2) |-> FALSE]}
  BY HydratedFits, ZenonT(60) DEF Hydrated
<1>. HIDE DEF vs
<1>2. Fill(vs).values = vs /\ Fill(vs).head = 0
  BY DEF Fill
<1>3. InOrder(Fill(vs)) = vs
  BY <1>1, <1>2 DEF InOrder
<1>. QED
  BY <1>1, <1>3, Zenon DEF vs

(* What the code records, refills and forgets are steps of the window, and   *)
(* no other step moves it.                                                   *)
LEMMA StepSlides == IInv /\ IInv' /\ [Next]_vars => [Window!Next]_(InOrder(buf))
<1>. SUFFICES ASSUME IInv, IInv', [Next]_vars PROVE Window!Next \/ UNCHANGED InOrder(buf)
  OBVIOUS
<1>0. ASSUME UNCHANGED buf PROVE UNCHANGED InOrder(buf)
  BY <1>0 DEF InOrder
<1>1. ASSUME NEW w \in Workers, NEW k \in Kinds, Read(w, k) PROVE UNCHANGED buf
  BY <1>1 DEF Read
<1>2. ASSUME NEW w \in Workers, DryRunStep(w) \/ Patch(w) \/ Conflict(w) PROVE UNCHANGED buf
  BY <1>2 DEF DryRunStep, Patch, Conflict
<1>3. ASSUME NEW w \in Workers, Record(w) PROVE Window!Next
  <2>1. Ok(w) \in BOOLEAN
    BY DEF Ok
  <2>. QED
    BY <1>3, <2>1, RecordObserves DEF Window!Next
<1>4. CASE HealthReconcile
  <2>1. buf' = Fill(Hydrated(Refilled))
    BY <1>4 DEF HealthReconcile
  <2>2. InOrder(buf') \in {<<>>, <<TRUE>>, [i \in 1..(BufferSize \div 2) |-> FALSE]}
    BY <2>1, FillResets, Zenon
  <2>3. InOrder(buf)' = InOrder(buf')
    BY DEF InOrder
  <2>. QED
    BY <2>2, <2>3, Zenon DEF Window!Next, Window!Reset
<1>5. CASE HealthPatch \/ Edit \/ UNCHANGED vars
  BY <1>0, <1>5, SMTT(60) DEF HealthPatch, Edit, vars
<1>6. CASE Restart
  <2>1. buf' = Empty
    BY <1>6 DEF Restart
  <2>2. InOrder(Empty) = <<>>
    BY DEF InOrder, Empty
  <2>. QED
    BY <2>1, <2>2, ZenonT(60) DEF Window!Next, Window!Reset, InOrder
<1>. QED
  BY <1>0, <1>1, <1>2, <1>3, <1>4, <1>5, <1>6 DEF Next, WorkStep, HealthStep

(* After it wrapped, a new result replaces the oldest one and no other, for  *)
(* every BufferSize and any number of concurrent NodeClaim reconciles        *)
(* (Tracker.Update, RingBuffer.Insert).                                      *)
THEOREM RecentResultsHolds == Spec => RecentResults
<1>1. Init => IInv
  BY Initially
<1>2. IInv /\ [Next]_vars => IInv'
  BY StepHolds
<1>. QED
  BY <1>1, <1>2, StepSlides, PTL DEF Spec, RecentResults

(* The ring buffer of the code implements the sliding window of its design:  *)
(* it starts as the empty window, and each step is one of the window or      *)
(* leaves it alone (Tracker, RingBuffer).                                    *)
THEOREM ImplementsWindow == Spec => Window!Spec
<1>1. Init => Window!Init
  BY DEF Init, Window!Init, InOrder, Empty
<1>. QED
  BY <1>1, RecentResultsHolds, PTL DEF Spec, RecentResults, Window!Spec

-----------------------------------------------------------------------------
(* The conditions of a claim: none becomes Consolidatable against a pod event  *)
(* the controllers have seen, for any number of claims, any consolidateAfter,  *)
(* any number of disturbances and any deduplication window.                    *)

Ages == (0..Forever) \cup {Unset}

Shaped ==
    /\ "after" \in DOMAIN nodePool /\ nodePool.after \in Nat \cup {Unset}
    /\ DOMAIN claims = Claims /\ DOMAIN handled = Claims /\ DOMAIN decided = Claims
    /\ \A c \in Claims :
        /\ {"event", "initialized", "consolidatable"} \subseteq DOMAIN claims[c]
        /\ claims[c].event \in Ages /\ claims[c].initialized \in Ages /\ handled[c] \in Ages
        /\ decided[c] # Undecided => {"after", "consolidatable", "moved"} \subseteq DOMAIN decided[c]

(* The pod event time lags the last event handled by less than the window. *)
Recent(c) ==
    handled[c] # Unset => /\ claims[c].event # Unset
                         /\ handled[c] <= claims[c].event
                         /\ claims[c].event < handled[c] + Dedupe

(* A decision that turns the condition on, and that nothing has overtaken,   *)
(* was taken on the pod event time the claim still has.                      *)
Standing(c) ==
    /\ decided[c] # Undecided /\ ~decided[c].moved
    /\ decided[c].consolidatable /\ ~claims[c].consolidatable
Justified(c) ==
    Standing(c) => /\ decided[c].after \in Nat
                   /\ IF claims[c].event = Unset THEN handled[c] = Unset ELSE claims[c].event >= decided[c].after

(* The claims the hash controller has listed. *)
HashListed == "todo" \in DOMAIN hashing /\ \A t \in hashing.todo : t.claim \in Claims

IdleInv == Shaped /\ \A c \in Claims : Recent(c) /\ Justified(c)

(* The clock keeps ages in their range, in their order and within the window. *)
LEMMA OlderAges ==
    ASSUME WellFormed(Starts), NEW a \in Ages
    PROVE  /\ Older(a) \in Ages
           /\ Older(a) = Unset <=> a = Unset
           /\ a # Unset => Older(a) >= a
           /\ \A b \in Ages : a # Unset /\ b # Unset /\ b <= a /\ a < b + Dedupe
                                => Older(b) <= Older(a) /\ Older(a) < Older(b) + Dedupe
  BY DEF WellFormed, Ages, Older

(* It starts so. *)
LEMMA InitHolds ==
    ASSUME WellFormed(Starts), ConditionsInit
    PROVE  IdleInv
  BY DEF WellFormed, ConditionsInit, InitFrom, IdleInv, Shaped, Recent, Justified, Standing, Ages

(* A step that leaves alone the claims, their events and the decisions. *)
LEMMA Untouched ==
    ASSUME IdleInv, UNCHANGED <<claims, handled, decided>>,
           "after" \in DOMAIN nodePool', nodePool'.after \in Nat \cup {Unset}
    PROVE  IdleInv'
  BY DEF IdleInv, Shaped, Recent, Justified, Standing

(* A step of a claim that takes away the ground of its pending decision, and *)
(* keeps its event times in step.                                            *)
LEMMA Overtaken ==
    ASSUME WellFormed(Starts), IdleInv, NEW c \in Claims, UNCHANGED nodePool, Touch({c}),
           DOMAIN claims' = Claims, DOMAIN handled' = Claims,
           \A d \in Claims \ {c} : claims'[d] = claims[d] /\ handled'[d] = handled[d],
           {"event", "initialized", "consolidatable"} \subseteq DOMAIN claims'[c],
           claims'[c].event \in Ages, claims'[c].initialized \in Ages, handled'[c] \in Ages,
           Recent(c)'
    PROVE  IdleInv'
<1>1. \A d \in Claims \ {c} : decided'[d] = decided[d]
  BY DEF Touch
<1>2. DOMAIN decided' = Claims
  BY DEF Touch
<1>3. /\ decided[c] = Undecided => decided'[c] = Undecided
      /\ decided[c] # Undecided => decided'[c] = [decided[c] EXCEPT !.moved = TRUE]
  BY DEF Touch
<1>4. decided'[c] # Undecided => /\ {"after", "consolidatable", "moved"} \subseteq DOMAIN decided'[c]
                           /\ decided'[c].moved = TRUE
  BY <1>3 DEF IdleInv, Shaped
<1>5. Shaped'
  BY <1>1, <1>2, <1>4 DEF IdleInv, Shaped
<1>6. Justified(c)'
  BY <1>4 DEF Justified, Standing
<1>7. ASSUME NEW d \in Claims, d # c PROVE Recent(d)' /\ Justified(d)'
  BY <1>1, <1>7 DEF IdleInv, Recent, Justified, Standing
<1>. QED
  BY <1>5, <1>6, <1>7 DEF IdleInv

(* What the reconcile of a claim decides is justified. *)
LEMMA DecidesKeeps ==
    ASSUME WellFormed(Starts), IdleInv, NEW c \in Claims, Decides(c)
    PROVE  IdleInv'
<1>. DEFINE w == decided'[c]
<1>1. UNCHANGED <<nodePool, claims, handled>>
  BY DEF Decides
<1>2. PICK r : decided' = [decided EXCEPT ![c] =
            [phase |-> "patch", drifted |-> DriftAfter(c, r), after |-> nodePool.after,
             consolidatable |-> ConsolidatableAfter(c), moved |-> FALSE]]
  BY Zenon DEF Decides
<1>3. DOMAIN decided' = Claims /\ \A d \in Claims \ {c} : decided'[d] = decided[d]
  BY <1>2 DEF IdleInv, Shaped
<1>4. /\ {"after", "consolidatable", "moved"} \subseteq DOMAIN w
      /\ w.after = nodePool.after /\ w.consolidatable = ConsolidatableAfter(c)
  BY <1>2 DEF IdleInv, Shaped
<1>5. ConsolidatableAfter(c) /\ ~claims[c].consolidatable
        => /\ nodePool.after # Unset /\ claims[c].initialized # Unset
           /\ ~IsUnderConsolidateAfter(c)
  BY DEF ConsolidatableAfter
<1>6. ASSUME nodePool.after # Unset, ~IsUnderConsolidateAfter(c), claims[c].event # Unset
      PROVE  claims[c].event >= nodePool.after
  BY <1>6 DEF IsUnderConsolidateAfter, IdleInv, Shaped, Ages, WellFormed
<1>7. Justified(c)'
  <2>1. claims[c].event = Unset => handled[c] = Unset
    BY DEF IdleInv, Recent
  <2>. QED
    BY <1>1, <1>4, <1>5, <1>6, <2>1 DEF Justified, Standing, IdleInv, Shaped
<1>8. Shaped'
  BY <1>1, <1>3, <1>4 DEF IdleInv, Shaped
<1>. QED
  BY <1>1, <1>3, <1>7, <1>8 DEF IdleInv, Recent, Justified, Standing

(* A patch leaves event times alone, writes only the conditions of its claim *)
(* and ends the decision.                                                    *)
LEMMA PatchesKeeps ==
    ASSUME WellFormed(Starts), IdleInv, NEW c \in Claims, Patches(c)
    PROVE  IdleInv'
<1>1. UNCHANGED <<nodePool, handled>> /\ decided' = [decided EXCEPT ![c] = Undecided]
  BY DEF Patches
<1>2. DOMAIN claims' = Claims /\ \A d \in Claims \ {c} : claims'[d] = claims[d] /\ decided'[d] = decided[d]
  BY <1>1 DEF Patches, IdleInv, Shaped
<1>3. DOMAIN decided' = Claims /\ decided'[c] = Undecided
  BY <1>1 DEF IdleInv, Shaped
<1>4. /\ DOMAIN claims'[c] = DOMAIN claims[c]
      /\ claims'[c].event = claims[c].event /\ claims'[c].initialized = claims[c].initialized
  BY DEF Patches, IdleInv, Shaped
<1>5. Shaped'
  BY <1>1, <1>2, <1>3, <1>4 DEF IdleInv, Shaped
<1>6. Recent(c)' /\ Justified(c)'
  BY <1>1, <1>3, <1>4 DEF IdleInv, Recent, Justified, Standing
<1>. QED
  BY <1>1, <1>2, <1>5, <1>6 DEF IdleInv, Recent, Justified, Standing

(* An event inside the window is not recorded: the time on the claim is less *)
(* than the window old.  Any other overtakes the decision.                   *)
LEMMA PodEventKeeps ==
    ASSUME WellFormed(Starts), IdleInv, NEW c \in Claims, PodEvent(c)
    PROVE  IdleInv'
<1>1. UNCHANGED nodePool /\ handled' = [handled EXCEPT ![c] = 0]
  BY DEF PodEvent
<1>2. /\ DOMAIN handled' = Claims /\ handled'[c] = 0 /\ 0 \in Ages /\ 0 # Unset
      /\ \A d \in Claims \ {c} : handled'[d] = handled[d]
  BY <1>1 DEF IdleInv, Shaped, Ages, WellFormed
<1>3. CASE claims[c].event # Unset /\ claims[c].event < Dedupe
  <2>1. UNCHANGED <<claims, decided>>
    BY <1>3 DEF PodEvent
  <2>2. Shaped'
    BY <1>1, <1>2, <2>1 DEF IdleInv, Shaped
  <2>3. Recent(c)' /\ Justified(c)'
    BY <1>2, <1>3, <2>1 DEF IdleInv, Shaped, Recent, Justified, Standing, Ages, WellFormed
  <2>. QED
    BY <1>2, <2>1, <2>2, <2>3 DEF IdleInv, Recent, Justified, Standing
<1>4. CASE ~(claims[c].event # Unset /\ claims[c].event < Dedupe)
  <2>1. claims' = [claims EXCEPT ![c].event = 0] /\ Touch({c})
    BY <1>4 DEF PodEvent
  <2>2. /\ DOMAIN claims' = Claims /\ \A d \in Claims \ {c} : claims'[d] = claims[d]
        /\ DOMAIN claims'[c] = DOMAIN claims[c]
        /\ claims'[c].event = 0 /\ claims'[c].initialized = claims[c].initialized
    BY <2>1 DEF IdleInv, Shaped
  <2>3. Recent(c)'
    BY <1>2, <2>2 DEF Recent, WellFormed
  <2>4. {"event", "initialized", "consolidatable"} \subseteq DOMAIN claims'[c] /\ claims'[c].initialized \in Ages
    BY <2>2 DEF IdleInv, Shaped
  <2>. QED
    BY <1>1, <1>2, <2>1, <2>2, <2>3, <2>4, Overtaken
<1>. QED
  BY <1>3, <1>4

(* Other controllers move the claim, and with it its version. *)
LEMMA ClaimMovesKeeps ==
    ASSUME WellFormed(Starts), IdleInv, NEW c \in Claims, ClaimMoves(c)
    PROVE  IdleInv'
<1>1. UNCHANGED <<nodePool, handled>> /\ Touch({c})
  BY DEF ClaimMoves
<1>2. /\ DOMAIN claims' = Claims /\ \A d \in Claims \ {c} : claims'[d] = claims[d]
      /\ DOMAIN claims'[c] = DOMAIN claims[c] /\ claims'[c].event = claims[c].event
      /\ claims'[c].initialized = claims[c].initialized \/ claims'[c].initialized = 0
  BY DEF ClaimMoves, IdleInv, Shaped
<1>3. claims'[c].event \in Ages /\ claims'[c].initialized \in Ages /\ handled'[c] \in Ages
  BY <1>1, <1>2 DEF IdleInv, Shaped, Ages, WellFormed
<1>4. Recent(c)'
  BY <1>1, <1>2 DEF IdleInv, Recent
<1>5. {"event", "initialized", "consolidatable"} \subseteq DOMAIN claims'[c] /\ DOMAIN handled' = Claims
  BY <1>1, <1>2 DEF IdleInv, Shaped
<1>. QED
  BY <1>1, <1>2, <1>3, <1>4, <1>5, Overtaken

(* A claim is created where no decision is pending. *)
LEMMA ClaimCreatedKeeps ==
    ASSUME WellFormed(Starts), IdleInv, NEW c \in Claims, ClaimCreated(c)
    PROVE  IdleInv'
<1>1. UNCHANGED <<nodePool, handled, decided>> /\ decided[c] = Undecided
  BY DEF ClaimCreated
<1>2. /\ DOMAIN claims' = Claims /\ \A d \in Claims \ {c} : claims'[d] = claims[d]
      /\ DOMAIN claims'[c] = DOMAIN claims[c]
      /\ claims'[c].event = claims[c].event /\ claims'[c].initialized = claims[c].initialized
  BY DEF ClaimCreated, IdleInv, Shaped
<1>3. Shaped'
  BY <1>1, <1>2 DEF IdleInv, Shaped
<1>4. Recent(c)' /\ Justified(c)'
  BY <1>1, <1>2 DEF IdleInv, Recent, Justified, Standing
<1>. QED
  BY <1>1, <1>2, <1>3, <1>4 DEF IdleInv, Recent, Justified, Standing

(* The hash controller's patch of a claim moves its version. *)
LEMMA HashKeeps ==
    ASSUME WellFormed(Starts), IdleInv, HashListed, updateNodeClaimHash
    PROVE  IdleInv'
<1>1. UNCHANGED <<nodePool, handled>>
  BY DEF updateNodeClaimHash
<1>2. CASE UNCHANGED <<claims, decided>>
  BY <1>1, <1>2, Untouched DEF IdleInv, Shaped
<1>3. CASE ~UNCHANGED <<claims, decided>>
  <2>1. PICK t \in hashing.todo : /\ Touch({t.claim})
                                  /\ claims' = [claims EXCEPT ![t.claim].version = Current,
                                        ![t.claim].hash = IF t.rehash THEN Hash(hashing.spec) ELSE @]
    BY <1>3, ZenonT(60) DEF updateNodeClaimHash
  <2>. DEFINE c == t.claim
  <2>2. c \in Claims
    BY DEF HashListed
  <2>3. /\ DOMAIN claims' = Claims /\ \A d \in Claims \ {c} : claims'[d] = claims[d]
        /\ DOMAIN claims'[c] = DOMAIN claims[c]
        /\ claims'[c].event = claims[c].event /\ claims'[c].initialized = claims[c].initialized
    BY <2>1, <2>2 DEF IdleInv, Shaped
  <2>4. claims'[c].event \in Ages /\ claims'[c].initialized \in Ages /\ handled'[c] \in Ages
    BY <1>1, <2>2, <2>3 DEF IdleInv, Shaped
  <2>5. Recent(c)'
    BY <1>1, <2>2, <2>3 DEF IdleInv, Recent
  <2>6. {"event", "initialized", "consolidatable"} \subseteq DOMAIN claims'[c] /\ DOMAIN handled' = Claims
    BY <1>1, <2>2, <2>3 DEF IdleInv, Shaped
  <2>. QED
    BY <1>1, <2>1, <2>2, <2>3, <2>4, <2>5, <2>6, Overtaken
<1>. QED
  BY <1>2, <1>3

(* Time passes for all of them alike. *)
LEMMA TickKeeps ==
    ASSUME WellFormed(Starts), IdleInv, Tick
    PROVE  IdleInv'
<1>1. UNCHANGED <<nodePool, decided>>
  BY Zenon DEF Tick
<1>2. DOMAIN claims' = Claims /\ DOMAIN handled' = Claims
  BY ZenonT(60) DEF Tick
<1>3. ASSUME NEW c \in Claims
      PROVE  /\ DOMAIN claims'[c] = DOMAIN claims[c]
             /\ claims'[c].event = Older(claims[c].event)
             /\ claims'[c].initialized = Older(claims[c].initialized)
             /\ claims'[c].consolidatable = claims[c].consolidatable
             /\ handled'[c] = Older(handled[c])
  BY Zenon DEF Tick, IdleInv, Shaped
<1>4. ASSUME NEW c \in Claims
      PROVE  /\ claims[c].event \in Ages /\ claims'[c].event \in Ages
             /\ claims[c].initialized \in Ages /\ claims'[c].initialized \in Ages
             /\ handled[c] \in Ages /\ handled'[c] \in Ages
             /\ claims'[c].event = Unset <=> claims[c].event = Unset
             /\ handled'[c] = Unset <=> handled[c] = Unset
             /\ claims[c].event # Unset => claims'[c].event >= claims[c].event
  BY <1>3, OlderAges DEF IdleInv, Shaped
<1>5. Shaped'
  BY <1>1, <1>2, <1>3, <1>4 DEF IdleInv, Shaped
<1>6. ASSUME NEW c \in Claims PROVE Recent(c)'
  BY <1>3, <1>4, OlderAges DEF IdleInv, Recent
<1>7. ASSUME NEW c \in Claims PROVE Justified(c)'
  <2>1. Standing(c)' => Standing(c)
    BY <1>1, <1>3 DEF Standing
  <2>2. claims[c].event # Unset => claims[c].event \in Int /\ claims'[c].event \in Int
    BY <1>4, SMTT(60) DEF Ages
  <2>. QED
    BY <1>1, <1>4, <2>1, <2>2 DEF IdleInv, Justified
<1>. QED
  BY <1>5, <1>6, <1>7 DEF IdleInv

(* The hash controller lists claims only. *)
LEMMA ListedKept ==
    ASSUME HashListed, [ConditionsNext]_conditionVars
    PROVE  HashListed'
<1>1. CASE HashReads
  BY <1>1 DEF HashReads, OldHashes, HashListed
<1>2. CASE updateNodeClaimHash
  BY <1>2, Zenon DEF updateNodeClaimHash, HashListed
<1>3. CASE HashWrites
  BY <1>3 DEF HashWrites, NoHashing, HashListed
<1>4. CASE UNCHANGED hashing
  BY <1>4 DEF HashListed
<1>. QED
  BY <1>1, <1>2, <1>3, <1>4, Zenon
  DEF ConditionsNext, conditionVars, HashReconcile, Decides, Patches, PodEvent, ClaimMoves, ClaimCreated, CloudChanges, Tick, CacheExpires,
      PoolEdited

(* Every step of the controllers, the users and the clock keeps it. *)
LEMMA NextKeeps ==
    ASSUME WellFormed(Starts), IdleInv, HashListed, [ConditionsNext]_conditionVars
    PROVE  IdleInv'
<1>1. ASSUME NEW c \in Claims, Decides(c) PROVE IdleInv'
  BY <1>1, DecidesKeeps
<1>2. ASSUME NEW c \in Claims, Patches(c) PROVE IdleInv'
  BY <1>2, PatchesKeeps
<1>3. ASSUME NEW c \in Claims, PodEvent(c) PROVE IdleInv'
  BY <1>3, PodEventKeeps
<1>4. ASSUME NEW c \in Claims, ClaimMoves(c) PROVE IdleInv'
  BY <1>4, ClaimMovesKeeps
<1>5. ASSUME NEW c \in Claims, ClaimCreated(c) PROVE IdleInv'
  BY <1>5, ClaimCreatedKeeps
<1>6. ASSUME NEW c \in Claims, CloudChanges(c) PROVE IdleInv'
  BY <1>6, Untouched DEF CloudChanges, IdleInv, Shaped
<1>7. CASE HashReads
  BY <1>7, Untouched DEF HashReads, IdleInv, Shaped
<1>8. CASE updateNodeClaimHash
  BY <1>8, HashKeeps
<1>9. CASE HashWrites
  <2>1. "after" \in DOMAIN nodePool' /\ nodePool'.after = nodePool.after
    BY <1>9 DEF HashWrites, IdleInv, Shaped
  <2>. QED
    BY <1>9, <2>1, Untouched DEF HashWrites, IdleInv, Shaped
<1>10. CASE Tick
  BY <1>10, TickKeeps
<1>11. CASE CacheExpires
  BY <1>11, Untouched DEF CacheExpires, IdleInv, Shaped
<1>12. CASE PoolEdited
  <2>1. "after" \in DOMAIN nodePool' /\ nodePool'.after \in {nodePool.after, Unset, 0, 2}
    BY <1>12 DEF PoolEdited, IdleInv, Shaped
  <2>. QED
    BY <1>12, <2>1, Untouched DEF PoolEdited, IdleInv, Shaped
<1>13. CASE UNCHANGED conditionVars
  BY <1>13, Untouched DEF conditionVars, IdleInv, Shaped
<1>. QED
  BY <1>1, <1>2, <1>3, <1>4, <1>5, <1>6, <1>7, <1>8, <1>9, <1>10, <1>11, <1>12, <1>13 DEF ConditionsNext, HashReconcile

(* Only a patch turns the condition on, and what it writes is justified. *)
LEMMA TurnedOn ==
    ASSUME WellFormed(Starts), IdleInv, HashListed, [ConditionsNext]_conditionVars
    PROVE  IdleLongEnough
<1>. SUFFICES ASSUME NEW c \in Claims, ~claims[c].consolidatable, claims'[c].consolidatable
              PROVE  handled[c] = Unset \/ handled[c] > decided[c].after - Dedupe
  BY DEF IdleLongEnough
<1>1. ASSUME NEW d \in Claims, Patches(d) PROVE d = c /\ Standing(c)
  <2>1. d = c
    BY <1>1 DEF Patches, IdleInv, Shaped
  <2>2. decided[c] # Undecided /\ ~decided[c].moved /\ claims'[c].consolidatable = decided[c].consolidatable
    BY <1>1, <2>1 DEF Patches, IdleInv, Shaped
  <2>. QED
    BY <2>1, <2>2 DEF Standing
<1>2. ASSUME Standing(c) PROVE handled[c] = Unset \/ handled[c] > decided[c].after - Dedupe
  BY <1>2 DEF IdleInv, Shaped, Recent, Justified, Ages, WellFormed
<1>3. ASSUME NEW d \in Claims, PodEvent(d) \/ ClaimMoves(d) \/ ClaimCreated(d) PROVE FALSE
  BY <1>3 DEF PodEvent, ClaimMoves, ClaimCreated, IdleInv, Shaped
<1>4. ASSUME updateNodeClaimHash PROVE FALSE
  BY <1>4, SMTT(60) DEF updateNodeClaimHash, HashListed, IdleInv, Shaped
<1>5. ASSUME Tick PROVE FALSE
  BY <1>5, Zenon DEF Tick, IdleInv, Shaped
<1>6. ASSUME UNCHANGED claims PROVE FALSE
  BY <1>6
<1>. QED
  BY <1>1, <1>2, <1>3, <1>4, <1>5, <1>6
  DEF ConditionsNext, conditionVars, HashReconcile, Decides, CloudChanges, HashReads, HashWrites, CacheExpires, PoolEdited

(* A claim becomes Consolidatable only when the last pod event handled on    *)
(* its node is older than consolidateAfter less the deduplication window,    *)
(* however the reconciles of nodeclaim/disruption, podevents and             *)
(* nodepool/hash interleave.                                                 *)
THEOREM ConsolidatableIsIdleHolds ==
    ASSUME WellFormed(Starts)
    PROVE  ConditionsSpec => ConsolidatableIsIdle
<1>1. ConditionsInit => IdleInv /\ HashListed
  BY InitHolds DEF ConditionsInit, InitFrom, NoHashing, HashListed
<1>2. IdleInv /\ HashListed /\ [ConditionsNext]_conditionVars => IdleInv' /\ HashListed'
  BY NextKeeps, ListedKept
<1>3. IdleInv /\ HashListed /\ [ConditionsNext]_conditionVars => IdleLongEnough
  BY TurnedOn
<1>. QED
  BY <1>1, <1>2, <1>3, PTL DEF ConditionsSpec, ConsolidatableIsIdle
=============================================================================
