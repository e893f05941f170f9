------------------------------ MODULE Requirements ------------------------------
(***************************************************************************)
(* The label algebra of pkg/scheduling: a Requirement is the set of values *)
(* one label may have, Requirements one Requirement per label.  The        *)
(* scheduler only ever narrows them, by Add, and asks Compatible before it *)
(* does.                                                                   *)
(***************************************************************************)
EXTENDS Integers, FiniteSets, TLC

CONSTANTS
    Values,           \* the values a label can have
    Atoi,             \* the number a value reads as, None if it is no number
    None,             \* a nil pointer: no bound, no minValues
    MaxInt,           \* math.MaxInt
    WellKnownLabels   \* v1.WellKnownLabels

ASSUME RequirementsAssumption ==
    /\ None \notin Int
    /\ Atoi \in [Values -> Int \cup {None}]
    /\ MaxInt \in Nat

\* A non-complement requirement lists its values and has no bounds: the
\* constructors and Intersection drop them.
Requirement ==
    {r \in [complement : BOOLEAN, values : SUBSET Values,
            gte : Int \cup {None}, lte : Int \cup {None}, min : Nat \cup {None}] :
        ~r.complement => r.gte = None /\ r.lte = None}

(***************************************************************************)
(* Constructors: one per node selector operator.                           *)
(***************************************************************************)
In(S) == [complement |-> FALSE, values |-> S, gte |-> None, lte |-> None, min |-> None]
NotIn(S) == [In(S) EXCEPT !.complement = TRUE]
DoesNotExist == In({})
Exists == NotIn({})
Gte(n) == [Exists EXCEPT !.gte = n]
Lte(n) == [Exists EXCEPT !.lte = n]
\* Nothing is greater than math.MaxInt.
Gt(n) == IF n = MaxInt THEN DoesNotExist ELSE Gte(n + 1)
Lt(n) == Lte(n - 1)
WithMinValues(r, m) == [r EXCEPT !.min = m]

maxIntPtr(a, b) == IF a = None THEN b ELSE IF b = None THEN a ELSE IF a > b THEN a ELSE b
minIntPtr(a, b) == IF a = None THEN b ELSE IF b = None THEN a ELSE IF a < b THEN a ELSE b

withinBounds(v, gte, lte) ==
    \/ gte = None /\ lte = None
    \/ /\ Atoi[v] # None
       /\ gte # None => Atoi[v] >= gte
       /\ lte # None => Atoi[v] <= lte

\* Bounds that exclude every number.
Crossed(gte, lte) == gte # None /\ lte # None /\ gte > lte

Has(r, v) == (IF r.complement THEN v \notin r.values ELSE v \in r.values)
             /\ withinBounds(v, r.gte, r.lte)

Operator(r) ==
    IF r.complement THEN (IF r.values = {} THEN "Exists" ELSE "NotIn")
                    ELSE (IF r.values = {} THEN "DoesNotExist" ELSE "In")

\* The values listed by the intersection, before the bounds drop some.
Listed(r, q) ==
    IF r.complement /\ q.complement THEN r.values \cup q.values
    ELSE IF r.complement THEN q.values \ r.values
    ELSE IF q.complement THEN r.values \ q.values
    ELSE r.values \cap q.values

Intersection(r, q) ==
    LET complement == r.complement /\ q.complement
        gte == maxIntPtr(r.gte, q.gte)
        lte == minIntPtr(r.lte, q.lte)
        min == maxIntPtr(r.min, q.min)
    IN  IF Crossed(gte, lte) THEN WithMinValues(DoesNotExist, min)
        ELSE [complement |-> complement,
              values |-> {v \in Listed(r, q) : withinBounds(v, gte, lte)},
              gte |-> IF complement THEN gte ELSE None,
              lte |-> IF complement THEN lte ELSE None,
              min |-> min]

HasIntersection(r, q) ==
    LET gte == maxIntPtr(r.gte, q.gte)
        lte == minIntPtr(r.lte, q.lte)
    IN  /\ ~Crossed(gte, lte)
        /\ \/ r.complement /\ q.complement
           \/ \E v \in Listed(r, q) : withinBounds(v, gte, lte)

(***************************************************************************)
(* Requirements: a function from some labels to Requirement.  A label it   *)
(* does not define is one the pod does not care about, or a node may have  *)
(* with any value.                                                         *)
(***************************************************************************)
Get(rs, k) == IF k \in DOMAIN rs THEN rs[k] ELSE Exists

Add(rs, qs) ==
    [k \in DOMAIN rs \cup DOMAIN qs |->
        IF k \notin DOMAIN rs THEN qs[k] ELSE IF k \notin DOMAIN qs THEN rs[k] ELSE Intersection(qs[k], rs[k])]

NoRequirements == <<>>
NewLabelRequirements(labels) == [k \in DOMAIN labels |-> In({labels[k]})]

Absence == {"NotIn", "DoesNotExist"}

\* Two requirements that both accept the label's absence never conflict.
Intersects(rs, qs) ==
    \A k \in DOMAIN rs \cap DOMAIN qs :
        \/ HasIntersection(rs[k], qs[k])
        \/ Operator(qs[k]) \in Absence /\ Operator(rs[k]) \in Absence

\* undefined: the labels the caller allows rs to leave undefined.
Compatible(rs, qs, undefined) ==
    /\ \A k \in (DOMAIN qs \ undefined) \ DOMAIN rs : Operator(qs[k]) \in Absence
    /\ Intersects(rs, qs)

\* What is left of a requirement written into a NodeClaim and read back: a bound
\* is written, the values excluded beside it are not.
NodeSelectorRequirement(r) == IF r.gte # None \/ r.lte # None THEN [r EXCEPT !.values = {}] ELSE r

HasMinValues(rs) == \E k \in DOMAIN rs : rs[k].min # None
=================================================================================
