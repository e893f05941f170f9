------------------------------ MODULE InstanceTypes ------------------------------
(***************************************************************************)
(* cloudprovider.InstanceType and its Offerings: the zones, capacity types *)
(* and prices at which a machine of one shape can be launched.             *)
(*                                                                         *)
(* An instance type is [reqs, cap, overhead, vols, offerings]: one amount  *)
(* stands for its resources, vols bounds the volumes it can attach (None:  *)
(* not declared).  An offering is [reqs, price, available, left, cap,      *)
(* overhead]: left is ReservationCapacity; cap and overhead override the   *)
(* instance type's unless None.                                            *)
(***************************************************************************)
EXTENDS Requirements, FiniteSetsExt

CONSTANTS
    Zone, CapacityType, ReservationID,   \* label keys
    Class                                \* capacity type -> class, as registered

MaxPrice == 2147483647                   \* math.MaxFloat64
Reserved == "reserved"

\* The order a launch resolves its capacity type class in.
CapacityTypeClassPrecedence == <<"reserved", "spot", "on-demand">>

CapacityTypesOf(class) == {ct \in DOMAIN Class : Class[ct] = class}
CapacityTypeClassRequirements(class) == [k \in {CapacityType} |-> In(CapacityTypesOf(class))]
HasCapacityTypeClass(r, class) == \E ct \in CapacityTypesOf(class) : Has(r, ct)

(***************************************************************************)
(* Offerings.  Each names one zone, one capacity type and, if reserved,    *)
(* one reservation.                                                        *)
(***************************************************************************)
Only(o, k) == CHOOSE v \in o.reqs[k].values : TRUE

IsReserved(o) == Has(Get(o.reqs, CapacityType), Reserved)

Available(ofs) == {o \in ofs : o.available}

\* A full reservation is Available, but nothing can be launched into it.
Launchable(ofs) == {o \in ofs : o.available /\ (CapacityType \in DOMAIN o.reqs /\ IsReserved(o) => o.left > 0)}

CompatibleOfferings(ofs, reqs) == {o \in ofs : Compatible(reqs, o.reqs, WellKnownLabels)}

MostExpensive(ofs) == Max({o.price : o \in ofs})
Cheapest(ofs) == Min({o.price : o \in ofs})

\* The most a launch can cost: the dearest offering of the class it will use.
WorstLaunchPrice(ofs, reqs) ==
    LET OfClass(i) == CompatibleOfferings(CompatibleOfferings(ofs, reqs),
                          CapacityTypeClassRequirements(CapacityTypeClassPrecedence[i]))
        classes == {i \in 1..3 : OfClass(i) # {}}
    IN  IF classes = {} THEN MaxPrice ELSE MostExpensive(OfClass(Min(classes)))

(***************************************************************************)
(* Instance types.                                                         *)
(***************************************************************************)
computeAllocatable(it, cap, overhead) ==
    (IF cap = None THEN it.cap ELSE cap) - (IF overhead = None THEN it.overhead ELSE overhead)

\* The available offerings, grouped by their overrides; the base group first
\* and present even when it is empty.
AllocatableOfferingsList(it) ==
    {[allocatable |-> computeAllocatable(it, k[1], k[2]),
      offerings   |-> {o \in Available(it.offerings) : <<o.cap, o.overhead>> = k}] :
        k \in {<<None, None>>} \cup {<<o.cap, o.overhead>> : o \in Available(it.offerings)}}

\* nodeclaim.go's fits: some offering that is compatible has the room.
fits(it, requests, reqs) ==
    \E g \in AllocatableOfferingsList(it) :
        requests <= g.allocatable /\ CompatibleOfferings(g.offerings, reqs) # {}

compatible(it, reqs) == Intersects(it.reqs, reqs)

\* What OrderByPrice sorts by.
CheapestLaunch(it, reqs) ==
    LET ofs == CompatibleOfferings(Launchable(it.offerings), reqs)
    IN  IF ofs = {} THEN MaxPrice ELSE Cheapest(ofs)

\* The sets the first n of OrderByPrice can be: ties are in any order.
FirstByPrice(types, its, reqs, n) ==
    LET Price(it) == CheapestLaunch(types[it], reqs)
    IN  IF Cardinality(its) <= n THEN {its}
        ELSE {S \in kSubset(n, its) : \A a \in S, b \in its \ S : Price(a) <= Price(b)}

\* The values of label k that the instance types offer and reqs allows.
Offered(types, its, reqs, k) ==
    {v \in UNION {Get(types[it].reqs, k).values : it \in its} : Has(reqs[k], v)}

\* The labels whose minValues the instance types do not reach (none, when there
\* are no instance types: SatisfiesMinValues then returns no error).
UnsatisfiedMinValues(types, its, reqs) ==
    IF its = {} THEN {}
    ELSE {k \in DOMAIN reqs : reqs[k].min # None /\ Cardinality(Offered(types, its, reqs, k)) < reqs[k].min}

SatisfiesMinValues(types, its, reqs) == UnsatisfiedMinValues(types, its, reqs) = {}

\* Truncate: {} is its error.
Truncate(types, its, reqs, n, bestEffort) ==
    {S \in FirstByPrice(types, its, reqs, n) : bestEffort \/ SatisfiesMinValues(types, S, reqs)}
==================================================================================
