------------------------- MODULE EvictionQueueProofs -------------------------
(***************************************************************************)
(* What the drain of a Node respects, for any pods, tiers, grace periods   *)
(* and termination times, however the reconciles of the queue interleave.  *)
(***************************************************************************)
EXTENDS EvictionQueue, TLAPS

(* Entries and reconciles are of pods that have existed; the first pods of   *)
(* all names are on the Node.                                                *)
Known ==
    \A n \in Names : /\ pods[n].uid = 1 => pods[n].here
                     /\ \A u \in Uids : items[n][u].in => u <= pods[n].uid
                     /\ rec[n].pc # "idle" => rec[n].uid <= pods[n].uid

(* A deadline that shortens grace periods is never before the termination    *)
(* time, and a deletion under way was needed for its deadline.               *)
Later ==
    \A n \in Names :
        /\ \A u \in Uids : items[n][u].in /\ ~items[n][u].timeout => items[n][u].deadline >= node.term
        /\ rec[n].pc = "delete" => /\ rec[n].deadline # Never /\ rec[n].deadline >= node.term
                                   /\ Same(n) /\ ~IsTerminating(pods[n]) => now + Grace[n] > rec[n].deadline

(* No pod of an earlier tier that was there from the start is active and has *)
(* time to leave gracefully; or the pod itself has not.                      *)
InTurn(n) ==
    TooLate(n) \/ \A m \in Names : Tier[m] < Tier[n] /\ pods[m].uid = 1 => ~IsActive(pods[m]) \/ TooLate(m)

Queued(n) == IsActive(pods[n]) /\ (items[n][pods[n].uid].in \/ (rec[n].pc = "evict" /\ Same(n)))

Turns == ~node.reboot => \A n \in Names : Queued(n) => InTurn(n)

EvictionInv == TypeOK /\ Known /\ Later /\ Turns

-----------------------------------------------------------------------------
LEMMA NeverNat == Never \in Nat
BY SMT DEF Never

LEMMA DeadlinesNat ==
    /\ Deadlines \subseteq Nat /\ Never \in Deadlines
    /\ \A d \in 0..MaxTime : d \in Deadlines /\ d # Never
    /\ \A d \in Deadlines : d <= Never
BY EvictionAssumption, NeverNat DEF Deadlines, Times

LEMMA Typed ==
    ASSUME TypeOK, NEW n \in Names
    PROVE  /\ pods \in [Names -> PodObjs] /\ pods[n] \in PodObjs /\ pods[n].uid \in Uids /\ pods[n].dts \in Nat
           /\ items[n] \in [Uids -> Items] /\ rec[n] \in Recs /\ rec[n].uid \in Uids
           /\ node.term \in Nat /\ node.term \in Deadlines /\ node.rebootBy \in Deadlines
           /\ now \in Nat /\ Grace[n] \in Nat /\ Grace[n] > 0 /\ rec[n].deadline \in Nat /\ rec[n].deadline \in Deadlines
<1>1. pods \in [Names -> PodObjs] /\ pods[n] \in PodObjs /\ pods[n].uid \in Uids /\ pods[n].dts \in Nat
  BY DEF TypeOK, PodObjs
<1>2. items[n] \in [Uids -> Items]
  BY DEF TypeOK
<1>3. rec[n] \in Recs /\ rec[n].uid \in Uids /\ rec[n].deadline \in Deadlines
  BY DEF TypeOK, Recs
<1>4. node.term \in Deadlines /\ node.rebootBy \in Deadlines
  BY DEF TypeOK, Nodes
<1>5. now \in Nat
  BY EvictionAssumption DEF TypeOK, Times
<1>6. Grace[n] \in Nat /\ Grace[n] > 0
  BY EvictionAssumption
<1> QED BY <1>1, <1>2, <1>3, <1>4, <1>5, <1>6, DeadlinesNat, Zenon

(* Queue.merge keeps an entry an entry, and its deadline bounded. *)
LEMMA MergeKeeps ==
    ASSUME NEW old \in Items, NEW new \in Items, new.in, NEW t \in Nat,
           old.in /\ ~old.timeout => old.deadline >= t, ~new.timeout => new.deadline >= t
    PROVE  /\ merge(old, new) \in Items /\ merge(old, new).in
           /\ ~merge(old, new).timeout => merge(old, new).deadline >= t
<1>1. CASE ~old.in \/ (old.timeout # new.timeout /\ ~new.timeout)
  <2>1. merge(old, new) = new
    BY <1>1 DEF merge
  <2> QED BY <2>1
<1>2. CASE old.in /\ old.timeout # new.timeout /\ new.timeout
  <2>1. merge(old, new) = old
    BY <1>2 DEF merge
  <2> QED BY <1>2, <2>1
<1>3. CASE old.in /\ old.timeout = new.timeout
  <2> DEFINE d == earlier(old.deadline, new.deadline)
  <2>1. merge(old, new) = [new EXCEPT !.deadline = d]
    BY <1>3 DEF merge
  <2>2. d \in {old.deadline, new.deadline}
    BY DEF earlier
  <2>3. d \in Deadlines /\ (~new.timeout => d >= t)
    BY <1>3, <2>2, DeadlinesNat DEF Items
  <2> HIDE DEF d
  <2> QED BY <2>1, <2>3 DEF Items
<1> QED BY <1>1, <1>2, <1>3 DEF Items

(* Time passes, the termination time is tightened and pods do not become     *)
(* active again: what is in turn stays so.                                   *)
Settles == /\ now' >= now /\ node'.term <= node.term
           /\ \A m \in Names : pods'[m].uid = 1 /\ IsActive(pods'[m]) => pods[m].uid = 1 /\ IsActive(pods[m])

LEMMA InTurnStays ==
    ASSUME TypeOK, TypeOK', Settles, NEW n \in Names, InTurn(n)
    PROVE  InTurn(n)'
<1>1. \A m \in Names : /\ now \in Nat /\ now' \in Nat /\ Grace[m] \in Nat /\ node.term \in Nat /\ node'.term \in Nat
  BY EvictionAssumption, DeadlinesNat, Zenon DEF TypeOK, Nodes, Times
<1>2. node.term # Never => node'.term # Never
  <2>1. node.term \in Deadlines /\ node'.term \in Deadlines
    BY DEF TypeOK, Nodes
  <2> QED BY <1>1, <2>1, DeadlinesNat DEF Settles
<1>3. \A m \in Names : TooLate(m) => TooLate(m)'
  BY <1>1, <1>2 DEF Settles, TooLate
<1> QED BY <1>3 DEF InTurn, Settles

(* Nothing new is queued. *)
LEMMA TurnsStay ==
    ASSUME TypeOK, TypeOK', Settles, Turns, node.reboot => node'.reboot,
           \A n \in Names : Queued(n)' => Queued(n)
    PROVE  Turns'
BY InTurnStays DEF Turns

-----------------------------------------------------------------------------
(* Drain *)

LEMMA DrainKeeps ==
    ASSUME EvictionInv, NEW deadline \in Deadlines, NEW leave \in BOOLEAN, NEW skip \in BOOLEAN,
           Drain(deadline, leave, skip), deadline = Never \/ leave \/ deadline = node.term,
           node.reboot \/ (deadline = node.term /\ ~leave /\ ~skip)
    PROVE  EvictionInv'
<1> DEFINE waiting  == {n \in Names : IsWaitingEviction(pods[n]) /\ (skip => ~Daemon(n))}
           eligible == {n \in waiting : ~leave /\ needsDeleteByDeadline(n, pods[n], deadline)}
           graceful == waiting \ eligible
           timeout  == leave /\ deadline # Never
           G == FirstTier(graceful)
           d == NewItem(deadline, FALSE)
           g == NewItem(deadline, timeout)
           it(n) == items[n][pods[n].uid]
           item(n) == IF n \in eligible THEN merge(it(n), d) ELSE merge(it(n), g)
<1>1. /\ UNCHANGED <<pods, node, rec, now, env>>
      /\ items' = [n \in Names |-> IF n \in eligible \cup G THEN [items[n] EXCEPT ![pods[n].uid] = item(n)] ELSE items[n]]
      /\ wq' = wq \cup {n \in eligible \cup G : ~it(n).in}
  BY Zenon DEF Drain, Add
<1>2. TypeOK /\ Known /\ Later /\ Turns
  BY DEF EvictionInv
<1>3. eligible \subseteq Names /\ G \subseteq Names /\ node.term \in Nat
  BY <1>2, DeadlinesNat, Zenon DEF FirstTier, TypeOK, Nodes
<1>4. d \in Items /\ g \in Items /\ d.in /\ g.in /\ ~d.timeout /\ (g.timeout <=> timeout) /\ d.deadline = deadline /\ g.deadline = deadline
  BY Zenon DEF NewItem, Items
<1>5. ASSUME NEW n \in Names
      PROVE  /\ item(n) \in Items /\ item(n).in
             /\ ~item(n).timeout => item(n).deadline >= node.term
  <2>1. it(n) \in Items /\ (it(n).in /\ ~it(n).timeout => it(n).deadline >= node.term)
    BY <1>2, Typed DEF Later
  <2>2. (n \in eligible => d.deadline >= node.term) /\ (~g.timeout => g.deadline >= node.term)
    <3>1. deadline = Never => deadline >= node.term
      BY <1>2, DeadlinesNat, Zenon DEF TypeOK, Nodes
    <3>2. deadline = node.term => deadline >= node.term
      BY <1>3
    <3>3. n \in eligible => ~leave
      OBVIOUS
    <3> QED BY <1>4, <3>1, <3>2, <3>3, Zenon
  <2> QED BY <1>3, <1>4, <2>1, <2>2, MergeKeeps, Zenon
<1> DEFINE new(n) == [items[n] EXCEPT ![pods[n].uid] = item(n)]
<1>6. ASSUME NEW n \in Names, NEW u \in Uids
      PROVE  /\ n \in eligible \cup G /\ u = pods[n].uid => items'[n][u] = item(n)
             /\ n \notin eligible \cup G \/ u # pods[n].uid => items'[n][u] = items[n][u]
  <2>1. items[n] \in [Uids -> Items] /\ pods[n].uid \in Uids
    BY <1>2, Typed
  <2> HIDE DEF item, eligible, G
  <2> QED BY <1>1, <2>1
<1>7. TypeOK'
  <2>1. ASSUME NEW n \in Names PROVE items'[n] \in [Uids -> Items]
    <3>1. items[n] \in [Uids -> Items] /\ pods[n].uid \in Uids /\ item(n) \in Items
      BY <1>2, <1>5, Typed, Zenon
    <3> HIDE DEF item, eligible, G
    <3>2. items'[n] = IF n \in eligible \cup G THEN [items[n] EXCEPT ![pods[n].uid] = item(n)] ELSE items[n]
      BY <1>1
    <3> QED BY <3>1, <3>2
  <2>2. items' = [n \in Names |-> items'[n]]
    <3> HIDE DEF item, eligible, G
    <3> QED BY <1>1
  <2>3. items' \in [Names -> [Uids -> Items]]
    BY <2>1, <2>2
  <2>4. wq' \subseteq Names
    <3> HIDE DEF eligible, G
    <3> QED BY <1>1, <1>2, <1>3 DEF TypeOK
  <2> HIDE DEF eligible, G, item
  <2> QED BY <1>1, <1>2, <2>3, <2>4 DEF TypeOK
<1> HIDE DEF item, it, d, g
<1>8. Known'
  <2>1. ASSUME NEW n \in Names, NEW u \in Uids, items'[n][u].in PROVE u <= pods[n].uid
    <3>1. u = pods[n].uid \/ items[n][u].in
      BY <1>6, <2>1, Zenon
    <3>2. pods[n].uid \in Nat
      BY <1>2, Typed, EvictionAssumption DEF Uids
    <3> QED BY <1>2, <3>1, <3>2 DEF Known
  <2> HIDE DEF eligible, G
  <2> QED BY <1>1, <1>2, <2>1 DEF Known
<1>9. Later'
  <2>1. ASSUME NEW n \in Names, NEW u \in Uids, items'[n][u].in, ~items'[n][u].timeout
        PROVE  items'[n][u].deadline >= node.term
    BY <1>2, <1>5, <1>6, <2>1, ZenonT(60) DEF Later
  <2> HIDE DEF eligible, G
  <2> QED BY <1>1, <1>2, <2>1 DEF Later, Same
<1>10. Turns'
  <2> SUFFICES ASSUME ~node.reboot, NEW n \in Names, Queued(n)'
               PROVE  InTurn(n)
    <3> HIDE DEF eligible, G
    <3> QED BY <1>1 DEF Turns, InTurn, TooLate
  <2>1. CASE Queued(n)
    BY <1>2, <2>1 DEF Turns
  <2>2. CASE ~Queued(n)
    <3>1. deadline = node.term /\ ~leave /\ ~skip
      OBVIOUS
    <3>2. IsActive(pods[n]) /\ n \in eligible \cup G
      <4>1. IsActive(pods[n]) /\ ~items[n][pods[n].uid].in /\ items'[n][pods[n].uid].in /\ pods[n].uid \in Uids
        <5> HIDE DEF eligible, G
        <5> QED BY <1>1, <1>2, <2>2, Typed DEF Queued, Same, IsActive
      <4> QED BY <1>6, <4>1
    <3>3. CASE n \in eligible
      <4>1. needsDeleteByDeadline(n, pods[n], node.term)
        BY <3>1, <3>3
      <4> QED BY <3>2, <4>1 DEF needsDeleteByDeadline, IsActive, IsTerminating, InTurn, TooLate
    <3>4. CASE n \in G
      <4> SUFFICES ASSUME NEW m \in Names, Tier[m] < Tier[n], pods[m].uid = 1, IsActive(pods[m])
                   PROVE  TooLate(m)
        BY DEF InTurn
      <4>1. m \in waiting
        BY <1>2, <3>1, SMTT(60) DEF IsWaitingEviction, IsStuckTerminating, IsTerminating, IsActive, Known
      <4>2. m \notin graceful
        BY <3>4, EvictionAssumption, SMTT(60) DEF FirstTier
      <4>3. needsDeleteByDeadline(m, pods[m], node.term)
        BY <3>1, <4>1, <4>2
      <4> QED BY <4>3 DEF needsDeleteByDeadline, IsActive, IsTerminating, TooLate
    <3> QED BY <3>2, <3>3, <3>4
  <2> QED BY <2>1, <2>2
<1> QED BY <1>7, <1>8, <1>9, <1>10 DEF EvictionInv

-----------------------------------------------------------------------------
(* Pods grow older, reconciles move on and no entry is added. *)

PodAges(n) ==
    /\ pods[n].uid <= pods'[n].uid /\ (pods'[n].uid = 1 => pods'[n].here)
    /\ pods'[n].uid = pods[n].uid =>
          /\ IsActive(pods'[n]) => IsActive(pods[n])
          /\ pods'[n].phase \notin {"gone", "terminating"} => pods[n].phase \notin {"gone", "terminating"}

RecEnds(n) == \/ rec'[n] = rec[n] \/ rec'[n].pc = "idle"
              \/ rec'[n].pc = "complete" /\ rec'[n].uid = rec[n].uid /\ rec[n].pc # "idle"

ItemsShrink(n) == \A u \in Uids : items'[n][u].in => items'[n][u] = items[n][u]

NodeAges == node'.term <= node.term /\ (node.reboot => node'.reboot)

LEMMA Frame ==
    ASSUME EvictionInv, TypeOK', now' >= now, NodeAges,
           \A n \in Names : PodAges(n) /\ RecEnds(n) /\ ItemsShrink(n)
    PROVE  EvictionInv'
<1>1. TypeOK /\ Known /\ Later /\ Turns
  BY SMTT(60) DEF EvictionInv
<1>2. ASSUME NEW n \in Names
      PROVE  /\ pods[n].uid \in Uids /\ pods'[n].uid \in Uids /\ rec[n].uid \in Uids /\ now \in Nat /\ now' \in Nat
             /\ Grace[n] \in Nat /\ node.term \in Nat /\ node'.term \in Nat /\ rec[n].deadline \in Nat
             /\ \A u \in Uids : u \in Nat /\ u >= 1 /\ items[n][u] \in Items /\ items[n][u].deadline \in Nat
  <2>1. pods'[n].uid \in Uids
    BY DEF TypeOK, PodObjs
  <2>2. now' \in Nat /\ node'.term \in Nat
    BY EvictionAssumption, DeadlinesNat, Zenon DEF TypeOK, Times, Nodes
  <2>3. \A u \in Uids : u \in Nat /\ u >= 1
    BY EvictionAssumption DEF Uids
  <2>4. \A u \in Uids : items[n][u] \in Items /\ items[n][u].deadline \in Nat
    BY <1>1, Typed, DeadlinesNat, Zenon DEF Items
  <2> QED BY <1>1, <2>1, <2>2, <2>3, <2>4, Typed
<1>3. Known'
  <2> SUFFICES ASSUME NEW n \in Names
               PROVE  /\ pods'[n].uid = 1 => pods'[n].here
                      /\ \A u \in Uids : items'[n][u].in => u <= pods'[n].uid
                      /\ rec'[n].pc # "idle" => rec'[n].uid <= pods'[n].uid
    BY DEF Known
  <2>1. ASSUME NEW u \in Uids, items'[n][u].in PROVE u <= pods'[n].uid
    <3>1. u <= pods[n].uid
      BY <1>1, <2>1, SMTT(60) DEF ItemsShrink, Known
    <3> QED BY <1>2, <3>1 DEF PodAges
  <2>2. ASSUME rec'[n].pc # "idle" PROVE rec'[n].uid <= pods'[n].uid
    <3>1. rec'[n].uid = rec[n].uid /\ rec[n].pc # "idle"
      BY <2>2 DEF RecEnds
    <3>2. rec[n].uid <= pods[n].uid
      BY <1>1, <3>1 DEF Known
    <3> QED BY <1>2, <3>1, <3>2 DEF PodAges
  <2> QED BY <2>1, <2>2 DEF PodAges
<1>4. ASSUME NEW n \in Names, rec'[n] = rec[n], rec[n].pc # "idle", Same(n)'
      PROVE  pods'[n].uid = pods[n].uid
  <2>1. rec[n].uid = pods'[n].uid /\ rec[n].uid <= pods[n].uid
    BY <1>1, <1>4, SMTT(60) DEF Same, Known
  <2> QED BY <1>2, <2>1 DEF PodAges
<1>5. Later'
  <2> SUFFICES ASSUME NEW n \in Names
               PROVE  /\ \A u \in Uids : items'[n][u].in /\ ~items'[n][u].timeout => items'[n][u].deadline >= node'.term
                      /\ rec'[n].pc = "delete" =>
                            /\ rec'[n].deadline # Never /\ rec'[n].deadline >= node'.term
                            /\ Same(n)' /\ ~IsTerminating(pods'[n]) => now' + Grace[n] > rec'[n].deadline
    BY SMTT(60) DEF Later
  <2>1. ASSUME NEW u \in Uids, items'[n][u].in, ~items'[n][u].timeout PROVE items'[n][u].deadline >= node'.term
    <3>1. items'[n][u] = items[n][u] /\ items[n][u].deadline >= node.term
      BY <1>1, <2>1, SMTT(60) DEF ItemsShrink, Later
    <3> QED BY <1>2, <3>1 DEF NodeAges
  <2>2. ASSUME rec'[n].pc = "delete"
        PROVE  /\ rec'[n].deadline # Never /\ rec'[n].deadline >= node'.term
               /\ Same(n)' /\ ~IsTerminating(pods'[n]) => now' + Grace[n] > rec'[n].deadline
    <3>1. rec'[n] = rec[n]
      BY <2>2 DEF RecEnds
    <3>2. rec[n].deadline # Never /\ rec[n].deadline >= node.term
          /\ (Same(n) /\ ~IsTerminating(pods[n]) => now + Grace[n] > rec[n].deadline)
      BY <1>1, <2>2, <3>1, SMTT(60) DEF Later
    <3>3. ASSUME Same(n)', ~IsTerminating(pods'[n]) PROVE Same(n) /\ ~IsTerminating(pods[n])
      <4>1. pods'[n].uid = pods[n].uid /\ rec[n].uid = pods[n].uid /\ pods'[n].phase \notin {"gone", "terminating"}
        BY <1>4, <2>2, <3>1, <3>3, SMTT(60) DEF Same, IsTerminating
      <4> QED BY <4>1, SMTT(60) DEF PodAges, Same, IsTerminating
    <3> QED BY <1>2, <3>1, <3>2, <3>3 DEF NodeAges
  <2> QED BY <2>1, <2>2, SMTT(60)
<1>6. Settles
  <2>1. ASSUME NEW m \in Names, pods'[m].uid = 1, IsActive(pods'[m]) PROVE pods[m].uid = 1 /\ IsActive(pods[m])
    <3>1. pods[m].uid = 1
      BY <1>2, <2>1, SMTT(60) DEF PodAges
    <3> QED BY <2>1, <3>1, SMTT(60) DEF PodAges
  <2> QED BY <2>1 DEF Settles, NodeAges
<1>7. ASSUME NEW n \in Names, Queued(n)' PROVE Queued(n)
  <2>1. CASE items'[n][pods'[n].uid].in
    <3>1. items[n][pods'[n].uid].in
      BY <1>2, <2>1, SMTT(60) DEF ItemsShrink
    <3>2. pods'[n].uid <= pods[n].uid
      BY <1>1, <1>2, <3>1 DEF Known
    <3>3. pods'[n].uid = pods[n].uid
      BY <1>2, <3>2, SMTT(60) DEF PodAges
    <3> QED BY <1>7, <3>1, <3>3, SMTT(60) DEF Queued, PodAges
  <2>2. CASE rec'[n].pc = "evict" /\ Same(n)'
    <3>1. rec'[n] = rec[n]
      BY <2>2, SMTT(60) DEF RecEnds
    <3>2. pods'[n].uid = pods[n].uid
      BY <1>4, <2>2, <3>1
    <3> QED BY <1>7, <2>2, <3>1, <3>2 DEF Queued, PodAges, Same, IsActive
  <2> QED BY <1>7, <2>1, <2>2, SMTT(60) DEF Queued
<1>8. Turns'
  BY <1>1, <1>6, <1>7, TurnsStay, SMTT(60) DEF NodeAges
<1> QED BY <1>3, <1>5, <1>8 DEF EvictionInv

-----------------------------------------------------------------------------
(* The steps of the queue *)

LEMMA QueueReadKeeps ==
    ASSUME EvictionInv, NEW n \in Names, QueueRead(n)
    PROVE  EvictionInv'
<1> DEFINE p == pods[n]
           i == items[n][p.uid]
           r(pc) == [pc |-> pc, uid |-> p.uid, deadline |-> i.deadline]
<1>1. TypeOK /\ Known /\ Later /\ Turns /\ UNCHANGED <<pods, node, items, now, env>> /\ wq' \subseteq wq
  BY SMTT(60) DEF EvictionInv, QueueRead
<1>2. p.uid \in Uids /\ i \in Items /\ i.deadline \in Deadlines /\ rec \in [Names -> Recs]
  BY <1>1, Typed, SMTT(60) DEF Items, TypeOK
<1>3. \/ UNCHANGED rec
      \/ \E pc \in {"complete", "delete", "evict"} :
            /\ rec' = [rec EXCEPT ![n] = r(pc)]
            /\ i.in
            /\ pc = "delete" => ~i.timeout /\ needsDeleteByDeadline(n, p, i.deadline)
            /\ pc = "evict" => IsActive(p)
  BY DEF QueueRead
<1>4. CASE UNCHANGED rec
  <2>1. TypeOK'
    BY <1>1, <1>4 DEF TypeOK
  <2>2. NodeAges /\ now' >= now
    BY <1>1, Typed DEF NodeAges
  <2>3. \A m \in Names : PodAges(m) /\ RecEnds(m) /\ ItemsShrink(m)
    <3>1. \A m \in Names : pods[m].uid \in Nat
      BY <1>1, Typed, EvictionAssumption DEF Uids
    <3> QED BY <1>1, <1>4, <3>1 DEF PodAges, RecEnds, ItemsShrink, Known
  <2> QED BY <2>1, <2>2, <2>3, Frame
<1>5. ASSUME NEW pc \in {"complete", "delete", "evict"}, rec' = [rec EXCEPT ![n] = r(pc)], i.in,
             pc = "delete" => ~i.timeout /\ needsDeleteByDeadline(n, p, i.deadline),
             pc = "evict" => IsActive(p)
      PROVE  EvictionInv'
  <2>1. r(pc) \in Recs /\ r(pc).pc = pc /\ r(pc).uid = p.uid /\ r(pc).deadline = i.deadline
    BY <1>2, SMTT(60) DEF Recs
  <2> HIDE DEF r
  <2>2. rec'[n] = r(pc) /\ \A m \in Names : m # n => rec'[m] = rec[m]
    BY <1>2, <1>5
  <2>3. TypeOK'
    BY <1>1, <1>2, <1>5, <2>1, SMTT(60) DEF TypeOK
  <2>4. Known'
    <3>1. p.uid <= p.uid
      BY <1>2, EvictionAssumption DEF Uids
    <3> QED BY <1>1, <2>1, <2>2, <3>1 DEF Known
  <2>5. Later'
    <3> SUFFICES ASSUME NEW m \in Names, rec'[m].pc = "delete"
                 PROVE  /\ rec'[m].deadline # Never /\ rec'[m].deadline >= node.term
                        /\ Same(m)' /\ ~IsTerminating(pods[m]) => now + Grace[m] > rec'[m].deadline
      BY <1>1, SMTT(60) DEF Later
    <3>1. CASE m # n
      BY <1>1, <2>2, <3>1, SMTT(60) DEF Later, Same
    <3>2. CASE m = n
      <4>1. i.deadline >= node.term /\ needsDeleteByDeadline(n, p, i.deadline)
        BY <1>1, <1>2, <1>5, <2>1, <2>2, <3>2 DEF Later
      <4> QED BY <2>1, <2>2, <3>2, <4>1, SMTT(60) DEF needsDeleteByDeadline
    <3> QED BY <3>1, <3>2
  <2>6. Turns'
    <3> SUFFICES ASSUME ~node.reboot, NEW m \in Names, Queued(m)'
                 PROVE  InTurn(m)
      BY <1>1 DEF Turns, InTurn, TooLate
    <3>1. Queued(m)
      <4>1. CASE m = n
        BY <1>1, <1>5, <4>1 DEF Queued
      <4>2. CASE m # n
        BY <1>1, <2>2, <4>2 DEF Queued, Same
      <4> QED BY <4>1, <4>2
    <3> QED BY <1>1, <3>1 DEF Turns
  <2> QED BY <2>3, <2>4, <2>5, <2>6 DEF EvictionInv
<1> QED BY <1>3, <1>4, <1>5, ZenonT(60)

(* The pod of a name goes on within its phases, and its reconcile too. *)
LEMMA PodFrame ==
    ASSUME EvictionInv, NEW n \in Names, NEW o \in PodObjs, pods' = [pods EXCEPT ![n] = o],
           o.uid = pods[n].uid, o.here = pods[n].here, IsActive(o) => IsActive(pods[n]),
           o.phase \notin {"gone", "terminating"} => pods[n].phase \notin {"gone", "terminating"},
           rec' \in [Names -> Recs], \A m \in Names : RecEnds(m),
           UNCHANGED <<node, items, now>>, wq' \subseteq Names, env' \in Environments
    PROVE  EvictionInv'
<1>1. TypeOK /\ Known
  BY DEF EvictionInv
<1>2. TypeOK'
  BY <1>1 DEF TypeOK
<1>3. NodeAges /\ now' >= now
  BY <1>1, Typed DEF NodeAges
<1>4. ASSUME NEW m \in Names PROVE PodAges(m) /\ ItemsShrink(m)
  <2>1. pods \in [Names -> PodObjs] /\ pods[m].uid \in Nat
    BY <1>1, Typed, EvictionAssumption DEF Uids
  <2> QED BY <1>1, <2>1 DEF PodAges, ItemsShrink, Known
<1> QED BY <1>2, <1>3, <1>4, Frame

LEMMA RecMoves ==
    ASSUME TypeOK, NEW n \in Names, Done(n) \/ (Goto(n, "complete") /\ rec[n].pc # "idle") \/ UNCHANGED rec
    PROVE  rec' \in [Names -> Recs] /\ \A m \in Names : RecEnds(m)
<1>1. rec \in [Names -> Recs] /\ rec[n] \in Recs /\ NoRec \in Recs /\ NoRec.pc = "idle"
  BY DeadlinesNat, EvictionAssumption DEF TypeOK, NoRec, Recs, Uids
<1>2. CASE Done(n)
  BY <1>1, <1>2 DEF Done, RecEnds
<1>3. CASE Goto(n, "complete") /\ rec[n].pc # "idle"
  <2> DEFINE q == [rec[n] EXCEPT !.pc = "complete"]
  <2>1. q \in Recs /\ q.pc = "complete" /\ q.uid = rec[n].uid
    BY <1>1 DEF Recs
  <2>2. rec' = [rec EXCEPT ![n] = q]
    BY <1>1, <1>3 DEF Goto
  <2> HIDE DEF q
  <2> QED BY <1>1, <1>3, <2>1, <2>2 DEF RecEnds
<1>4. CASE UNCHANGED rec
  BY <1>1, <1>4 DEF RecEnds
<1> QED BY <1>2, <1>3, <1>4

(* The pod stays as it is. *)
LEMMA SamePod ==
    ASSUME EvictionInv, NEW n \in Names, UNCHANGED <<pods, node, items, now>>,
           Done(n) \/ (Goto(n, "complete") /\ rec[n].pc # "idle"),
           wq' \subseteq Names, env' \in Environments
    PROVE  EvictionInv'
<1>1. TypeOK /\ pods[n] \in PodObjs /\ pods \in [Names -> PodObjs]
  BY Typed DEF EvictionInv
<1>2. pods' = [pods EXCEPT ![n] = pods[n]]
  BY <1>1
<1>3. rec' \in [Names -> Recs] /\ \A m \in Names : RecEnds(m)
  BY <1>1, RecMoves
<1> QED BY <1>1, <1>2, <1>3, PodFrame, Zenon

LEMMA QueueKeeps ==
    ASSUME EvictionInv, NEW n \in Names, QueueStep(n) \/ QueueFails(n)
    PROVE  EvictionInv'
<1>1. TypeOK /\ env \in Environments /\ wq \subseteq Names /\ pods \in [Names -> PodObjs] /\ pods[n] \in PodObjs
  BY Typed DEF EvictionInv, TypeOK
<1>2. ASSUME NEW ph, NEW d \in Nat, pods' = [pods EXCEPT ![n].phase = ph, ![n].dts = d],
             \/ pods[n].phase \notin {"gone", "terminating"} /\ ph \in {"terminating", "terminal"}
             \/ pods[n].phase = "terminating" /\ ph = "terminating"
             \/ ph = "gone",
             Goto(n, "complete"), rec[n].pc # "idle", UNCHANGED <<node, items, now, wq, env>>
      PROVE  EvictionInv'
  <2> DEFINE o == [pods[n] EXCEPT !.phase = ph, !.dts = d]
  <2>1. pods' = [pods EXCEPT ![n] = o]
    BY <1>1, <1>2, Zenon DEF PodObjs
  <2>2. /\ o \in PodObjs /\ o.uid = pods[n].uid /\ o.here = pods[n].here
        /\ IsActive(o) => IsActive(pods[n])
        /\ o.phase \notin {"gone", "terminating"} => pods[n].phase \notin {"gone", "terminating"}
    BY <1>1, <1>2, Zenon DEF PodObjs, IsActive
  <2> HIDE DEF o
  <2>3. rec' \in [Names -> Recs] /\ \A m \in Names : RecEnds(m)
    BY <1>1, <1>2, RecMoves
  <2> QED BY <1>1, <1>2, <2>1, <2>2, <2>3, PodFrame, ZenonT(60)
<1>3. CASE Evict(n)
  <2>1. rec[n].pc # "idle" /\ Goto(n, "complete") /\ UNCHANGED <<node, items, now, wq, env>>
    BY <1>3 DEF Evict
  <2>2. CASE UNCHANGED pods
    BY <1>1, <2>1, <2>2, SamePod
  <2>3. CASE IsActive(pods[n]) /\ pods' = [pods EXCEPT ![n].phase = "terminating", ![n].dts = now + Grace[n]]
    <3>1. now + Grace[n] \in Nat /\ pods[n].phase \notin {"gone", "terminating"}
      BY <1>1, <2>3, Typed DEF IsActive
    <3> QED BY <1>2, <2>1, <2>3, <3>1, Zenon
  <2> QED BY <1>3, <2>2, <2>3 DEF Evict
<1>4. CASE EvictBlocked(n)
  BY <1>1, <1>4, SamePod DEF EvictBlocked
<1>5. CASE deleteByDeadline(n)
  <2>1. rec[n].pc # "idle" /\ UNCHANGED <<node, items, now, env>>
    BY <1>5 DEF deleteByDeadline
  <2>2. CASE UNCHANGED pods /\ wq' \subseteq Names /\ (Done(n) \/ Goto(n, "complete"))
    BY <1>1, <2>1, <2>2, SamePod
  <2>3. CASE /\ Same(n) /\ Goto(n, "complete") /\ UNCHANGED wq
             /\ \/ pods[n].phase = "terminal" /\ pods' = [pods EXCEPT ![n].phase = "gone"]
                \/ pods[n].phase # "terminal" /\ pods' = [pods EXCEPT ![n].phase = "terminating", ![n].dts = DeletedBy(n)]
    <3>1. DeletedBy(n) \in Nat /\ pods[n].dts \in Nat
      BY <1>1, Typed DEF DeletedBy
    <3>2. CASE pods[n].phase = "terminal" /\ pods' = [pods EXCEPT ![n].phase = "gone"]
      <4>1. pods' = [pods EXCEPT ![n].phase = "gone", ![n].dts = pods[n].dts]
        BY <1>1, <3>2, Zenon DEF PodObjs
      <4> QED BY <1>2, <2>1, <2>3, <3>1, <4>1, Zenon
    <3>3. CASE pods[n].phase # "terminal" /\ pods' = [pods EXCEPT ![n].phase = "terminating", ![n].dts = DeletedBy(n)]
      <4>1. pods[n].phase # "gone"
        BY <2>3 DEF Same
      <4> QED BY <1>2, <2>1, <2>3, <3>1, <3>3, <4>1, Zenon
    <3> QED BY <2>3, <3>2, <3>3
  <2> QED BY <1>1, <1>5, <2>2, <2>3 DEF deleteByDeadline
<1>6. CASE QueueFails(n)
  <2>1. env' \in Environments
    BY <1>1, <1>6 DEF QueueFails, Environments
  <2> QED BY <1>1, <1>6, <2>1, SamePod DEF QueueFails
<1>7. CASE complete(n)
  <2>1. rec' \in [Names -> Recs] /\ \A m \in Names : RecEnds(m)
    BY <1>1, <1>7, RecMoves DEF complete
  <2>2. /\ items' = [items EXCEPT ![n][rec[n].uid] = NoItem] /\ UNCHANGED <<pods, node, wq, now, env>>
        /\ rec[n].uid \in Uids /\ items \in [Names -> [Uids -> Items]]
    BY <1>1, <1>7, Typed DEF complete, TypeOK
  <2>3. NoItem \in Items /\ ~NoItem.in
    BY DeadlinesNat DEF NoItem, Items
  <2>4. TypeOK'
    BY <1>1, <2>1, <2>2, <2>3 DEF TypeOK
  <2>5. \A m \in Names : ItemsShrink(m)
    BY <2>2, <2>3, SMTT(60) DEF ItemsShrink
  <2>6. \A m \in Names : PodAges(m)
    <3>1. \A m \in Names : pods[m].uid \in Nat
      BY <1>1, Typed, EvictionAssumption, SMTT(60) DEF Uids
    <3> QED BY <2>2, <3>1, SMTT(60) DEF PodAges, EvictionInv, Known
  <2>7. NodeAges /\ now' >= now
    BY <1>1, <2>2, Typed DEF NodeAges
  <2> QED BY <2>1, <2>4, <2>5, <2>6, <2>7, Frame
<1> QED BY <1>3, <1>4, <1>5, <1>6, <1>7, QueueReadKeeps DEF QueueStep

-----------------------------------------------------------------------------
(* Every step *)

LEMMA NodeKeeps ==
    ASSUME EvictionInv, UNCHANGED <<pods, items, wq, rec, env>>, node' \in Nodes, NodeAges,
           now' \in Times, now' >= now
    PROVE  EvictionInv'
<1>1. TypeOK /\ Known
  BY DEF EvictionInv
<1>2. TypeOK'
  BY <1>1 DEF TypeOK
<1>3. \A m \in Names : pods[m].uid \in Nat
  BY <1>1, Typed, EvictionAssumption, SMTT(60) DEF Uids
<1>4. \A m \in Names : PodAges(m) /\ RecEnds(m) /\ ItemsShrink(m)
  BY <1>1, <1>3 DEF PodAges, RecEnds, ItemsShrink, Known
<1> QED BY <1>2, <1>4, Frame

LEMMA PodsKeep ==
    ASSUME EvictionInv, NEW n \in Names, PodStep(n)
    PROVE  EvictionInv'
<1>1. TypeOK /\ env \in Environments /\ wq \subseteq Names /\ pods \in [Names -> PodObjs] /\ pods[n] \in PodObjs
  BY Typed DEF EvictionInv, TypeOK
<1>2. rec \in [Names -> Recs] /\ (UNCHANGED rec => \A m \in Names : RecEnds(m))
  BY <1>1 DEF TypeOK, RecEnds
<1>3. ASSUME NEW o \in PodObjs, SetPod(n, o), o.uid = pods[n].uid, o.here = pods[n].here, IsActive(o) => IsActive(pods[n]),
             o.phase \notin {"gone", "terminating"} => pods[n].phase \notin {"gone", "terminating"}
      PROVE  EvictionInv'
  BY <1>1, <1>2, <1>3, PodFrame, Zenon DEF SetPod
<1>4. CASE PodExits(n)
  <2> DEFINE o == [pods[n] EXCEPT !.phase = "gone"]
  <2>1. o \in PodObjs /\ o.uid = pods[n].uid /\ o.here = pods[n].here /\ o.phase = "gone"
    BY <1>1 DEF PodObjs
  <2>2. SetPod(n, o)
    BY <1>4 DEF PodExits
  <2> HIDE DEF o
  <2> QED BY <1>3, <2>1, <2>2 DEF IsActive
<1>5. CASE PodFinishes(n)
  <2> DEFINE o == [pods[n] EXCEPT !.phase = "terminal"]
  <2>1. o \in PodObjs /\ o.uid = pods[n].uid /\ o.here = pods[n].here /\ o.phase = "terminal"
    BY <1>1 DEF PodObjs
  <2>2. SetPod(n, o) /\ pods[n].phase = "running"
    BY <1>5 DEF PodFinishes
  <2> HIDE DEF o
  <2> QED BY <1>3, <2>1, <2>2 DEF IsActive
<1>6. CASE ClearDoNotDisrupt(n)
  <2> DEFINE o == [pods[n] EXCEPT !.dnd = FALSE]
  <2>1. o \in PodObjs /\ o.uid = pods[n].uid /\ o.here = pods[n].here /\ o.phase = pods[n].phase
    BY <1>1, Zenon DEF PodObjs
  <2>2. SetPod(n, o)
    BY <1>6 DEF ClearDoNotDisrupt
  <2> HIDE DEF o
  <2> QED BY <1>3, <2>1, <2>2 DEF IsActive
<1>7. CASE PodReplaced(n)
  <2>1. PICK h \in BOOLEAN : pods' = [pods EXCEPT ![n] = [uid |-> pods[n].uid + 1, phase |-> "running", dts |-> 0,
                                                         here |-> h, dnd |-> FALSE]]
    BY <1>7, Zenon DEF PodReplaced
  <2> DEFINE o == [uid |-> pods[n].uid + 1, phase |-> "running", dts |-> 0, here |-> h, dnd |-> FALSE]
  <2>2. pods[n].uid \in Nat /\ pods[n].uid >= 1 /\ pods[n].uid + 1 \in Uids
    BY <1>1, <1>7, Typed, EvictionAssumption DEF PodReplaced, Uids
  <2>3. o \in PodObjs /\ o.uid = pods[n].uid + 1
    BY <2>2 DEF PodObjs
  <2>4. pods' = [pods EXCEPT ![n] = o] /\ UNCHANGED <<node, items, wq, rec, now>>
    BY <1>7, <2>1, ZenonT(60) DEF PodReplaced
  <2> HIDE DEF o
  <2>5. env' \in Environments
    BY <1>1, <1>7 DEF PodReplaced, Environments
  <2>6. TypeOK'
    BY <1>1, <2>3, <2>4, <2>5 DEF TypeOK
  <2>7. ASSUME NEW m \in Names PROVE PodAges(m) /\ ItemsShrink(m)
    <3>1. pods[m].uid \in Nat
      BY <1>1, Typed, EvictionAssumption DEF Uids
    <3>2. CASE m = n
      BY <1>1, <2>2, <2>3, <2>4, <3>2 DEF PodAges, ItemsShrink
    <3>3. CASE m # n
      BY <1>1, <2>4, <3>1, <3>3, SMTT(60) DEF PodAges, ItemsShrink, EvictionInv, Known
    <3> QED BY <3>2, <3>3
  <2>8. NodeAges /\ now' >= now
    BY <1>1, <2>4, Typed, SMTT(60) DEF NodeAges
  <2> QED BY <1>2, <2>4, <2>6, <2>7, <2>8, Frame
<1> QED BY <1>4, <1>5, <1>6, <1>7, SMTT(60) DEF PodStep

LEMMA InitInv == Init => EvictionInv
<1> SUFFICES ASSUME Init PROVE EvictionInv
  OBVIOUS
<1>1. 1 \in Uids /\ 0 \in Times
  BY EvictionAssumption, SMTT(60) DEF Uids, Times
<1>2. TypeOK
  <2>1. pods \in [Names -> PodObjs]
    <3>1. \A b \in BOOLEAN : [uid |-> 1, phase |-> "running", dts |-> 0, here |-> TRUE, dnd |-> b] \in PodObjs
      BY <1>1, SMTT(60) DEF PodObjs
    <3> QED BY <3>1, SMTT(60) DEF Init
  <2>2. node \in Nodes /\ NoItem \in Items /\ NoRec \in Recs
    BY <1>1, DeadlinesNat, SMTT(60) DEF Init, Nodes, NoItem, Items, NoRec, Recs
  <2> QED BY <1>1, <2>1, <2>2, EvictionAssumption, SMTT(60) DEF Init, TypeOK
<1>3. \A n \in Names : pods[n].here /\ rec[n].pc = "idle" /\ \A u \in Uids : ~items[n][u].in
  BY DEF Init, NoRec, NoItem
<1>4. \A n \in Names : pods[n].uid \in Uids
  BY <1>2, Typed, SMTT(60)
<1> QED BY <1>2, <1>3, <1>4 DEF EvictionInv, Known, Later, Turns, Queued

LEMMA StepInv == EvictionInv /\ [Next]_vars => EvictionInv'
<1> SUFFICES ASSUME EvictionInv, [Next]_vars PROVE EvictionInv'
  OBVIOUS
<1>1. /\ TypeOK /\ node \in Nodes /\ node.term \in Deadlines /\ node.term \in Nat /\ node.rebootBy \in Deadlines
      /\ now \in Times /\ now \in Nat /\ env \in Environments
  BY DeadlinesNat, EvictionAssumption, Zenon DEF EvictionInv, TypeOK, Nodes, Times
<1>2. CASE UNCHANGED vars
  BY <1>1, <1>2, NodeKeeps DEF vars, NodeAges
<1>3. CASE TerminationDrain
  BY <1>1, <1>3, DrainKeeps, Zenon DEF TerminationDrain
<1>4. CASE RebootDrain
  BY <1>1, <1>4, DrainKeeps, Zenon DEF RebootDrain
<1>5. CASE DeleteNode \/ RemoveNode
  <2>1. node' \in Nodes /\ NodeAges
    <3>1. node' = [node EXCEPT !.deleting = TRUE] \/ node' = [node EXCEPT !.exists = FALSE]
      BY <1>5 DEF DeleteNode, RemoveNode
    <3>2. node' \in Nodes
      BY <1>1, <3>1, Zenon DEF Nodes
    <3>3. node'.term = node.term /\ node'.reboot = node.reboot
      BY <1>1, <3>1 DEF Nodes
    <3> QED BY <1>1, <3>2, <3>3 DEF NodeAges
  <2> QED BY <1>1, <1>5, <2>1, NodeKeeps DEF DeleteNode, RemoveNode
<1>6. CASE Tick
  <2>1. now' \in Times /\ now' >= now
    BY <1>1, <1>6, EvictionAssumption DEF Tick, Times, Environments
  <2> QED BY <1>1, <1>6, <2>1, NodeKeeps DEF Tick, NodeAges
<1>7. ASSUME NEW d \in env.bounds, TightenTerminationTime(d) PROVE EvictionInv'
  <2>1. d \in 0..MaxTime
    BY <1>1 DEF Environments
  <2>2. d \in Deadlines /\ d \in Nat
    BY <2>1, DeadlinesNat
  <2>3. node' \in Nodes /\ NodeAges
    BY <1>1, <1>7, <2>2 DEF TightenTerminationTime, Nodes, NodeAges
  <2> QED BY <1>1, <1>7, <2>3, NodeKeeps DEF TightenTerminationTime
<1>8. ASSUME NEW d \in env.bounds \cup {Never}, StartReboot(d) PROVE EvictionInv'
  <2>1. d \in Deadlines
    BY <1>1, DeadlinesNat DEF Environments
  <2>2. node' \in Nodes /\ NodeAges
    <3>1. node' = [node EXCEPT !.reboot = TRUE, !.rebootBy = d]
      BY <1>8 DEF StartReboot
    <3>2. node' \in Nodes
      BY <1>1, <2>1, <3>1, ZenonT(60) DEF Nodes
    <3>3. node'.term = node.term /\ node'.reboot
      BY <1>1, <3>1 DEF Nodes
    <3> QED BY <1>1, <3>2, <3>3 DEF NodeAges
  <2> QED BY <1>1, <1>8, <2>2, NodeKeeps DEF StartReboot
<1> QED BY <1>2, <1>3, <1>4, <1>5, <1>6, <1>7, <1>8, QueueKeeps, PodsKeep DEF Next

-----------------------------------------------------------------------------
(* Theorems *)

(* In every behaviour the entries and reconciles of the eviction queue are   *)
(* of pods that have existed, a deadline that may shorten a grace period is  *)
(* never before the termination time, and without a reboot what is queued    *)
(* gracefully is in turn (Terminator.Drain, Queue.add, Queue.Reconcile).     *)
THEOREM EvictionInvariant == Spec => []EvictionInv
<1>1. Init => EvictionInv
  BY InitInv
<1>2. EvictionInv /\ [Next]_vars => EvictionInv'
  BY StepInv, SMTT(60)
<1> QED BY <1>1, <1>2, PTL DEF Spec

LEMMA StepKeepsGrace == EvictionInv /\ [Next]_vars => KeepsGrace
<1> SUFFICES ASSUME EvictionInv, [Next]_vars, NEW n \in Names,
                    pods'[n].uid = pods[n].uid, pods'[n].phase = "terminating",
                    pods'[n].dts < IF IsTerminating(pods[n]) THEN pods[n].dts ELSE now + Grace[n]
             PROVE  /\ node.term # Never /\ pods'[n].dts > now
                    /\ (IF IsTerminating(pods[n]) THEN pods[n].dts ELSE now + Grace[n]) > node.term
  BY DEF KeepsGrace
<1>1. TypeOK /\ Later
  BY SMTT(60) DEF EvictionInv
<1>2. /\ pods \in [Names -> PodObjs] /\ pods[n].dts \in Nat /\ now \in Nat /\ Grace[n] \in Nat /\ pods[n].uid \in Nat
      /\ rec[n].deadline \in Nat /\ rec[n].deadline \in Deadlines /\ node.term \in Nat
  BY <1>1, Typed, EvictionAssumption, SMTT(60) DEF Uids
<1>3. pods' # pods
  BY <1>2 DEF IsTerminating
<1>4. PICK m \in Names : Evict(m) \/ deleteByDeadline(m) \/ PodStep(m)
  BY <1>3, Zenon DEF Next, vars, TerminationDrain, RebootDrain, Drain, DeleteNode, RemoveNode, Tick, TightenTerminationTime,
                     StartReboot, QueueStep, QueueRead, EvictBlocked, complete, QueueFails
<1>5. \A k \in Names : k # m => pods'[k] = pods[k]
  BY <1>2, <1>4 DEF Evict, deleteByDeadline, PodStep, PodExits, PodFinishes, ClearDoNotDisrupt, PodReplaced, SetPod
<1>6. m = n
  BY <1>2, <1>5, SMTT(60) DEF IsTerminating
<1>7. pods[n] \in PodObjs /\ pods'[n].phase = "terminating"
  BY <1>1, Typed
<1>8. ~Evict(n)
  BY <1>2, <1>7 DEF Evict, PodObjs, IsActive, IsTerminating
<1>9. ~PodStep(n)
  BY <1>2, <1>7, SMTT(60) DEF PodStep, PodExits, PodFinishes, ClearDoNotDisrupt, PodReplaced, SetPod, PodObjs, IsTerminating
<1>10. deleteByDeadline(n)
  BY <1>4, <1>6, <1>8, <1>9
<1>11. Same(n) /\ ~(IsTerminating(pods[n]) /\ pods[n].dts <= DeletedBy(n)) /\ pods'[n].dts = DeletedBy(n)
  BY <1>2, <1>7, <1>10 DEF deleteByDeadline, PodObjs, IsTerminating
<1>12. rec[n].deadline # Never /\ rec[n].deadline >= node.term /\ (~IsTerminating(pods[n]) => now + Grace[n] > rec[n].deadline)
  BY <1>1, <1>10, <1>11, SMTT(60) DEF Later, deleteByDeadline
<1>13. DeletedBy(n) \in Nat /\ DeletedBy(n) > now /\ DeletedBy(n) >= rec[n].deadline
  BY <1>2, SMTT(60) DEF DeletedBy
<1>14. node.term # Never
  BY <1>2, <1>12, DeadlinesNat, NeverNat, SMTT(60)
<1> QED BY <1>2, <1>11, <1>12, <1>13, <1>14, SMTT(60)

LEMMA StepFollowsTiers == EvictionInv /\ [Next]_vars => FollowsTiers
<1> SUFFICES ASSUME EvictionInv, [Next]_vars, NEW n \in Names, NEW k \in Names,
                    ~node.reboot, Tier[k] < Tier[n], pods[k].uid = 1,
                    IsActive(pods[n]), pods'[n].phase = "terminating", ~TooLate(n)
             PROVE  ~IsActive(pods[k]) \/ TooLate(k)
  BY DEF FollowsTiers
<1>1. TypeOK /\ Later /\ Turns
  BY SMTT(60) DEF EvictionInv
<1>2. /\ pods \in [Names -> PodObjs] /\ pods[n] \in PodObjs /\ now \in Nat /\ Grace[n] \in Nat
      /\ rec[n].deadline \in Nat /\ rec[n].deadline \in Deadlines /\ node.term \in Nat
  BY <1>1, Typed
<1>3. pods' # pods
  BY DEF IsActive
<1>4. PICK m \in Names : Evict(m) \/ deleteByDeadline(m) \/ PodStep(m)
  BY <1>3, Zenon DEF Next, vars, TerminationDrain, RebootDrain, Drain, DeleteNode, RemoveNode, Tick, TightenTerminationTime,
                     StartReboot, QueueStep, QueueRead, EvictBlocked, complete, QueueFails
<1>5. \A j \in Names : j # m => pods'[j] = pods[j]
  BY <1>2, <1>4 DEF Evict, deleteByDeadline, PodStep, PodExits, PodFinishes, ClearDoNotDisrupt, PodReplaced, SetPod
<1>6. m = n
  BY <1>5 DEF IsActive
<1>7. ~PodStep(n)
  BY <1>2 DEF PodStep, PodExits, PodFinishes, ClearDoNotDisrupt, PodReplaced, SetPod, PodObjs, IsActive
<1>8. (Evict(n) \/ deleteByDeadline(n)) /\ Same(n)
  <2>1. Evict(n) \/ deleteByDeadline(n)
    BY <1>4, <1>6, <1>7, SMTT(60)
  <2> QED BY <1>2, <2>1 DEF Evict, deleteByDeadline, IsActive
<1>9. CASE deleteByDeadline(n)
  <2>1. /\ rec[n].deadline # Never /\ rec[n].deadline >= node.term
        /\ ~IsTerminating(pods[n]) => now + Grace[n] > rec[n].deadline
    BY <1>1, <1>8, <1>9 DEF Later, deleteByDeadline
  <2>2. ~IsTerminating(pods[n])
    BY DEF IsTerminating, IsActive
  <2>3. node.term # Never
    BY <1>2, <2>1, DeadlinesNat, NeverNat, SMTT(60)
  <2>4. TooLate(n)
    BY <1>2, <2>1, <2>2, <2>3 DEF TooLate
  <2> QED BY <2>4
<1>10. CASE Evict(n)
  <2>1. Queued(n)
    BY <1>8, <1>10 DEF Queued, Evict
  <2> QED BY <1>1, <2>1 DEF Turns, InTurn
<1> QED BY <1>8, <1>9, <1>10

(* No pod is removed with less than its own grace period unless that would   *)
(* outlive the termination time of the claim, none is removed without grace, *)
(* and tiers are evicted in their order (eviction.go, terminator.go).        *)
THEOREM PodsEvictedInTurn == Spec => EvictedInTurn
<1>1. EvictionInv /\ [Next]_vars => [KeepsGrace /\ FollowsTiers]_vars
  BY StepKeepsGrace, StepFollowsTiers
<1> QED BY <1>1, EvictionInvariant, PTL DEF Spec, EvictedInTurn
=============================================================================
