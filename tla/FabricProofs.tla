----------------------------- MODULE FabricProofs -----------------------------
(* Proofs about the components of fabric.py: where a federation's workers are, *)
(* what a superstep delivers, who owns a quantum payload and which tasks are   *)
(* finished for good, what the event log, its seal and the logical clocks      *)
(* tell, what a worker's steal may miss, which thunks and timers run, and what *)
(* a dataflow run leaves and never copies, and what the deadlock detector      *)
(* finds. Each part has its inductive invariant, a lemma for every action that *)
(* can disturb it, and the theorem that the runs check on a small instance.    *)
EXTENDS Supersteps, TaskRuntime, EventLog, AsyncEngine, TimerWheel, WorkerPool,
        Dataflow, Adaptation, DeadlockDetector, FiniteSetTheorems, SequenceTheorems, TLAPS

-----------------------------------------------------------------------------
(* The federation.                                                           *)

FederationSpec == FederationInit /\ [][FederationNext]_federationVars

PlacesTyped ==
    /\ groupMembers \in [Groups -> SUBSET Workers] /\ groups \in [Domains -> SUBSET Groups]
    /\ domains \in SUBSET Domains
    /\ workerAt \in [Workers -> Domains \X Groups] /\ groupAt \in [Groups -> Domains]
    /\ workerFed \in [Workers -> {DefaultFed, FederationId}]
    /\ groupFed \in [Groups -> {DefaultFed, FederationId}]
    /\ changes \in Nat

\* An object is in one place at most.
OnePlace ==
    /\ \A g, h \in Groups : \A w \in Workers : w \in groupMembers[g] /\ w \in groupMembers[h] => g = h
    /\ \A d, e \in Domains : \A g \in Groups : g \in groups[d] /\ g \in groups[e] => d = e

\* An object carries the names that the object it is in carries, whether or not that one
\* is in a federation already.
HandedOn ==
    /\ \A g \in Groups : \A w \in groupMembers[g] :
          workerAt[w] = <<groupAt[g], g>> /\ workerFed[w] = groupFed[g]
    /\ \A d \in Domains : \A g \in groups[d] : groupAt[g] = d /\ groupFed[g] = DomainFed(d)

FlatIsWhole == changes = 0 => \E s \in Shapes : WorkerIds = 1 .. s[1]

FederationInv == PlacesTyped /\ OnePlace /\ HandedOn /\ FlatIsWhole

\* The whole part of a number of half-open shares of a size.
LEMMA Shares ==
    ASSUME NEW i \in Nat, NEW size \in Nat \ {0}
    PROVE  /\ i \div size = 0 <=> i < size
           /\ i \div size = 1 <=> size <= i /\ i < 2 * size
  OBVIOUS

\* Domain d of doms receives the ids of one interval, and the intervals fill 1 .. n.
LEMMA DomainShares ==
    ASSUME NEW n \in Nat \ {0}, NEW doms \in 1 .. 2
    PROVE  /\ Ceiling(n, doms) \in Nat \ {0} /\ n <= 2 * Ceiling(n, doms)
           /\ doms = 1 => Ceiling(n, doms) = n
           /\ DomainShare(n, doms, 0) = {i \in 1 .. n : i <= Ceiling(n, doms)}
           /\ DomainShare(n, doms, 1) = {i \in 1 .. n : i > Ceiling(n, doms) /\ i <= 2 * Ceiling(n, doms)}
<1> DEFINE each == Ceiling(n, doms)
<1>1. each \in Nat \ {0} /\ (doms = 1 => each = n) /\ n <= 2 * each
  <2>1. CASE doms = 1
    BY <2>1 DEF Ceiling
  <2>2. CASE doms = 2
    BY <2>2 DEF Ceiling
  <2> QED
    BY <2>1, <2>2
<1> HIDE DEF each
<1>2. \A i \in 1 .. n : /\ (i - 1) \div each = 0 <=> i <= each
                       /\ (i - 1) \div each = 1 <=> i > each /\ i <= 2 * each
  <2> TAKE i \in 1 .. n
  <2>1. i - 1 \in Nat
    OBVIOUS
  <2> QED
    BY <1>1, <2>1, Shares
<1>3. DomainShare(n, doms, 0) = {i \in 1 .. n : i <= each}
  <2>1. DomainShare(n, doms, 0) = {i \in 1 .. n : (i - 1) \div each = 0}
    BY DEF DomainShare, each
  <2> QED
    BY <1>1, <1>2, <2>1
<1>4. DomainShare(n, doms, 1) = {i \in 1 .. n : i > each /\ i <= 2 * each}
  <2>1. DomainShare(n, doms, 1) = {i \in 1 .. n : (i - 1) \div each = 1}
    BY DEF DomainShare, each
  <2> QED
    BY <1>1, <1>2, <2>1
<1> QED
  BY <1>1, <1>3, <1>4 DEF each

\* Every id that a domain receives goes to one of its groups, and to one only.
LEMMA GroupShares ==
    ASSUME NEW n \in Nat \ {0}, NEW grps \in 1 .. 2, NEW doms \in 1 .. 2, NEW d \in Domains
    PROVE  /\ GroupShare(n, grps, doms, d, 0) \cap GroupShare(n, grps, doms, d, 1) = {}
           /\ GroupShare(n, grps, doms, d, 0) \subseteq DomainShare(n, doms, d)
           /\ GroupShare(n, grps, doms, d, 1) \subseteq DomainShare(n, doms, d)
           /\ DomainShare(n, doms, d) \subseteq
                  GroupShare(n, grps, doms, d, 0)
                  \union (IF grps = 1 THEN {} ELSE GroupShare(n, grps, doms, d, 1))
<1> DEFINE here == DomainShare(n, doms, d)
           each == PerGroup(Cardinality(here), grps)
<1>1. \E a \in Nat \ {0} : \E b \in Nat : here = a .. b /\ b <= n
  <2>1. CASE d = 0
    <3>1. PICK c \in Nat \ {0} : here = {i \in 1 .. n : i <= c}
      <4>1. /\ Ceiling(n, doms) \in Nat \ {0}
            /\ DomainShare(n, doms, 0) = {i \in 1 .. n : i <= Ceiling(n, doms)}
        BY DomainShares
      <4> QED
        BY <4>1, <2>1
    <3>2. here = 1 .. (IF n <= c THEN n ELSE c)
      <4> HIDE DEF here
      <4> QED
        BY <3>1
    <3> QED
      BY <3>2
  <2>2. CASE d = 1
    <3>1. PICK c \in Nat \ {0} : here = {i \in 1 .. n : i > c /\ i <= 2 * c} /\ n <= 2 * c
      BY <2>2, DomainShares
    <3>2. here = (c + 1) .. n
      <4> HIDE DEF here
      <4> QED
        BY <3>1
    <3> QED
      BY <3>2
  <2> QED
    BY <2>1, <2>2 DEF Domains
<1>2. CASE here = {}
  BY <1>2 DEF GroupShare
<1>3. CASE here # {}
  <2>1. PICK a \in Nat \ {0}, b \in Nat : here = a .. b /\ b <= n
    BY <1>1
  <2>2. a <= b /\ a \in here /\ \A x \in here : a <= x
    BY <1>3, <2>1
  <2>3. Lowest(here) = a
    <3>1. \A x \in here : (\A y \in here : x <= y) => x = a
      BY <2>1, <2>2
    <3> HIDE DEF here
    <3> QED
      BY <2>2, <3>1 DEF Lowest
  <2>4. Cardinality(here) = b - a + 1
    BY <2>1, <2>2, FS_Interval
  <2>5. each \in Nat \ {0} /\ grps * each >= b - a + 1
    <3>1. CASE grps = 1
      BY <2>1, <2>2, <2>4, <3>1 DEF PerGroup, Ceiling
    <3>2. CASE grps = 2
      BY <2>1, <2>2, <2>4, <3>2 DEF PerGroup, Ceiling
    <3> QED
      BY <3>1, <3>2
  <2>6. /\ GroupShare(n, grps, doms, d, 0) = {i \in here : i - a >= 0 * each /\ i - a < 1 * each}
        /\ GroupShare(n, grps, doms, d, 1) = {i \in here : i - a >= 1 * each /\ i - a < 2 * each}
    BY <1>3, <2>3 DEF GroupShare
  <2> HIDE DEF each
  <2> QED
    BY <2>1, <2>2, <2>5, <2>6
<1> QED
  BY <1>2, <1>3

\* build_flat_federation puts every worker in one group, and tells it where.
LEMMA FlatIsSound ==
    ASSUME NEW n \in 1 .. NumWorkers, NEW grps \in 1 .. 2, NEW doms \in 1 .. 2,
           Flat(n, grps, doms), changes = 0, NumWorkers \in Nat
    PROVE  PlacesTyped /\ OnePlace /\ HandedOn /\ WorkerIds = 1 .. n
<1> USE DEF Groups, Domains
<1>1. /\ n \in Nat \ {0} /\ 1 .. n \subseteq Workers
      /\ \A d \in Domains : DomainShare(n, doms, d) \subseteq 1 .. n
  BY DEF Workers, DomainShare
<1>2. \A d \in Domains, k \in 0 .. 1 : GroupShare(n, grps, doms, d, k) \subseteq DomainShare(n, doms, d)
  BY <1>1, GroupShares
<1>3. /\ domains \subseteq Domains
      /\ \A d \in Domains : groups[d] \subseteq {g \in Groups : g[1] = d}
      /\ groups \in [Domains -> SUBSET Groups]
  BY DEF Flat
<1>4. \A g \in Groups : g = <<g[1], g[2]>> /\ g[1] \in 0 .. 1 /\ g[2] \in 0 .. 1
  OBVIOUS
<1>5. \A g \in Groups : groupMembers[g] = IF g \in groups[g[1]] THEN GroupShare(n, grps, doms, g[1], g[2]) ELSE {}
  BY DEF Flat
<1>6. groupMembers \in [Groups -> SUBSET Workers]
  <2>1. \A g \in Groups : groupMembers[g] \subseteq Workers
    BY <1>1, <1>2, <1>4, <1>5
  <2> QED
    BY <2>1 DEF Flat
<1>7. \A g, h \in Groups : \A w \in Workers : w \in groupMembers[g] /\ w \in groupMembers[h] => g = h
  <2> SUFFICES ASSUME NEW g \in Groups, NEW h \in Groups, NEW w \in Workers,
                      w \in groupMembers[g], w \in groupMembers[h]
               PROVE  g = h
    OBVIOUS
  <2>1. /\ w \in GroupShare(n, grps, doms, g[1], g[2]) /\ w \in GroupShare(n, grps, doms, h[1], h[2])
        /\ w \in DomainShare(n, doms, g[1]) /\ w \in DomainShare(n, doms, h[1])
    BY <1>2, <1>4, <1>5
  <2>2. g[1] = h[1]
    BY <2>1, <1>4 DEF DomainShare
  <2>3. g[2] = h[2]
    BY <2>1, <2>2, <1>1, <1>4, GroupShares
  <2> QED
    BY <2>2, <2>3, <1>4
<1>8. \A d, e \in Domains : \A g \in Groups : g \in groups[d] /\ g \in groups[e] => d = e
  BY <1>3
<1>9. \A g \in Groups : \A w \in groupMembers[g] : g \in groups[g[1]] /\ workerAt[w] = <<g[1], g>> /\ workerFed[w] = FederationId
  <2> SUFFICES ASSUME NEW g \in Groups, NEW w \in groupMembers[g]
               PROVE  g \in groups[g[1]] /\ workerAt[w] = <<g[1], g>> /\ workerFed[w] = FederationId
    OBVIOUS
  <2>1. w \in Workers /\ (CHOOSE h \in Groups : w \in groupMembers[h]) = g
    BY <1>6, <1>7
  <2> QED
    BY <2>1, <1>5 DEF Flat
<1>10. \A g \in Groups : g \in groups[g[1]] => groupAt[g] = g[1] /\ groupFed[g] = FederationId /\ g[1] \in domains
  BY <1>4 DEF Flat
<1>11. HandedOn
  BY <1>3, <1>9, <1>10 DEF HandedOn, DomainFed
<1>12. PlacesTyped
  <2>1. workerAt \in [Workers -> Domains \X Groups] /\ workerFed \in [Workers -> {DefaultFed, FederationId}]
    <3>1. \A w \in Workers : workerAt[w] \in Domains \X Groups /\ workerFed[w] \in {DefaultFed, FederationId}
      <4> TAKE w \in Workers
      <4>1. CASE \E g \in Groups : w \in groupMembers[g]
        BY <4>1, <1>4, <1>9
      <4>2. CASE ~ \E g \in Groups : w \in groupMembers[g]
        BY <4>2 DEF Flat, DefaultDomain, DefaultGroup
      <4> QED
        BY <4>1, <4>2
    <3> QED
      BY <3>1 DEF Flat
  <2>2. groupAt \in [Groups -> Domains] /\ groupFed \in [Groups -> {DefaultFed, FederationId}]
    BY <1>4 DEF Flat, DefaultDomain
  <2> QED
    BY <2>1, <2>2, <1>3, <1>6 DEF PlacesTyped
<1>13. WorkerIds = 1 .. n
  <2>1. WorkerIds \subseteq 1 .. n
    BY <1>1, <1>2, <1>3, <1>4, <1>5 DEF WorkerIds, WorkersIn
  <2>2. ASSUME NEW w \in 1 .. n
        PROVE  w \in WorkerIds
    <3>1. PICK d \in Domains : d < doms /\ w \in DomainShare(n, doms, d)
      <4> DEFINE c == Ceiling(n, doms)
      <4>1. /\ c \in Nat \ {0} /\ n <= 2 * c /\ (doms = 1 => c = n)
            /\ DomainShare(n, doms, 0) = {i \in 1 .. n : i <= c}
            /\ DomainShare(n, doms, 1) = {i \in 1 .. n : i > c /\ i <= 2 * c}
        BY <1>1, DomainShares
      <4> HIDE DEF c
      <4>2. CASE w <= c
        <5>1. w \in DomainShare(n, doms, 0)
          BY <4>1, <4>2
        <5> QED
          BY <5>1
      <4>3. CASE w > c
        <5>1. doms = 2 /\ w \in DomainShare(n, doms, 1)
          BY <4>1, <4>3
        <5> QED
          BY <5>1
      <4> QED
        BY <4>1, <4>2, <4>3
    <3>2. PICK k \in 0 .. 1 : k < grps /\ w \in GroupShare(n, grps, doms, d, k)
      BY <3>1, <1>1, GroupShares
    <3>3. d \in domains /\ <<d, k>> \in groups[d]
      BY <3>1, <3>2 DEF Flat
    <3>4. w \in groupMembers[<<d, k>>]
      BY <3>2, <3>3, <1>3, <1>5
    <3> QED
      BY <3>3, <3>4 DEF WorkerIds, WorkersIn
  <2> QED
    BY <2>1, <2>2
<1> QED
  BY <1>7, <1>8, <1>11, <1>12, <1>13 DEF OnePlace

\* WorkerGroup.add: the new member is told the names its group carries.
LEMMA AddWorkerKeeps ==
    ASSUME FederationInv, NEW g \in Groups, NEW w \in Workers, AddWorker(g, w)
    PROVE  FederationInv'
<1> USE DEF FederationInv, PlacesTyped, AddWorker, Changed
<1>1. PlacesTyped'
  OBVIOUS
<1>2. OnePlace'
  BY DEF OnePlace
<1>3. HandedOn'
  <2>1. \A h \in Groups : \A v \in groupMembers'[h] :
           workerAt'[v] = <<groupAt[h], h>> /\ workerFed'[v] = groupFed[h]
    <3> TAKE h \in Groups
    <3> TAKE v \in groupMembers'[h]
    <3>1. CASE v = w
      BY <3>1
    <3>2. CASE v # w
      BY <3>2 DEF HandedOn
    <3> QED
      BY <3>1, <3>2
  <2> QED
    BY <2>1 DEF HandedOn, DomainFed
<1>4. FlatIsWhole'
  BY DEF FlatIsWhole
<1> QED
  BY <1>1, <1>2, <1>3, <1>4

\* WorkerGroup.remove
LEMMA RemoveWorkerKeeps ==
    ASSUME FederationInv, NEW g \in Groups, NEW w \in Workers, RemoveWorker(g, w)
    PROVE  FederationInv'
<1> USE DEF FederationInv, PlacesTyped, RemoveWorker, Changed
<1>1. PlacesTyped'
  OBVIOUS
<1>2. \A h \in Groups : groupMembers'[h] \subseteq groupMembers[h]
  OBVIOUS
<1>3. OnePlace'
  BY <1>2 DEF OnePlace
<1>4. HandedOn'
  BY <1>2 DEF HandedOn, DomainFed
<1>5. FlatIsWhole'
  BY DEF FlatIsWhole
<1> QED
  BY <1>1, <1>3, <1>4, <1>5

\* ExecutionDomain.add tells the group, and the members that the group has by then.
LEMMA AddGroupKeeps ==
    ASSUME FederationInv, NEW d \in Domains, NEW g \in Groups, AddGroup(d, g)
    PROVE  FederationInv'
<1> USE DEF FederationInv, PlacesTyped, AddGroup, Changed
<1>1. \A w \in Workers : HandedDown(w, d) \in Domains \X Groups
  BY DEF HandedDown
<1>2. DomainFed(d) \in {DefaultFed, FederationId}
  BY DEF DomainFed
<1>3. PlacesTyped'
  <2>1. \A w \in Workers :
           /\ workerAt'[w] \in Domains \X Groups
           /\ workerFed'[w] \in {DefaultFed, FederationId}
    BY <1>1, <1>2
  <2>2. workerAt' \in [Workers -> Domains \X Groups] /\ workerFed' \in [Workers -> {DefaultFed, FederationId}]
    BY <2>1
  <2> QED
    BY <1>2, <2>2
<1>4. OnePlace'
  BY DEF OnePlace
<1>5. HandedOn'
  <2>1. \A h \in Groups : \A v \in groupMembers'[h] :
           workerAt'[v] = <<groupAt'[h], h>> /\ workerFed'[v] = groupFed'[h]
    <3> TAKE h \in Groups
    <3> TAKE v \in groupMembers'[h]
    <3>1. workerAt[v] = <<groupAt[h], h>> /\ workerFed[v] = groupFed[h] /\ v \in Workers
      BY DEF HandedOn
    <3>2. CASE h = g
      BY <3>1, <3>2 DEF HandedDown
    <3>3. CASE h # g
      BY <3>1, <3>3 DEF OnePlace
    <3> QED
      BY <3>2, <3>3
  <2>2. \A e \in Domains : \A h \in groups'[e] : groupAt'[h] = e /\ groupFed'[h] = DomainFed(e)'
    BY DEF HandedOn, DomainFed
  <2> QED
    BY <2>1, <2>2 DEF HandedOn
<1>6. FlatIsWhole'
  BY DEF FlatIsWhole
<1> QED
  BY <1>3, <1>4, <1>5, <1>6

\* Federation.add tells the groups of the domain and their members.
LEMMA AddDomainKeeps ==
    ASSUME FederationInv, NEW d \in Domains, AddDomain(d)
    PROVE  FederationInv'
<1> USE DEF FederationInv, PlacesTyped, AddDomain, Changed
<1>1. PlacesTyped'
  <2>1. workerFed' \in [Workers -> {DefaultFed, FederationId}] /\ groupFed' \in [Groups -> {DefaultFed, FederationId}]
    OBVIOUS
  <2> QED
    BY <2>1
<1>2. OnePlace'
  BY DEF OnePlace
<1>3. HandedOn'
  <2>1. \A h \in Groups : \A v \in groupMembers'[h] :
           workerAt'[v] = <<groupAt'[h], h>> /\ workerFed'[v] = groupFed'[h]
    <3> TAKE h \in Groups
    <3> TAKE v \in groupMembers'[h]
    <3>1. workerAt[v] = <<groupAt[h], h>> /\ workerFed[v] = groupFed[h] /\ v \in Workers
      BY DEF HandedOn
    <3>2. v \in WorkersIn(d) <=> h \in groups[d]
      BY <3>1 DEF WorkersIn, OnePlace
    <3> QED
      BY <3>1, <3>2
  <2>2. \A e \in Domains : \A h \in groups'[e] : groupAt'[h] = e /\ groupFed'[h] = DomainFed(e)'
    <3> TAKE e \in Domains
    <3> TAKE h \in groups'[e]
    <3>1. groupAt[h] = e /\ groupFed[h] = DomainFed(e) /\ h \in Groups
      BY DEF HandedOn
    <3>2. h \in groups[d] <=> e = d
      BY <3>1 DEF OnePlace
    <3> QED
      BY <3>1, <3>2 DEF DomainFed
  <2> QED
    BY <2>1, <2>2 DEF HandedOn
<1>4. FlatIsWhole'
  BY DEF FlatIsWhole
<1> QED
  BY <1>1, <1>2, <1>3, <1>4

LEMMA FlatInitially == FederationInit => FederationInv
<1> SUFFICES ASSUME changes = 0, NEW s \in Shapes, Flat(s[1], s[2], s[3])
             PROVE  FederationInv
  BY DEF FederationInit
<1>1. s[1] \in 1 .. NumWorkers /\ s[2] \in 1 .. 2 /\ s[3] \in 1 .. 2 /\ NumWorkers \in Nat
  BY FederationAssumption
<1>2. PlacesTyped /\ OnePlace /\ HandedOn /\ WorkerIds = 1 .. s[1]
  BY <1>1, FlatIsSound
<1> QED
  BY <1>2 DEF FederationInv, FlatIsWhole

LEMMA FederationStep == FederationInv /\ [FederationNext]_federationVars => FederationInv'
<1> SUFFICES ASSUME FederationInv, [FederationNext]_federationVars
             PROVE  FederationInv'
  OBVIOUS
<1>1. ASSUME NEW g \in Groups, NEW w \in Workers, AddWorker(g, w)
      PROVE  FederationInv'
  BY <1>1, AddWorkerKeeps
<1>2. ASSUME NEW g \in Groups, NEW w \in Workers, RemoveWorker(g, w)
      PROVE  FederationInv'
  BY <1>2, RemoveWorkerKeeps
<1>3. ASSUME NEW d \in Domains, AddDomain(d)
      PROVE  FederationInv'
  BY <1>3, AddDomainKeeps
<1>4. ASSUME NEW d \in Domains, NEW g \in Groups, AddGroup(d, g)
      PROVE  FederationInv'
  BY <1>4, AddGroupKeeps
<1>5. CASE UNCHANGED federationVars
  BY <1>5 DEF federationVars, FederationInv, PlacesTyped, OnePlace, HandedOn, FlatIsWhole,
              DomainFed, WorkerIds, WorkersIn
<1> QED
  BY <1>1, <1>2, <1>3, <1>4, <1>5 DEF FederationNext

\* However a federation is put together, what holds an object and what the object says of
\* itself agree (WorkerGroup.add and remove, ExecutionDomain.add, Federation.add,
\* build_flat_federation).
THEOREM FederationIsSound == FederationSpec => []FederationInv
  BY FlatInitially, FederationStep, PTL DEF FederationSpec

\* A worker that can be found is found where it is, and every worker of a flat federation
\* can be found (Federation.locate, group_of, build_flat_federation).
THEOREM WorkersAreLocated == FederationSpec => []LocatedWhereHeld
<1>1. FederationInv => LocatedWhereHeld
  <2> SUFFICES ASSUME FederationInv, NEW d \in domains, NEW g \in groups[d], NEW w \in groupMembers[g]
               PROVE  workerAt[w] = <<d, g>> /\ workerFed[w] = FederationId /\ groupFed[g] = FederationId
    BY DEF LocatedWhereHeld, FederationInv, FlatIsWhole
  <2>1. d \in Domains /\ g \in Groups
    BY DEF FederationInv, PlacesTyped
  <2> QED
    BY <2>1 DEF FederationInv, HandedOn, DomainFed
<1> QED
  BY <1>1, FederationIsSound, PTL

-----------------------------------------------------------------------------
(* The least of a set of naturals: what takes the first of something.        *)

Ordered == {p \in Nat \X Nat : p[1] < p[2]}

LEMMA LeastExists ==
    ASSUME NEW S \in SUBSET Nat, S # {}
    PROVE  \E x \in S : \A y \in S : x <= y
<1>1. IsWellFoundedOn(Ordered, Nat)
  BY NatLessThanWellFounded DEF OpToRel, Ordered
<1>2. PICK x \in S : \A y \in S : <<y, x>> \notin Ordered
  BY <1>1, WFMin
<1>3. ASSUME NEW y \in S
      PROVE  x <= y
  <2>1. <<y, x>> \in Nat \X Nat /\ <<y, x>>[1] = y /\ <<y, x>>[2] = x
    OBVIOUS
  <2>2. ~(y < x)
    BY <1>2, <2>1 DEF Ordered
  <2> QED
    BY <2>2
<1> QED
  BY <1>3

-----------------------------------------------------------------------------
(* Supersteps over a federation.                                             *)

BspSpec == BspInit /\ [][BspNext]_<<federationVars, bspVars>>

BspTyped ==
    /\ DOMAIN inboxes \subseteq Workers /\ inboxes \in [DOMAIN inboxes -> Seq(Nat)]
    /\ attempt \in Nat /\ todo \subseteq DOMAIN inboxes /\ plan \in Seq(Workers \union {Refused})
    /\ sent \in [Workers -> Seq(Nat)] /\ taken \in [Workers -> Seq(Nat \X Nat)]

\* What waits was sent before the functions are called that could take it.
MessagesWait ==
    \A w \in DOMAIN inboxes : \A i \in DOMAIN inboxes[w] :
       inboxes[w][i] <= attempt /\ (stage = "compute" => inboxes[w][i] < attempt)

\* There is always something to synchronise.
SomeGroup == \E d \in domains : groups[d] # {}

BspInv == FederationInv /\ SomeGroup /\ BspTyped /\ MessagesWait /\ Delivered

Firsts(s) == [i \in DOMAIN s |-> s[i][1]]
TakenIn(t, a) == [i \in DOMAIN t |-> <<t[i], a>>]

LEMMA FirstsTyped ==
    ASSUME NEW s \in Seq(Nat \X Nat)
    PROVE  Firsts(s) \in Seq(Nat) /\ Len(Firsts(s)) = Len(s) /\ \A i \in 1 .. Len(s) : Firsts(s)[i] = s[i][1]
<1>1. DOMAIN s = 1 .. Len(s) /\ Len(s) \in Nat /\ \A i \in 1 .. Len(s) : s[i] \in Nat \X Nat
  OBVIOUS
<1>2. Firsts(s) \in [1 .. Len(s) -> Nat]
  BY <1>1 DEF Firsts
<1> QED
  BY <1>1, <1>2, IsASeq DEF Firsts

LEMMA TakenInIs ==
    ASSUME NEW t \in Seq(Nat), NEW a \in Nat
    PROVE  /\ TakenIn(t, a) \in Seq(Nat \X Nat) /\ Len(TakenIn(t, a)) = Len(t)
           /\ \A i \in 1 .. Len(t) : TakenIn(t, a)[i] = <<t[i], a>> /\ t[i] \in Nat
<1>1. DOMAIN t = 1 .. Len(t) /\ Len(t) \in Nat /\ \A i \in 1 .. Len(t) : t[i] \in Nat
  OBVIOUS
<1>2. TakenIn(t, a) \in [1 .. Len(t) -> Nat \X Nat]
  BY <1>1 DEF TakenIn
<1> QED
  BY <1>1, <1>2, IsASeq DEF TakenIn

\* A function that returns was given all that waited, and nothing is left out of order.
LEMMA TakenInOrder ==
    ASSUME NEW s \in Seq(Nat \X Nat), NEW t \in Seq(Nat), NEW a \in Nat,
           \A i \in DOMAIN s : s[i][1] < s[i][2], \A i \in DOMAIN t : t[i] < a
    PROVE  /\ s \o TakenIn(t, a) \in Seq(Nat \X Nat)
           /\ Firsts(s \o TakenIn(t, a)) \o << >> = Firsts(s) \o t
           /\ \A i \in DOMAIN (s \o TakenIn(t, a)) : (s \o TakenIn(t, a))[i][1] < (s \o TakenIn(t, a))[i][2]
<1> DEFINE all == s \o TakenIn(t, a)
<1>1. /\ all \in Seq(Nat \X Nat) /\ Len(all) = Len(s) + Len(t)
      /\ \A i \in 1 .. Len(s) + Len(t) : all[i] = IF i <= Len(s) THEN s[i] ELSE TakenIn(t, a)[i - Len(s)]
  <2>1. TakenIn(t, a) \in Seq(Nat \X Nat) /\ Len(TakenIn(t, a)) = Len(t)
    BY TakenInIs
  <2>2. PICK u \in Seq(Nat \X Nat) : u = TakenIn(t, a)
    BY <2>1
  <2>3. /\ s \o u \in Seq(Nat \X Nat) /\ Len(s \o u) = Len(s) + Len(u)
        /\ \A i \in 1 .. Len(s) + Len(u) : (s \o u)[i] = IF i <= Len(s) THEN s[i] ELSE u[i - Len(s)]
    BY ConcatProperties
  <2> QED
    BY <2>1, <2>2, <2>3
<1> HIDE DEF all
<1>2. Len(s) \in Nat /\ Len(t) \in Nat /\ DOMAIN s = 1 .. Len(s) /\ DOMAIN t = 1 .. Len(t)
      /\ DOMAIN all = 1 .. Len(s) + Len(t)
  BY <1>1
<1>3. \A i \in 1 .. Len(s) : all[i] = s[i]
  BY <1>1, <1>2
<1>4. \A i \in 1 .. Len(s) + Len(t) : i > Len(s) => all[i] = <<t[i - Len(s)], a>>
  <2> SUFFICES ASSUME NEW i \in 1 .. Len(s) + Len(t), i > Len(s)
               PROVE  all[i] = <<t[i - Len(s)], a>>
    OBVIOUS
  <2>1. i - Len(s) \in 1 .. Len(t)
    BY <1>2
  <2>2. all[i] = TakenIn(t, a)[i - Len(s)]
    BY <1>1, <1>2
  <2> QED
    BY <2>1, <2>2, TakenInIs
<1>5. /\ Firsts(all) \in Seq(Nat) /\ Len(Firsts(all)) = Len(s) + Len(t)
      /\ \A i \in 1 .. Len(s) + Len(t) : Firsts(all)[i] = all[i][1]
  BY <1>1, FirstsTyped
<1>6. /\ Firsts(s) \o t \in Seq(Nat) /\ Len(Firsts(s) \o t) = Len(s) + Len(t)
      /\ \A i \in 1 .. Len(s) + Len(t) : (Firsts(s) \o t)[i] = IF i <= Len(s) THEN Firsts(s)[i] ELSE t[i - Len(s)]
  <2>1. Firsts(s) \in Seq(Nat) /\ Len(Firsts(s)) = Len(s)
    BY FirstsTyped
  <2>2. PICK u \in Seq(Nat) : u = Firsts(s)
    BY <2>1
  <2>3. /\ u \o t \in Seq(Nat) /\ Len(u \o t) = Len(u) + Len(t)
        /\ \A i \in 1 .. Len(u) + Len(t) : (u \o t)[i] = IF i <= Len(u) THEN u[i] ELSE t[i - Len(u)]
    BY ConcatProperties
  <2> QED
    BY <2>1, <2>2, <2>3
<1>7. ASSUME NEW i \in 1 .. Len(s) + Len(t)
      PROVE  Firsts(all)[i] = (Firsts(s) \o t)[i] /\ all[i][1] < all[i][2]
  <2>1. CASE i <= Len(s)
    <3>1. i \in 1 .. Len(s)
      BY <1>2, <2>1
    <3>2. all[i] = s[i] /\ Firsts(s)[i] = s[i][1] /\ s[i][1] < s[i][2]
      BY <1>2, <1>3, <3>1, FirstsTyped
    <3> QED
      BY <1>5, <1>6, <2>1, <3>2
  <2>2. CASE i > Len(s)
    <3>1. i - Len(s) \in 1 .. Len(t) /\ ~(i <= Len(s))
      BY <1>2, <2>2
    <3>2. all[i] = <<t[i - Len(s)], a>> /\ t[i - Len(s)] < a
      BY <1>2, <1>4, <2>2, <3>1
    <3>3. all[i][1] = t[i - Len(s)] /\ all[i][2] = a
      BY <3>2
    <3> QED
      BY <1>5, <1>6, <3>1, <3>2, <3>3
  <2>3. i <= Len(s) \/ i > Len(s)
    BY <1>2
  <2> QED
    BY <2>1, <2>2, <2>3
<1>8. Firsts(all) = Firsts(s) \o t
  BY <1>5, <1>6, <1>7, SeqEqual
<1>9. Firsts(all) \o << >> = Firsts(all)
  BY <1>5, ConcatEmptySeq
<1> QED
  BY <1>1, <1>2, <1>7, <1>8, <1>9 DEF all

LEMMA SentInOrder ==
    ASSUME NEW s \in Seq(Nat), NEW t \in Seq(Nat), NEW a \in Nat
    PROVE  Append(s \o t, a) = s \o Append(t, a)
<1>1. s \o t \in Seq(Nat) /\ <<a>> \in Seq(Nat)
  BY ConcatProperties
<1>2. Append(s \o t, a) = (s \o t) \o <<a>> /\ Append(t, a) = t \o <<a>>
  BY <1>1, AppendIsConcat
<1>3. (s \o t) \o <<a>> = s \o (t \o <<a>>)
  BY <1>1, ConcatAssociative
<1> QED
  BY <1>2, <1>3

\* Every worker of the federation is in one scope of each level, and there is a scope.
LEMMA ScopesCover ==
    ASSUME FederationInv, SomeGroup
    PROVE  /\ ScopesAt(1) # {}
           /\ \A l \in 1 .. 3 : /\ UNION ScopesAt(l) = WorkerIds
                                /\ \A s, t \in ScopesAt(l) : s = t \/ s \intersect t = {}
<1>1. domains \subseteq Domains /\ \A d \in domains : groups[d] \subseteq Groups
  BY DEF FederationInv, PlacesTyped
<1>2. ScopesAt(1) = {groupMembers[g] : g \in UNION {groups[d] : d \in domains}}
  BY DEF ScopesAt
<1>3. ScopesAt(2) = {WorkersIn(d) : d \in domains}
  BY DEF ScopesAt
<1>4. ScopesAt(3) = {WorkerIds}
  BY DEF ScopesAt
<1>5. ScopesAt(1) # {}
  BY <1>2 DEF SomeGroup
<1>6. UNION ScopesAt(1) = WorkerIds
  BY <1>2 DEF WorkerIds, WorkersIn
<1>7. UNION ScopesAt(2) = WorkerIds
  BY <1>3 DEF WorkerIds
<1>8. \A g, h \in Groups : groupMembers[g] = groupMembers[h] \/ groupMembers[g] \intersect groupMembers[h] = {}
  <2> TAKE g, h \in Groups
  <2>1. groupMembers[g] \subseteq Workers
    BY DEF FederationInv, PlacesTyped
  <2> QED
    BY <2>1 DEF FederationInv, OnePlace
<1>9. \A s, t \in ScopesAt(1) : s = t \/ s \intersect t = {}
  <2> TAKE s, t \in ScopesAt(1)
  <2>1. PICK g, h \in Groups : s = groupMembers[g] /\ t = groupMembers[h]
    BY <1>1, <1>2
  <2> QED
    BY <1>8, <2>1
<1>10. \A d, e \in domains : d # e => WorkersIn(d) \intersect WorkersIn(e) = {}
  <2> SUFFICES ASSUME NEW d \in domains, NEW e \in domains, NEW w \in WorkersIn(d), w \in WorkersIn(e)
               PROVE  d = e
    OBVIOUS
  <2>1. PICK g \in groups[d] : w \in groupMembers[g]
    BY DEF WorkersIn
  <2>2. PICK h \in groups[e] : w \in groupMembers[h]
    BY DEF WorkersIn
  <2>3. g \in Groups /\ h \in Groups /\ w \in Workers /\ d \in Domains /\ e \in Domains
    BY <1>1, <2>1, <2>2 DEF FederationInv, PlacesTyped
  <2>4. g = h
    BY <2>1, <2>2, <2>3 DEF FederationInv, OnePlace
  <2> QED
    BY <2>1, <2>2, <2>3, <2>4 DEF FederationInv, OnePlace
<1>11. \A s, t \in ScopesAt(2) : s = t \/ s \intersect t = {}
  <2> TAKE s, t \in ScopesAt(2)
  <2>1. PICK d, e \in domains : s = WorkersIn(d) /\ t = WorkersIn(e)
    BY <1>3
  <2> QED
    BY <1>10, <2>1
<1>12. UNION ScopesAt(3) = WorkerIds /\ \A s, t \in ScopesAt(3) : s = t
  BY <1>4
<1> QED
  BY <1>5, <1>6, <1>7, <1>9, <1>11, <1>12

LEMMA BarriersCover ==
    ASSUME FederationInv, SomeGroup, SyncBarrier
    PROVE  Covered
<1> DEFINE Tagged(l) == {[level |-> l, participants |-> s] : s \in ScopesAt(l)}
<1>1. PICK top \in 1 .. 3 : barriers' = UNION {Tagged(l) : l \in 1 .. top}
  BY DEF SyncBarrier, LevelsUpTo, Levels
<1>2. \A b : b \in barriers' <=> \E l \in 1 .. top : b \in Tagged(l)
  BY <1>1
<1>3. \A l : \A b \in Tagged(l) : b.level = l /\ b.participants \in ScopesAt(l)
  OBVIOUS
<1>4. \A l : \A s \in ScopesAt(l) : [level |-> l, participants |-> s] \in Tagged(l)
  OBVIOUS
<1> DEFINE scopes(l) == {b.participants : b \in {c \in barriers' : c.level = l}}
<1>5. \A l \in 1 .. top : scopes(l) = ScopesAt(l)
  <2> TAKE l \in 1 .. top
  <2>1. \A s \in scopes(l) : s \in ScopesAt(l)
    <3> TAKE s \in scopes(l)
    <3>1. PICK b \in barriers' : b.level = l /\ s = b.participants
      OBVIOUS
    <3>2. PICK k \in 1 .. top : b \in Tagged(k)
      BY <1>2
    <3> QED
      BY <1>3, <3>1, <3>2
  <2>2. \A s \in ScopesAt(l) : s \in scopes(l)
    <3> TAKE s \in ScopesAt(l)
    <3>1. [level |-> l, participants |-> s] \in barriers'
      BY <1>2, <1>4
    <3>2. [level |-> l, participants |-> s].level = l /\ [level |-> l, participants |-> s].participants = s
      OBVIOUS
    <3> QED
      BY <3>1, <3>2
  <2> QED
    BY <2>1, <2>2
<1>6. 1 \in {b.level : b \in barriers'}
  <2>1. PICK s \in ScopesAt(1) : TRUE
    BY ScopesCover
  <2>2. [level |-> 1, participants |-> s] \in barriers' /\ [level |-> 1, participants |-> s].level = 1
    BY <1>2, <1>4
  <2> QED
    BY <2>2
<1>7. \A l \in 1 .. 3 : (\E m \in {b.level : b \in barriers'} : l <= m) => l \in 1 .. top
  BY <1>2, <1>3
<1>8. \A l \in 1 .. 3 : (\E m \in {b.level : b \in barriers'} : l <= m) =>
         /\ UNION scopes(l) = WorkerIds
         /\ \A s, t \in scopes(l) : s = t \/ s \intersect t = {}
  <2> HIDE DEF scopes
  <2> QED
    BY <1>5, <1>7, ScopesCover
<1>9. DOMAIN Levels = 1 .. 3
  BY DEF Levels
<1> QED
  BY <1>6, <1>8, <1>9 DEF Covered

LEMMA BspInitially ==
    ASSUME BspInit
    PROVE  BspInv
<1>1. FederationInv
  BY FlatInitially DEF BspInit
<1>2. SomeGroup
  <2>1. PICK s \in Shapes : WorkerIds = 1 .. s[1]
    BY <1>1 DEF BspInit, FederationInit, FederationInv, FlatIsWhole
  <2>2. 1 \in WorkerIds
    BY <2>1, FederationAssumption
  <2> QED
    BY <2>2 DEF WorkerIds, WorkersIn, SomeGroup
<1>3. /\ inboxes = [w \in WorkerIds |-> << >>] /\ attempt = 0 /\ todo = {} /\ plan = << >>
      /\ sent = [w \in Workers |-> << >>] /\ taken = [w \in Workers |-> << >>]
  BY DEF BspInit
<1>4. WorkerIds \subseteq Workers
  BY <1>1 DEF WorkerIds, WorkersIn, FederationInv, PlacesTyped
<1>5. BspTyped
  <2>1. << >> \in Seq(Nat) /\ << >> \in Seq(Nat \X Nat) /\ << >> \in Seq(Workers \union {Refused})
    BY EmptySeq
  <2> QED
    BY <1>3, <1>4, <2>1 DEF BspTyped
<1>6. MessagesWait
  BY <1>3 DEF MessagesWait
<1>7. Delivered
  <2>1. << >> = [i \in DOMAIN << >> |-> << >>[i][1]] \o << >>
    OBVIOUS
  <2> QED
    BY <1>3, <1>4, <2>1 DEF Delivered
<1> QED
  BY <1>1, <1>2, <1>5, <1>6, <1>7 DEF BspInv

LEMMA SameFederation ==
    ASSUME FederationInv, SomeGroup, UNCHANGED federationVars
    PROVE  FederationInv' /\ SomeGroup'
  BY DEF federationVars, FederationInv, PlacesTyped, OnePlace, HandedOn, FlatIsWhole,
         DomainFed, WorkerIds, WorkersIn, SomeGroup

LEMMA ReshapeKeeps ==
    ASSUME BspInv, Reshape
    PROVE  BspInv'
<1>1. FederationInv'
  BY FederationStep DEF BspInv, Reshape
<1>2. SomeGroup'
  <2>1. PICK d \in domains : groups[d] # {}
    BY DEF BspInv, SomeGroup
  <2>2. d \in Domains /\ groups \in [Domains -> SUBSET Groups]
    BY DEF BspInv, FederationInv, PlacesTyped
  <2>3. d \in domains' /\ groups'[d] # {}
    BY <2>1, <2>2 DEF Reshape, FederationNext, AddWorker, RemoveWorker, AddGroup, AddDomain
  <2> QED
    BY <2>3 DEF SomeGroup
<1>3. UNCHANGED bspVars
  BY DEF Reshape
<1>4. BspTyped' /\ MessagesWait' /\ Delivered'
  BY <1>3 DEF BspInv, bspVars, BspTyped, MessagesWait, Delivered
<1> QED
  BY <1>1, <1>2, <1>4 DEF BspInv

LEMMA BeginKeeps ==
    ASSUME BspInv, Begin
    PROVE  BspInv'
<1>1. FederationInv' /\ SomeGroup'
  BY SameFederation DEF BspInv, Begin
<1>2. /\ attempt' = attempt + 1 /\ stage' = "compute" /\ todo' \subseteq DOMAIN inboxes
      /\ UNCHANGED <<inboxes, plan, sent, taken>>
  BY DEF Begin
<1>3. BspTyped'
  BY <1>2 DEF BspInv, BspTyped
<1>4. MessagesWait'
  <2> SUFFICES ASSUME NEW w \in DOMAIN inboxes, NEW i \in DOMAIN inboxes[w]
               PROVE  inboxes[w][i] <= attempt + 1 /\ inboxes[w][i] < attempt + 1
    BY <1>2 DEF MessagesWait
  <2>1. inboxes[w] \in Seq(Nat) /\ attempt \in Nat
    BY DEF BspInv, BspTyped
  <2>2. inboxes[w][i] \in Nat /\ inboxes[w][i] <= attempt
    BY <2>1 DEF BspInv, MessagesWait
  <2> QED
    BY <2>1, <2>2
<1>5. Delivered'
  BY <1>2 DEF BspInv, Delivered
<1> QED
  BY <1>1, <1>3, <1>4, <1>5 DEF BspInv

\* The first participant is one.
LEMMA FirstOfTodo ==
    ASSUME BspInv, todo # {}
    PROVE  Lowest(todo) \in todo /\ Lowest(todo) \in DOMAIN inboxes /\ Lowest(todo) \in Workers
<1>1. todo \in SUBSET Nat /\ todo \subseteq DOMAIN inboxes /\ DOMAIN inboxes \subseteq Workers
  BY FederationAssumption DEF BspInv, BspTyped, Workers
<1>2. \E x \in todo : \A y \in todo : x <= y
  BY <1>1, LeastExists
<1>3. Lowest(todo) \in todo
  BY <1>2 DEF Lowest
<1> QED
  BY <1>1, <1>3

LEMMA ComputeKeeps ==
    ASSUME BspInv, Compute
    PROVE  BspInv'
<1>1. FederationInv' /\ SomeGroup'
  BY SameFederation DEF BspInv, Compute
<1>w. PICK w : w = Lowest(todo)
  OBVIOUS
<1>2. w \in DOMAIN inboxes /\ w \in Workers
  BY <1>w, FirstOfTodo DEF Compute
<1>3. stage = "compute" /\ attempt' = attempt /\ sent' = sent
  BY DEF Compute
<1>4. inboxes[w] \in Seq(Nat) /\ taken[w] \in Seq(Nat \X Nat) /\ attempt \in Nat
  BY <1>2 DEF BspInv, BspTyped
<1>5. CASE inboxes' = inboxes /\ Raise /\ taken' = taken
  <2>1. BspTyped'
    BY <1>3, <1>5, EmptySeq DEF BspInv, BspTyped, Raise
  <2>2. MessagesWait'
    BY <1>3, <1>5 DEF BspInv, MessagesWait, Raise
  <2>3. Delivered'
    BY <1>3, <1>5 DEF BspInv, Delivered
  <2> QED
    BY <1>1, <2>1, <2>2, <2>3 DEF BspInv
<1>6. CASE /\ inboxes' = [inboxes EXCEPT ![w] = << >>]
           /\ taken' = [taken EXCEPT ![w] = @ \o TakenNow(w)]
           /\ todo' = todo \ {w} /\ UNCHANGED <<stage, plan>>
  <2>1. TakenNow(w) = TakenIn(inboxes[w], attempt)
    BY DEF TakenNow, TakenIn
  <2>2. \A i \in DOMAIN taken[w] : taken[w][i][1] < taken[w][i][2]
    BY <1>2 DEF BspInv, Delivered
  <2>3. \A i \in DOMAIN inboxes[w] : inboxes[w][i] < attempt
    BY <1>2, <1>3 DEF BspInv, MessagesWait
  <2>g. PICK given : given = taken[w] \o TakenIn(inboxes[w], attempt)
    OBVIOUS
  <2>4. /\ given \in Seq(Nat \X Nat)
        /\ Firsts(given) \o << >> = Firsts(taken[w]) \o inboxes[w]
        /\ \A i \in DOMAIN given : given[i][1] < given[i][2]
    BY <1>4, <2>2, <2>3, <2>g, TakenInOrder
  <2>5. taken' = [taken EXCEPT ![w] = given]
    BY <1>6, <2>1, <2>g
  <2>6. DOMAIN inboxes' = DOMAIN inboxes /\ inboxes'[w] = << >>
        /\ \A v \in DOMAIN inboxes : v # w => inboxes'[v] = inboxes[v]
    BY <1>2, <1>6
  <2>7. taken' \in [Workers -> Seq(Nat \X Nat)] /\ taken'[w] = given
        /\ \A v \in Workers : v # w => taken'[v] = taken[v]
    BY <1>2, <2>4, <2>5 DEF BspInv, BspTyped
  <2>8. BspTyped'
    <3>1. inboxes' \in [DOMAIN inboxes -> Seq(Nat)]
      BY <1>6, EmptySeq DEF BspInv, BspTyped
    <3> QED
      BY <1>3, <1>6, <2>6, <2>7, <3>1 DEF BspInv, BspTyped
  <2>9. MessagesWait'
    BY <1>3, <1>6, <2>6 DEF BspInv, MessagesWait
  <2>10. Delivered'
    <3>1. ASSUME NEW v \in DOMAIN inboxes
          PROVE  sent[v] = Firsts(taken'[v]) \o inboxes'[v]
      <4>1. sent[v] = Firsts(taken[v]) \o inboxes[v] /\ v \in Workers
        BY DEF BspInv, BspTyped, Delivered, Firsts
      <4>2. CASE v = w
        BY <2>4, <2>6, <2>7, <4>1, <4>2
      <4>3. CASE v # w
        BY <2>6, <2>7, <4>1, <4>3
      <4> QED
        BY <4>2, <4>3
    <3>2. \A v \in Workers : \A i \in DOMAIN taken'[v] : taken'[v][i][1] < taken'[v][i][2]
      BY <2>4, <2>7 DEF BspInv, Delivered
    <3> QED
      BY <1>3, <2>6, <3>1, <3>2 DEF Delivered, Firsts
  <2> QED
    BY <1>1, <2>8, <2>9, <2>10 DEF BspInv
<1>7. \/ inboxes' = inboxes /\ Raise /\ taken' = taken
      \/ /\ inboxes' = [inboxes EXCEPT ![w] = << >>]
         /\ taken' = [taken EXCEPT ![w] = @ \o TakenNow(w)]
         /\ todo' = todo \ {w} /\ UNCHANGED <<stage, plan>>
  <2>1. PICK raised \in BOOLEAN :
           /\ inboxes' = [inboxes EXCEPT ![w] = Left(w, raised)]
           /\ IF raised THEN Raise /\ UNCHANGED taken
              ELSE /\ taken' = [taken EXCEPT ![w] = @ \o TakenNow(w)]
                   /\ todo' = todo \ {w} /\ UNCHANGED <<stage, plan>>
    BY <1>w DEF Compute
  <2>2. Left(w, TRUE) = inboxes[w] /\ Left(w, FALSE) = << >>
    BY DEF Left, Emptied
  <2>3. [inboxes EXCEPT ![w] = inboxes[w]] = inboxes
    BY DEF BspInv, BspTyped
  <2>4. CASE raised = TRUE
    BY <2>1, <2>2, <2>3, <2>4
  <2>5. CASE raised = FALSE
    BY <2>1, <2>2, <2>5
  <2> QED
    BY <2>4, <2>5
<1> QED
  BY <1>5, <1>6, <1>7

LEMMA CommunicateKeeps ==
    ASSUME BspInv, Communicate
    PROVE  BspInv'
<1>1. FederationInv' /\ SomeGroup'
  BY SameFederation DEF BspInv, Communicate
<1>w. PICK dst : dst = Head(plan)
  OBVIOUS
<1>2. stage = "communication" /\ attempt' = attempt /\ taken' = taken /\ plan # << >>
  BY DEF Communicate
<1>3. CASE Raise /\ UNCHANGED <<inboxes, sent>>
  <2>1. BspTyped'
    BY <1>2, <1>3, EmptySeq DEF BspInv, BspTyped, Raise
  <2>2. MessagesWait'
    BY <1>2, <1>3 DEF BspInv, MessagesWait, Raise
  <2>3. Delivered'
    BY <1>2, <1>3 DEF BspInv, Delivered
  <2> QED
    BY <1>1, <2>1, <2>2, <2>3 DEF BspInv
<1>4. CASE /\ dst \in DOMAIN inboxes
           /\ inboxes' = [inboxes EXCEPT ![dst] = Append(@, attempt)]
           /\ sent' = [sent EXCEPT ![dst] = Append(@, attempt)]
           /\ plan' = Tail(plan) /\ UNCHANGED <<stage, todo>>
  <2>1. /\ dst \in Workers /\ inboxes[dst] \in Seq(Nat) /\ sent[dst] \in Seq(Nat)
        /\ attempt \in Nat /\ taken[dst] \in Seq(Nat \X Nat)
    BY <1>4 DEF BspInv, BspTyped
  <2>i. PICK inbox : inbox = Append(inboxes[dst], attempt)
    OBVIOUS
  <2>s. PICK all : all = Append(sent[dst], attempt)
    OBVIOUS
  <2>2. /\ inbox \in Seq(Nat) /\ Len(inbox) = Len(inboxes[dst]) + 1
        /\ \A i \in 1 .. Len(inboxes[dst]) : inbox[i] = inboxes[dst][i]
        /\ inbox[Len(inboxes[dst]) + 1] = attempt
    BY <2>1, <2>i, AppendProperties
  <2>3. all \in Seq(Nat)
    BY <2>1, <2>s, AppendProperties
  <2>4. all = Firsts(taken[dst]) \o inbox
    <3>1. sent[dst] = Firsts(taken[dst]) \o inboxes[dst]
      BY <1>4 DEF BspInv, Delivered, Firsts
    <3>2. Firsts(taken[dst]) \in Seq(Nat)
      BY <2>1, FirstsTyped
    <3>3. Append(Firsts(taken[dst]) \o inboxes[dst], attempt) = Firsts(taken[dst]) \o Append(inboxes[dst], attempt)
      BY <2>1, <3>2, SentInOrder
    <3> QED
      BY <2>i, <2>s, <3>1, <3>3
  <2>5. DOMAIN inboxes' = DOMAIN inboxes /\ inboxes'[dst] = inbox
        /\ inboxes' \in [DOMAIN inboxes -> Seq(Nat)]
        /\ \A v \in DOMAIN inboxes : v # dst => inboxes'[v] = inboxes[v]
    <3>1. inboxes' = [inboxes EXCEPT ![dst] = inbox]
      BY <1>4, <2>i
    <3> QED
      BY <1>4, <2>2, <3>1 DEF BspInv, BspTyped
  <2>6. sent' \in [Workers -> Seq(Nat)] /\ sent'[dst] = all
        /\ \A v \in Workers : v # dst => sent'[v] = sent[v]
    <3>1. sent' = [sent EXCEPT ![dst] = all]
      BY <1>4, <2>s
    <3> QED
      BY <2>1, <2>3, <3>1 DEF BspInv, BspTyped
  <2>7. BspTyped'
    <3>1. plan' \in Seq(Workers \union {Refused})
      BY <1>2, <1>4, HeadTailProperties DEF BspInv, BspTyped
    <3> QED
      BY <1>2, <1>4, <2>5, <2>6, <3>1 DEF BspInv, BspTyped
  <2>8. MessagesWait'
    <3> SUFFICES ASSUME NEW v \in DOMAIN inboxes, NEW i \in DOMAIN inboxes'[v]
                 PROVE  inboxes'[v][i] <= attempt
      BY <1>2, <1>4, <2>5 DEF MessagesWait
    <3>1. CASE v # dst
      BY <2>5, <3>1 DEF BspInv, MessagesWait
    <3>2. CASE v = dst
      <4>1. i \in 1 .. Len(inboxes[dst]) + 1 /\ Len(inboxes[dst]) \in Nat
        BY <2>1, <2>2, <2>5, <3>2
      <4>2. CASE i = Len(inboxes[dst]) + 1
        BY <2>1, <2>2, <2>5, <3>2, <4>2
      <4>3. CASE i \in 1 .. Len(inboxes[dst])
        <5>1. inboxes[dst][i] <= attempt
          BY <1>4, <2>1, <4>3 DEF BspInv, MessagesWait
        <5> QED
          BY <2>2, <2>5, <3>2, <4>3, <5>1
      <4> QED
        BY <4>1, <4>2, <4>3
    <3> QED
      BY <3>1, <3>2
  <2>9. Delivered'
    <3>1. ASSUME NEW v \in DOMAIN inboxes
          PROVE  sent'[v] = Firsts(taken[v]) \o inboxes'[v]
      <4>1. sent[v] = Firsts(taken[v]) \o inboxes[v] /\ v \in Workers
        BY DEF BspInv, BspTyped, Delivered, Firsts
      <4>2. CASE v = dst
        BY <2>4, <2>5, <2>6, <4>2
      <4>3. CASE v # dst
        BY <2>5, <2>6, <4>1, <4>3
      <4> QED
        BY <4>2, <4>3
    <3> QED
      BY <1>2, <2>5, <3>1 DEF BspInv, Delivered, Firsts
  <2> QED
    BY <1>1, <2>7, <2>8, <2>9 DEF BspInv
<1> QED
  BY <1>3, <1>4, <1>w DEF Communicate

LEMMA OtherStagesKeep ==
    ASSUME BspInv, Computed \/ SyncBarrier \/ UnknownLevel \/ UNCHANGED <<federationVars, bspVars>>
    PROVE  BspInv'
<1>1. FederationInv' /\ SomeGroup'
  BY SameFederation DEF BspInv, Computed, SyncBarrier, UnknownLevel
<1>2. /\ UNCHANGED <<inboxes, attempt, sent, taken>>
      /\ stage' = "compute" => stage = "compute"
  BY DEF Computed, SyncBarrier, UnknownLevel, Raise, bspVars
<1>3. todo' \subseteq DOMAIN inboxes /\ plan' \in Seq(Workers \union {Refused})
  <2>1. CASE Computed
    <3>1. PICK n \in 0 .. MaxPlan : plan' \in [1 .. n -> Workers \union {Refused}]
      BY <2>1 DEF Computed, Plans
    <3>2. n \in Nat
      BY SuperstepsAssumption
    <3>3. plan' \in Seq(Workers \union {Refused})
      BY <3>1, <3>2, IsASeq
    <3> QED
      BY <2>1, <3>3 DEF Computed, BspInv, BspTyped
  <2>2. CASE SyncBarrier
    BY <2>2 DEF SyncBarrier, BspInv, BspTyped
  <2>3. CASE UnknownLevel
    BY <2>3, EmptySeq DEF UnknownLevel, Raise, BspInv, BspTyped
  <2>4. CASE UNCHANGED <<federationVars, bspVars>>
    BY <2>4 DEF bspVars, BspInv, BspTyped
  <2> QED
    BY <2>1, <2>2, <2>3, <2>4
<1>4. BspTyped' /\ MessagesWait' /\ Delivered'
  BY <1>2, <1>3 DEF BspInv, BspTyped, MessagesWait, Delivered
<1> QED
  BY <1>1, <1>4 DEF BspInv

\* Whatever raises in a superstep and whatever becomes of the federation between two, a
\* worker's functions are given the messages sent to it in order, none lost, none twice and
\* none in the superstep that sent it; and a recorded superstep has synchronised every
\* worker once at each level (BSPEngine.superstep, BSPEngine.barrier).
THEOREM MessagesAreDelivered == BspSpec => SuperstepsDeliver
<1>1. BspInit => BspInv
  BY BspInitially
<1>2. BspInv /\ [BspNext]_<<federationVars, bspVars>> => BspInv'
  BY ReshapeKeeps, BeginKeeps, ComputeKeeps, CommunicateKeeps, OtherStagesKeep DEF BspNext
<1>3. BspInv /\ [BspNext]_<<federationVars, bspVars>>
         => [recorded' # recorded => Covered]_<<federationVars, bspVars>>
  <2> SUFFICES ASSUME BspInv, BspNext, recorded' # recorded
               PROVE  Covered
    OBVIOUS
  <2>1. SyncBarrier
    BY DEF BspNext, Reshape, bspVars, Begin, Compute, Computed, Communicate, UnknownLevel
  <2> QED
    BY <2>1, BarriersCover DEF BspInv
<1>4. BspInv => Delivered
  BY DEF BspInv
<1>5. Delivered' /\ [recorded' # recorded => Covered]_<<federationVars, bspVars>>
         => [Delivered' /\ (recorded' # recorded => Covered)]_<<federationVars, bspVars>>
  OBVIOUS
<1> QED
  BY <1>1, <1>2, <1>3, <1>4, <1>5, PTL DEF BspSpec, SuperstepsDeliver

-----------------------------------------------------------------------------
(* The task runtime.                                                         *)

TaskStates == {"READY", "RUNNING"} \union Final
TaskRecord == [state : TaskStates, prio : Nat, overdue : BOOLEAN, seq : Nat, held : SUBSET Payloads]
CallRecord == [kind : {"task", "run"}, task : Nat, todo : SUBSET Nat, upto : Nat]

RuntimeTyped ==
    /\ tasks \in Seq(TaskRecord) /\ stack \in Seq(CallRecord)
    /\ consumed \subseteq Payloads /\ logged \in [Payloads -> 0 .. Len(tasks)]
    /\ settled \subseteq Spawned \X Final

\* The program is the bottom call; every other one is a run over tasks that exist, or
\* the function of a task that exists.
CallsSound ==
    /\ Len(stack) >= 1 /\ stack[1] = Program
    /\ \A i \in 1 .. Len(stack) :
          /\ stack[i].todo \subseteq Spawned /\ stack[i].upto <= Len(tasks)
          /\ stack[i].kind = "task" => stack[i].todo = {}
    /\ \A i \in 2 .. Len(stack) : stack[i].kind = "task" => stack[i].task \in Spawned

\* No call in progress can still touch a task that was finished between two calls.
SettledIsOver ==
    \A pair \in settled :
        /\ tasks[pair[1]].state = pair[2]
        /\ \A i \in 2 .. Len(stack) :
              /\ pair[1] \notin stack[i].todo
              /\ stack[i].kind = "task" => stack[i].task # pair[1]

RunningIsCalled == \A t \in Spawned : tasks[t].state = "RUNNING" => t \in Executing

\* What a run found when it was called is still to do, finished, or being executed.
RunsCover ==
    \A i \in 1 .. Len(stack) : stack[i].kind # "task" =>
        \A n \in 1 .. stack[i].upto :
            n \in stack[i].todo \/ tasks[n].state \in Final \/ n \in Executing

\* The map of owners is the log's, and the lists of the tasks agree with both.
HeldIsLogged ==
    /\ ownerOf = logged
    /\ \A p \in Payloads \ consumed : \A t \in Spawned : p \in tasks[t].held <=> logged[p] = t

TaskInv == RuntimeTyped /\ CallsSound /\ SettledIsOver /\ RunningIsCalled /\ RunsCover /\ HeldIsLogged

LEMMA NatOrder == \A m, n \in Nat : (m = n \/ m = n + 1 => m >= n) /\ (m >= n => ~ (m < n))
  OBVIOUS

\* Setting the state of one task.
LEMMA WithStateIs ==
    ASSUME tasks \in Seq(TaskRecord), NEW t \in Spawned, NEW s \in TaskStates
    PROVE  /\ WithState(t, s) \in Seq(TaskRecord) /\ Len(WithState(t, s)) = Len(tasks)
           /\ \A u \in Spawned : /\ WithState(t, s)[u].state = IF u = t THEN s ELSE tasks[u].state
                                 /\ WithState(t, s)[u].held = tasks[u].held
<1>1. \A u \in Spawned : tasks[u] \in TaskRecord
  BY DEF Spawned
<1> DEFINE new == [tasks[t] EXCEPT !.state = s]
<1>2. new \in TaskRecord /\ new.state = s /\ new.held = tasks[t].held
  BY <1>1 DEF TaskRecord
<1> HIDE DEF new
<1>3. WithState(t, s) = [tasks EXCEPT ![t] = new]
  BY DEF WithState, new
<1> QED
  BY <1>1, <1>2, <1>3 DEF Spawned

\* The tasks whose functions are being called, whatever the stack.
LEMMA ExecutingIs ==
    ASSUME NEW t
    PROVE  t \in Executing <=> \E i \in 1 .. Len(stack) : stack[i].kind = "task" /\ stack[i].task = t
  BY DEF Executing

LEMMA ExecutingNext ==
    ASSUME NEW t
    PROVE  t \in Executing' <=> \E i \in 1 .. Len(stack') : stack'[i].kind = "task" /\ stack'[i].task = t
  BY DEF Executing

\* A step after which the calls are the same, and every task that was there has kept its
\* state or, not being finished, got a final one, keeps what is said of the calls.
LEMMA SameCallsKeep ==
    ASSUME TaskInv, stack' = stack, tasks' \in Seq(TaskRecord), Len(tasks') >= Len(tasks),
           \A t \in Spawned : \/ tasks'[t].state = tasks[t].state
                              \/ tasks[t].state \notin Final /\ tasks'[t].state \in Final,
           \A t \in Spawned' \ Spawned : tasks'[t].state = "READY",
           settled' = IF Len(stack) = 1 THEN settled \union FinishedPairs(tasks') ELSE settled
    PROVE  /\ settled' \subseteq Spawned' \X Final
           /\ CallsSound' /\ SettledIsOver' /\ RunningIsCalled' /\ RunsCover'
<1> USE DEF TaskInv, RuntimeTyped, CallsSound
<1>1. Spawned \subseteq Spawned' /\ Len(tasks) \in Nat /\ Len(tasks') \in Nat
  BY DEF Spawned
<1>2. \A pair \in settled : pair[1] \in Spawned /\ pair[2] \in Final /\ tasks'[pair[1]].state = pair[2]
  BY DEF SettledIsOver
<1>3. \A pair \in FinishedPairs(tasks') :
         pair \in Spawned' \X Final /\ tasks'[pair[1]].state = pair[2]
  BY DEF FinishedPairs, Spawned
<1>4. settled' \subseteq Spawned' \X Final
  BY <1>1, <1>3
<1>5. CallsSound'
  <2>1. \A i \in 1 .. Len(stack) : stack[i].upto \in Nat /\ stack[i].upto <= Len(tasks')
    <3> TAKE i \in 1 .. Len(stack)
    <3>1. stack[i] \in CallRecord
      OBVIOUS
    <3> QED
      BY <3>1, <1>1 DEF CallRecord
  <2> QED
    BY <1>1, <2>1
<1>6. SettledIsOver'
  <2> SUFFICES ASSUME NEW pair \in settled'
               PROVE  /\ tasks'[pair[1]].state = pair[2]
                      /\ \A i \in 2 .. Len(stack) : /\ pair[1] \notin stack[i].todo
                                                    /\ stack[i].kind = "task" => stack[i].task # pair[1]
    BY DEF SettledIsOver
  <2>1. CASE pair \in settled
    BY <1>2, <2>1 DEF SettledIsOver
  <2>2. CASE pair \notin settled
    BY <1>3, <2>2
  <2> QED
    BY <2>1, <2>2
<1>7. \A t : t \in Executing' <=> t \in Executing
  BY DEF Executing
<1>8. RunningIsCalled'
  BY <1>7, <1>1 DEF RunningIsCalled, Final
<1>9. RunsCover'
  <2> SUFFICES ASSUME NEW i \in 1 .. Len(stack), stack[i].kind # "task", NEW n \in 1 .. stack[i].upto,
                      n \notin stack[i].todo, n \notin Executing
               PROVE  tasks'[n].state \in Final
    BY <1>7 DEF RunsCover
  <2>1. n \in Spawned
    <3>1. stack[i] \in CallRecord
      OBVIOUS
    <3> QED
      BY <3>1, <1>1 DEF Spawned, CallRecord
  <2> QED
    BY <2>1 DEF RunsCover
<1> QED
  BY <1>4, <1>5, <1>6, <1>8, <1>9

\* A call on top of the stack, and the stack without it.
LEMMA PushedIs ==
    ASSUME stack \in Seq(CallRecord), NEW call \in CallRecord
    PROVE  /\ Append(stack, call) \in Seq(CallRecord) /\ Len(Append(stack, call)) = Len(stack) + 1
           /\ Append(stack, call)[Len(stack) + 1] = call
           /\ \A i \in 1 .. Len(stack) : Append(stack, call)[i] = stack[i]
  OBVIOUS

LEMMA PoppedIs ==
    ASSUME stack \in Seq(CallRecord), Len(stack) > 1
    PROVE  /\ Popped \in Seq(CallRecord) /\ Len(Popped) = Len(stack) - 1
           /\ \A i \in 1 .. Len(stack) - 1 : Popped[i] = stack[i]
  BY DEF Popped

\* A sequence with its last element replaced.
LEMMA LastReplaced ==
    ASSUME NEW S, NEW s \in Seq(S), Len(s) >= 1, NEW e \in S, NEW r, r = [s EXCEPT ![Len(s)] = e]
    PROVE  /\ r \in Seq(S) /\ Len(r) = Len(s)
           /\ \A i \in 1 .. Len(s) : r[i] = IF i = Len(s) THEN e ELSE s[i]
  OBVIOUS

\* The run on top with one task less to execute.
StackWithout(t) == [stack EXCEPT ![Len(stack)].todo = @ \ {t}]

LEMMA RestIs ==
    ASSUME stack \in Seq(CallRecord), Len(stack) >= 1, NEW t \in Nat
    PROVE  LET rest == StackWithout(t) IN
           /\ rest \in Seq(CallRecord) /\ Len(rest) = Len(stack)
           /\ \A i \in 1 .. Len(stack) :
                 /\ rest[i].kind = stack[i].kind /\ rest[i].task = stack[i].task
                 /\ rest[i].upto = stack[i].upto
                 /\ rest[i].todo = IF i = Len(stack) THEN stack[i].todo \ {t} ELSE stack[i].todo
                 /\ i # Len(stack) => rest[i] = stack[i]
<1> DEFINE rest == StackWithout(t)
<1>1. stack[Len(stack)] \in CallRecord /\ stack[Len(stack)].todo \ {t} \in SUBSET Nat
  <2>1. stack[Len(stack)] \in CallRecord
    OBVIOUS
  <2> QED
    BY <2>1 DEF CallRecord
<1>2. \E top \in CallRecord :
      /\ rest = [stack EXCEPT ![Len(stack)] = top]
      /\ top.todo = stack[Len(stack)].todo \ {t}
      /\ top.kind = stack[Len(stack)].kind /\ top.task = stack[Len(stack)].task
      /\ top.upto = stack[Len(stack)].upto
  <2> DEFINE top == [stack[Len(stack)] EXCEPT !.todo = @ \ {t}]
  <2>1. /\ top \in CallRecord /\ top.todo = stack[Len(stack)].todo \ {t}
      /\ top.kind = stack[Len(stack)].kind /\ top.task = stack[Len(stack)].task
      /\ top.upto = stack[Len(stack)].upto
    BY <1>1 DEF CallRecord
  <2> QED
    BY <2>1 DEF StackWithout
<1> HIDE DEF rest
<1>3. /\ rest \in Seq(CallRecord) /\ Len(rest) = Len(stack)
      /\ \A i \in 1 .. Len(stack) :
            /\ rest[i].kind = stack[i].kind /\ rest[i].task = stack[i].task
            /\ rest[i].upto = stack[i].upto
            /\ rest[i].todo = IF i = Len(stack) THEN stack[i].todo \ {t} ELSE stack[i].todo
            /\ i # Len(stack) => rest[i] = stack[i]
  <2>1. PICK top \in CallRecord :
      /\ rest = [stack EXCEPT ![Len(stack)] = top]
      /\ top.todo = stack[Len(stack)].todo \ {t}
      /\ top.kind = stack[Len(stack)].kind /\ top.task = stack[Len(stack)].task
      /\ top.upto = stack[Len(stack)].upto
    BY <1>2
  <2>2. /\ rest \in Seq(CallRecord) /\ Len(rest) = Len(stack)
        /\ \A i \in 1 .. Len(stack) : rest[i] = IF i = Len(stack) THEN top ELSE stack[i]
    BY <2>1, LastReplaced
  <2>3. ASSUME NEW i \in 1 .. Len(stack)
        PROVE  /\ rest[i].kind = stack[i].kind /\ rest[i].task = stack[i].task
               /\ rest[i].upto = stack[i].upto
               /\ rest[i].todo = IF i = Len(stack) THEN stack[i].todo \ {t} ELSE stack[i].todo
               /\ i # Len(stack) => rest[i] = stack[i]
    <3>1. CASE i = Len(stack)
      <4>1. rest[i] = top
        BY <2>2, <3>1
      <4> QED
        BY <2>1, <3>1, <4>1, Zenon
    <3>2. CASE i # Len(stack)
      <4>1. rest[i] = stack[i]
        BY <2>2, <3>2
      <4> QED
        BY <3>2, <4>1, Zenon
    <3> QED
      BY <3>1, <3>2
  <2> QED
    BY <2>2, <2>3
<1> QED
  BY <1>3 DEF rest

\* run finds the tasks that are ready.
LEMMA StartRunKeeps ==
    ASSUME TaskInv, StartRun
    PROVE  /\ stack' \in Seq(CallRecord) /\ settled' \subseteq Spawned' \X Final
           /\ CallsSound' /\ SettledIsOver' /\ RunningIsCalled' /\ RunsCover'
<1> USE DEF TaskInv, RuntimeTyped, CallsSound
<1> DEFINE call == [kind |-> "run", task |-> 0, todo |-> Ready, upto |-> Len(tasks)]
<1>1. call \in CallRecord /\ Ready \subseteq Spawned
  BY DEF CallRecord, Ready, Spawned
<1>2. /\ call.kind # "task" /\ call.todo = Ready /\ call.upto = Len(tasks)
      /\ stack' = Append(stack, call) /\ tasks' = tasks /\ settled' = settled /\ Len(stack) \in Nat
  BY PushedIs, <1>1 DEF StartRun, Step
<1> HIDE DEF call
<1>3. /\ stack' \in Seq(CallRecord) /\ Len(stack') = Len(stack) + 1 /\ stack'[Len(stack) + 1] = call
      /\ \A i \in 1 .. Len(stack) : stack'[i] = stack[i]
      /\ \A i \in 1 .. Len(stack') : i \in 1 .. Len(stack) \/ i = Len(stack) + 1
  BY <1>1, <1>2, PushedIs
<1>4. CallsSound'
  <2>1. \A i \in 1 .. Len(stack') :
          /\ stack'[i].todo \subseteq Spawned /\ stack'[i].upto <= Len(tasks)
          /\ stack'[i].kind = "task" => stack'[i].todo = {}
          /\ i >= 2 /\ stack'[i].kind = "task" => stack'[i].task \in Spawned
    BY <1>1, <1>2, <1>3
  <2> QED
    BY <2>1, <1>2, <1>3 DEF Spawned
<1>5. SettledIsOver'
  <2>1. \A pair \in settled : pair[1] \notin Ready
    BY DEF SettledIsOver, Ready, Final
  <2> QED
    BY <2>1, <1>2, <1>3 DEF SettledIsOver
<1>6. \A u : u \in Executing' <=> u \in Executing
  BY <1>2, <1>3, ExecutingIs, ExecutingNext
<1>7. RunningIsCalled'
  BY <1>2, <1>6 DEF RunningIsCalled, Spawned
<1>8. RunsCover'
  <2>1. \A n \in 1 .. Len(tasks) : n \in Ready \/ tasks[n].state \in Final \/ n \in Executing
    <3> TAKE n \in 1 .. Len(tasks)
    <3>1. tasks[n] \in TaskRecord
      OBVIOUS
    <3>2. tasks[n].state \in {"READY", "RUNNING"} \union Final
      BY <3>1 DEF TaskRecord, TaskStates
    <3> QED
      BY <3>2 DEF Ready, Spawned, RunningIsCalled
  <2> QED
    BY <2>1, <1>2, <1>3, <1>6 DEF RunsCover
<1> QED
  BY <1>2, <1>3, <1>4, <1>5, <1>7, <1>8 DEF Spawned

\* A call that returns, the top one's task being in a final state by then.
LEMMA PoppedKeeps ==
    ASSUME TaskInv, Len(stack) > 1, stack' = Popped, tasks' \in Seq(TaskRecord), Len(tasks') = Len(tasks),
           settled' = IF Len(Popped) = 1 THEN settled \union FinishedPairs(tasks') ELSE settled,
           \A t \in Spawned : tasks'[t].state = tasks[t].state \/ (t = Top.task /\ Top.kind = "task"),
           Top.kind = "task" => tasks'[Top.task].state \in Final
    PROVE  /\ settled' \subseteq Spawned' \X Final
           /\ CallsSound' /\ SettledIsOver' /\ RunningIsCalled' /\ RunsCover'
<1> USE DEF TaskInv, RuntimeTyped, CallsSound
<1>1. /\ stack' \in Seq(CallRecord) /\ Len(stack') = Len(stack) - 1 /\ Len(stack) \in Nat
      /\ \A i \in 1 .. Len(stack') : i \in 1 .. Len(stack) /\ i # Len(stack) /\ stack'[i] = stack[i]
      /\ \A i \in 1 .. Len(stack) : i \in 1 .. Len(stack') \/ i = Len(stack)
      /\ Spawned' = Spawned /\ Top = stack[Len(stack)] /\ Len(stack) \in 2 .. Len(stack)
  <2>1. /\ stack' \in Seq(CallRecord) /\ Len(stack') = Len(stack) - 1 /\ Len(stack) \in Nat
        /\ \A i \in 1 .. Len(stack) - 1 : stack'[i] = stack[i]
    BY PoppedIs
  <2>2. Spawned' = Spawned /\ Top = stack[Len(stack)]
    BY DEF Spawned, Top
  <2> QED
    BY <2>1, <2>2
<1>2. \A pair \in settled : pair[1] \in Spawned /\ pair[2] \in Final /\ tasks'[pair[1]].state = pair[2]
  <2> TAKE pair \in settled
  <2>1. /\ pair[1] \in Spawned /\ pair[2] \in Final /\ tasks[pair[1]].state = pair[2]
        /\ \A i \in 2 .. Len(stack) : stack[i].kind = "task" => stack[i].task # pair[1]
    BY DEF SettledIsOver
  <2>2. ~ (Top.kind = "task" /\ Top.task = pair[1])
    BY <1>1, <2>1
  <2> QED
    BY <2>1, <2>2
<1>3. \A pair \in FinishedPairs(tasks') :
         pair \in Spawned' \X Final /\ tasks'[pair[1]].state = pair[2]
  BY DEF FinishedPairs, Spawned
<1>4. settled' \subseteq Spawned' \X Final
  BY <1>1, <1>3
<1>5. CallsSound'
  <2>1. Len(stack') >= 1 /\ stack'[1] = Program
    BY <1>1
  <2>2. \A i \in 1 .. Len(stack') :
          /\ stack'[i].todo \subseteq Spawned' /\ stack'[i].upto <= Len(tasks')
          /\ stack'[i].kind = "task" => stack'[i].todo = {}
    <3> TAKE i \in 1 .. Len(stack')
    <3>1. i \in 1 .. Len(stack) /\ stack'[i] = stack[i] /\ Spawned' = Spawned
      BY <1>1, Zenon
    <3>2. /\ stack[i].todo \subseteq Spawned /\ stack[i].upto <= Len(tasks)
          /\ stack[i].kind = "task" => stack[i].todo = {}
      BY <3>1
    <3> QED
      BY <3>1, <3>2
  <2>3. \A i \in 2 .. Len(stack') : i \in 2 .. Len(stack) /\ stack'[i] = stack[i]
    <3> TAKE i \in 2 .. Len(stack')
    <3>1. i \in 1 .. Len(stack') /\ i >= 2
      BY <1>1
    <3>2. i \in 1 .. Len(stack) /\ stack'[i] = stack[i]
      BY <1>1, <3>1, Zenon
    <3>3. \A n \in Nat : \A m \in 1 .. n : m >= 2 => m \in 2 .. n
      OBVIOUS
    <3> QED
      BY <1>1, <3>1, <3>2, <3>3, Zenon
  <2>4. \A i \in 2 .. Len(stack') : stack'[i].kind = "task" => stack'[i].task \in Spawned'
    BY <1>1, <2>3
  <2> QED
    BY <2>1, <2>2, <2>4
<1>6. SettledIsOver'
  <2> SUFFICES ASSUME NEW pair \in settled'
               PROVE  /\ tasks'[pair[1]].state = pair[2]
                      /\ \A i \in 2 .. Len(stack') : /\ pair[1] \notin stack'[i].todo
                                                     /\ stack'[i].kind = "task" => stack'[i].task # pair[1]
    BY DEF SettledIsOver
  <2>0. \A i \in 2 .. Len(stack') : i \in 2 .. Len(stack) /\ stack'[i] = stack[i]
    <3> TAKE i \in 2 .. Len(stack')
    <3>1. i \in 1 .. Len(stack') /\ i >= 2
      BY <1>1
    <3>2. i \in 1 .. Len(stack) /\ stack'[i] = stack[i]
      BY <1>1, <3>1, Zenon
    <3> QED
      BY <1>1, <3>1, <3>2
  <2>1. CASE pair \in settled
    <3>1. \A i \in 2 .. Len(stack) : /\ pair[1] \notin stack[i].todo
                                     /\ stack[i].kind = "task" => stack[i].task # pair[1]
      BY <2>1 DEF SettledIsOver
    <3> QED
      BY <1>2, <2>0, <2>1, <3>1
  <2>2. CASE pair \notin settled
    <3>1. Len(Popped) = 1 /\ pair \in FinishedPairs(tasks')
      BY <2>2
    <3>2. Len(stack') = 1
      BY <3>1
    <3>3. \A i \in 2 .. Len(stack') : FALSE
      BY <3>2
    <3> QED
      BY <1>3, <3>1, <3>3
  <2> QED
    BY <2>1, <2>2
<1>7. \A u \in Spawned : u \in Executing => u \in Executing' \/ tasks'[u].state \in Final
  <2> SUFFICES ASSUME NEW u \in Spawned, u \in Executing, u \notin Executing'
               PROVE  tasks'[u].state \in Final
    OBVIOUS
  <2>1. PICK i \in 1 .. Len(stack) : stack[i].kind = "task" /\ stack[i].task = u
    BY ExecutingIs
  <2>2. ~ \E j \in 1 .. Len(stack') : stack'[j].kind = "task" /\ stack'[j].task = u
    BY ExecutingNext
  <2>3. i \notin 1 .. Len(stack')
    BY <1>1, <2>1, <2>2
  <2> QED
    BY <1>1, <2>1, <2>3
<1>8. RunningIsCalled'
  BY <1>1, <1>7 DEF RunningIsCalled, Final
<1>9. RunsCover'
  <2> SUFFICES ASSUME NEW i \in 1 .. Len(stack'), stack'[i].kind # "task", NEW n \in 1 .. stack'[i].upto,
                      n \notin stack'[i].todo, n \notin Executing'
               PROVE  tasks'[n].state \in Final
    BY DEF RunsCover
  <2>1. n \in Spawned /\ i \in 1 .. Len(stack) /\ stack'[i] = stack[i]
    <3>1. stack'[i] = stack[i] /\ i \in 1 .. Len(stack) /\ stack[i] \in CallRecord
      BY <1>1
    <3> QED
      BY <3>1 DEF Spawned, CallRecord
  <2> QED
    BY <2>1, <1>7 DEF RunsCover
<1> QED
  BY <1>4, <1>5, <1>6, <1>8, <1>9

\* The task that a run executes next exists, and nothing says that it is finished for good.
LEMMA NextOfRun ==
    ASSUME TaskInv, NEW t \in Top.todo
    PROVE  /\ t \in Spawned /\ Len(stack) \in 2 .. Len(stack) /\ Top = stack[Len(stack)]
           /\ Top.kind # "task" /\ tasks[t] \in TaskRecord
           /\ \A pair \in settled : pair[1] # t
<1>1. Len(stack) \in 1 .. Len(stack) /\ Top = stack[Len(stack)]
  BY DEF Top, TaskInv, RuntimeTyped, CallsSound
<1>2. Len(stack) # 1
  BY <1>1 DEF Program, TaskInv, CallsSound
<1>3. t \in Spawned /\ Top.kind # "task"
  BY <1>1 DEF TaskInv, CallsSound
<1>4. Len(stack) \in 2 .. Len(stack)
  BY <1>1, <1>2
<1>5. tasks[t] \in TaskRecord
  BY <1>3 DEF TaskInv, RuntimeTyped, Spawned
<1>6. \A pair \in settled : pair[1] # t
  BY <1>1, <1>4 DEF TaskInv, SettledIsOver
<1> QED
  BY <1>1, <1>3, <1>4, <1>5, <1>6

\* A run executes its next task: it is passed over or timed out, or its function is called.
LEMMA NextKeeps ==
    ASSUME TaskInv, NEW t \in Top.todo,
           stack' \in Seq(CallRecord), Len(stack') \in {Len(stack), Len(stack) + 1}, stack'[1] = stack[1],
           \A i \in 1 .. Len(stack) :
               /\ stack'[i].kind = stack[i].kind /\ stack'[i].task = stack[i].task
               /\ stack'[i].upto = stack[i].upto /\ stack'[i].todo \subseteq stack[i].todo
               /\ stack[i].todo \subseteq stack'[i].todo \union {t},
           Len(stack') = Len(stack) + 1 =>
               LET call == stack'[Len(stack) + 1]
               IN  call.kind = "task" /\ call.task = t /\ call.todo = {} /\ call.upto = Len(tasks),
           Len(tasks') = Len(tasks), settled' = settled,
           \A u \in Spawned : u # t => tasks'[u].state = tasks[u].state,
           Len(stack') = Len(stack) => tasks'[t].state \in Final
    PROVE  /\ settled' \subseteq Spawned' \X Final
           /\ CallsSound' /\ SettledIsOver' /\ RunningIsCalled' /\ RunsCover'
<1>1. /\ Len(stack) \in Nat /\ Len(stack) >= 2 /\ Len(tasks) \in Nat /\ Spawned' = Spawned
      /\ stack[1] = Program /\ settled \subseteq Spawned \X Final
      /\ \A i \in 1 .. Len(stack) : stack[i].upto \in Nat
  <2>1. /\ stack \in Seq(CallRecord) /\ stack[1] = Program /\ Len(tasks) \in Nat
        /\ settled \subseteq Spawned \X Final
    BY DEF TaskInv, RuntimeTyped, CallsSound
  <2>2. \A i \in 1 .. Len(stack) : stack[i] \in CallRecord
    BY <2>1
  <2>3. \A i \in 1 .. Len(stack) : stack[i].upto \in Nat
    BY <2>2 DEF CallRecord
  <2>4. Len(stack) \in Nat /\ Len(stack) >= 2
    BY <2>1, NextOfRun
  <2>5. Spawned' = Spawned
    BY DEF Spawned
  <2> QED
    BY <2>1, <2>3, <2>4, <2>5
<1>2. /\ \A i \in 1 .. Len(stack) :
            /\ stack[i].todo \subseteq Spawned /\ stack[i].upto <= Len(tasks)
            /\ stack[i].kind = "task" => stack[i].todo = {}
      /\ \A i \in 2 .. Len(stack) : stack[i].kind = "task" => stack[i].task \in Spawned
  BY DEF TaskInv, CallsSound
<1>3. t \in Spawned /\ \A pair \in settled : pair[1] # t /\ pair[1] \in Spawned
  BY <1>1, NextOfRun
<1>4. \A i \in 1 .. Len(stack') : i \in 1 .. Len(stack) \/ i = Len(stack) + 1
  BY <1>1
<1>5. ASSUME NEW i, i = Len(stack) + 1, i \in 1 .. Len(stack')
      PROVE  /\ stack'[i].kind = "task" /\ stack'[i].task = t /\ stack'[i].todo = {}
             /\ stack'[i].upto = Len(tasks)
  BY <1>1, <1>5
<1>6. CallsSound'
  <2>1. ASSUME NEW i \in 1 .. Len(stack')
        PROVE  /\ stack'[i].todo \subseteq Spawned /\ stack'[i].upto <= Len(tasks)
               /\ stack'[i].kind = "task" => stack'[i].todo = {}
               /\ i >= 2 /\ stack'[i].kind = "task" => stack'[i].task \in Spawned
    <3>1. CASE i = Len(stack) + 1
      BY <1>1, <1>3, <1>5, <3>1
    <3>2. CASE i \in 1 .. Len(stack)
      <4>1. i >= 2 => i \in 2 .. Len(stack)
        BY <1>1, <3>2
      <4>2. /\ stack[i].todo \subseteq Spawned /\ stack[i].upto <= Len(tasks)
            /\ stack[i].kind = "task" => stack[i].todo = {}
            /\ i >= 2 /\ stack[i].kind = "task" => stack[i].task \in Spawned
        BY <1>2, <3>2, <4>1
      <4> QED
        BY <3>2, <4>2
    <3> QED
      BY <1>4, <3>1, <3>2
  <2> QED
    BY <1>1, <2>1 DEF CallsSound
<1>7. SettledIsOver'
  <2> SUFFICES ASSUME NEW pair \in settled
               PROVE  /\ tasks'[pair[1]].state = pair[2]
                      /\ \A i \in 2 .. Len(stack') : /\ pair[1] \notin stack'[i].todo
                                                     /\ stack'[i].kind = "task" => stack'[i].task # pair[1]
    BY DEF SettledIsOver
  <2>1. /\ tasks[pair[1]].state = pair[2]
        /\ \A i \in 2 .. Len(stack) : /\ pair[1] \notin stack[i].todo
                                      /\ stack[i].kind = "task" => stack[i].task # pair[1]
    BY DEF TaskInv, SettledIsOver
  <2>2. pair[1] # t /\ tasks'[pair[1]].state = pair[2]
    BY <1>3, <2>1
  <2>3. ASSUME NEW i \in 2 .. Len(stack')
        PROVE  /\ pair[1] \notin stack'[i].todo
               /\ stack'[i].kind = "task" => stack'[i].task # pair[1]
    <3>1. CASE i = Len(stack) + 1
      BY <1>1, <1>5, <2>2, <3>1
    <3>2. CASE i \in 1 .. Len(stack)
      <4>1. i \in 2 .. Len(stack)
        BY <1>1, <3>2
      <4> QED
        BY <2>1, <3>2, <4>1
    <3> QED
      BY <1>1, <1>4, <3>1, <3>2
  <2> QED
    BY <2>2, <2>3
<1>8. \A u : u \in Executing' <=> u \in Executing \/ (u = t /\ Len(stack') = Len(stack) + 1)
  <2> TAKE u
  <2>1. u \in Executing' <=> \E i \in 1 .. Len(stack') : stack'[i].kind = "task" /\ stack'[i].task = u
    BY ExecutingNext
  <2>2. u \in Executing <=> \E i \in 1 .. Len(stack) : stack[i].kind = "task" /\ stack[i].task = u
    BY ExecutingIs
  <2>3. ASSUME u \in Executing'
        PROVE  u \in Executing \/ (u = t /\ Len(stack') = Len(stack) + 1)
    <3>1. PICK i \in 1 .. Len(stack') : stack'[i].kind = "task" /\ stack'[i].task = u
      BY <2>1, <2>3
    <3>2. CASE i = Len(stack) + 1
      BY <1>1, <1>5, <3>1, <3>2
    <3>3. CASE i \in 1 .. Len(stack)
      BY <2>2, <3>1, <3>3
    <3> QED
      BY <1>4, <3>2, <3>3
  <2>4. ASSUME u \in Executing
        PROVE  u \in Executing'
    <3>1. PICK i \in 1 .. Len(stack) : stack[i].kind = "task" /\ stack[i].task = u
      BY <2>2, <2>4
    <3>2. i \in 1 .. Len(stack') /\ stack'[i].kind = "task" /\ stack'[i].task = u
      BY <1>1, <3>1
    <3> QED
      BY <2>1, <3>2
  <2>5. ASSUME u = t, Len(stack') = Len(stack) + 1
        PROVE  u \in Executing'
    <3>1. Len(stack) + 1 \in 1 .. Len(stack')
      BY <1>1, <2>5
    <3> QED
      BY <1>5, <2>1, <2>5, <3>1
  <2> QED
    BY <2>3, <2>4, <2>5
<1>9. \A u \in Spawned : u \in Executing' \/ u # t \/ tasks'[u].state \in Final
  BY <1>8
<1>10. RunningIsCalled'
  BY <1>1, <1>8, <1>9 DEF TaskInv, RunningIsCalled, Final
<1>11. RunsCover'
  <2> SUFFICES ASSUME NEW i \in 1 .. Len(stack'), stack'[i].kind # "task", NEW n \in 1 .. stack'[i].upto,
                      n \notin stack'[i].todo, n \notin Executing'
               PROVE  tasks'[n].state \in Final
    BY DEF RunsCover
  <2>1. i \in 1 .. Len(stack)
    BY <1>4, <1>5
  <2>2. n \in Spawned /\ n \in 1 .. stack[i].upto
    BY <1>1, <1>2, <2>1 DEF Spawned
  <2>3. n \in stack[i].todo \/ tasks[n].state \in Final \/ n \in Executing
    BY <2>1, <2>2 DEF TaskInv, RunsCover
  <2>4. CASE n = t
    BY <1>9, <2>2, <2>4
  <2>5. CASE n # t
    BY <1>8, <2>1, <2>2, <2>3, <2>5
  <2> QED
    BY <2>4, <2>5
<1> QED
  BY <1>1, <1>6, <1>7, <1>10, <1>11

\* Execute: the three things that _execute does with the task.
LEMMA ExecuteKeeps ==
    ASSUME TaskInv, NEW t \in Top.todo, Executes(t)
    PROVE  /\ tasks' \in Seq(TaskRecord) /\ Len(tasks') = Len(tasks)
           /\ \A u \in Spawned : tasks'[u].held = tasks[u].held
           /\ stack' \in Seq(CallRecord) /\ Len(stack') >= Len(stack) /\ settled' \subseteq Spawned' \X Final
           /\ CallsSound' /\ SettledIsOver' /\ RunningIsCalled' /\ RunsCover'
<1> DEFINE rest == StackWithout(t)
           call == [kind |-> "task", task |-> t, todo |-> {}, upto |-> Len(tasks)]
<1>1. /\ t \in Spawned /\ Len(stack) \in Nat /\ Len(stack) >= 2
      /\ tasks \in Seq(TaskRecord) /\ stack \in Seq(CallRecord) /\ Len(tasks) \in Nat
  BY NextOfRun DEF TaskInv, RuntimeTyped
<1>2. /\ call \in CallRecord /\ call.kind = "task" /\ call.task = t /\ call.todo = {}
      /\ call.upto = Len(tasks)
  BY <1>1 DEF CallRecord, Spawned
<1>3. \/ tasks[t].state = "CANCELLED" /\ Step(tasks, rest)
      \/ Step(WithState(t, "TIMED_OUT"), rest)
      \/ Step(WithState(t, "RUNNING"), Append(rest, call))
  BY DEF Executes, StackWithout
<1>4. /\ rest \in Seq(CallRecord) /\ Len(rest) = Len(stack) /\ rest[1] = stack[1]
      /\ \A i \in 1 .. Len(stack) :
            /\ rest[i].kind = stack[i].kind /\ rest[i].task = stack[i].task
            /\ rest[i].upto = stack[i].upto /\ rest[i].todo \subseteq stack[i].todo
            /\ stack[i].todo \subseteq rest[i].todo \union {t}
  <2>1. /\ rest \in Seq(CallRecord) /\ Len(rest) = Len(stack)
        /\ \A i \in 1 .. Len(stack) :
              /\ rest[i].kind = stack[i].kind /\ rest[i].task = stack[i].task
              /\ rest[i].upto = stack[i].upto
              /\ rest[i].todo = IF i = Len(stack) THEN stack[i].todo \ {t} ELSE stack[i].todo
              /\ i # Len(stack) => rest[i] = stack[i]
    <3>1. t \in Nat /\ Len(stack) >= 1
      BY <1>1 DEF Spawned
    <3> QED
      BY <1>1, <3>1, RestIs, Zenon
  <2> HIDE DEF rest, call
  <2>2. ASSUME NEW i \in 1 .. Len(stack)
        PROVE  /\ rest[i].todo \subseteq stack[i].todo
               /\ stack[i].todo \subseteq rest[i].todo \union {t}
    BY <2>1
  <2>3. rest[1] = stack[1]
    <3>1. Len(stack) \in Nat /\ Len(stack) >= 2
      BY <1>1
    <3>2. \A n \in Nat : n >= 2 => 1 \in 1 .. n /\ 1 # n
      OBVIOUS
    <3>3. 1 \in 1 .. Len(stack) /\ 1 # Len(stack)
      BY <3>1, <3>2, Zenon
    <3> QED
      BY <2>1, <3>3, Zenon
  <2> QED
    BY <2>1, <2>2, <2>3
<1> HIDE DEF rest, call
<1>6. /\ Append(rest, call) \in Seq(CallRecord) /\ Len(Append(rest, call)) = Len(stack) + 1
      /\ Append(rest, call)[Len(stack) + 1] = call
      /\ \A i \in 1 .. Len(stack) : Append(rest, call)[i] = rest[i]
  BY <1>1, <1>2, <1>4
<1>7. CASE tasks[t].state = "CANCELLED" /\ Step(tasks, rest)
  <2>1. tasks' = tasks /\ stack' = rest /\ settled' = settled /\ tasks'[t].state \in Final
    BY <1>1, <1>4, <1>7 DEF Step, Final
  <2>2. /\ settled' \subseteq Spawned' \X Final
        /\ CallsSound' /\ SettledIsOver' /\ RunningIsCalled' /\ RunsCover'
    <3>1. Len(stack') = Len(stack) /\ Len(stack') # Len(stack) + 1 /\ Len(tasks') = Len(tasks)
      BY <1>1, <1>4, <2>1
    <3> QED
      BY <1>4, <2>1, <3>1, NextKeeps
  <2> QED
    BY <1>1, <1>4, <2>1, <2>2
<1>8. CASE Step(WithState(t, "TIMED_OUT"), rest)
  <2>1. tasks' = WithState(t, "TIMED_OUT") /\ stack' = rest /\ settled' = settled
    BY <1>1, <1>4, <1>8 DEF Step
  <2>2. /\ tasks' \in Seq(TaskRecord) /\ Len(tasks') = Len(tasks)
        /\ \A u \in Spawned : /\ tasks'[u].state = IF u = t THEN "TIMED_OUT" ELSE tasks[u].state
                              /\ tasks'[u].held = tasks[u].held
    BY <1>1, <2>1, WithStateIs DEF TaskStates, Final
  <2>3. tasks'[t].state \in Final /\ \A u \in Spawned : u # t => tasks'[u].state = tasks[u].state
    BY <1>1, <2>2 DEF Final
  <2>4. Len(stack') = Len(stack) /\ Len(stack') # Len(stack) + 1 /\ Len(stack') >= Len(stack)
    BY <1>1, <1>4, <2>1
  <2>5. /\ settled' \subseteq Spawned' \X Final
        /\ CallsSound' /\ SettledIsOver' /\ RunningIsCalled' /\ RunsCover'
    BY <1>4, <2>1, <2>2, <2>3, <2>4, NextKeeps
  <2> QED
    BY <1>4, <2>1, <2>2, <2>4, <2>5
<1>9. CASE Step(WithState(t, "RUNNING"), Append(rest, call))
  <2>1. tasks' = WithState(t, "RUNNING") /\ stack' = Append(rest, call) /\ settled' = settled
    BY <1>1, <1>6, <1>9 DEF Step
  <2>2. /\ tasks' \in Seq(TaskRecord) /\ Len(tasks') = Len(tasks)
        /\ \A u \in Spawned : /\ tasks'[u].state = IF u = t THEN "RUNNING" ELSE tasks[u].state
                              /\ tasks'[u].held = tasks[u].held
    BY <1>1, <2>1, WithStateIs DEF TaskStates
  <2>3. \A u \in Spawned : u # t => tasks'[u].state = tasks[u].state
    BY <2>2
  <2>4. /\ stack' \in Seq(CallRecord) /\ Len(stack') = Len(stack) + 1 /\ stack'[1] = stack[1]
        /\ stack'[Len(stack) + 1] = call
        /\ \A i \in 1 .. Len(stack) :
              /\ stack'[i].kind = stack[i].kind /\ stack'[i].task = stack[i].task
              /\ stack'[i].upto = stack[i].upto /\ stack'[i].todo \subseteq stack[i].todo
              /\ stack[i].todo \subseteq stack'[i].todo \union {t}
    BY <1>1, <1>4, <1>6, <2>1
  <2> QED
    BY <1>1, <1>2, <2>1, <2>2, <2>3, <2>4, NextKeeps
<1> QED
  BY <1>3, <1>7, <1>8, <1>9

\* The function on top returns, or a run does.
LEMMA ReturnKeeps ==
    ASSUME TaskInv, Return \/ RunEnds
    PROVE  /\ tasks' \in Seq(TaskRecord) /\ Len(tasks') = Len(tasks)
           /\ \A u \in Spawned : tasks'[u].held = tasks[u].held
           /\ stack' \in Seq(CallRecord) /\ settled' \subseteq Spawned' \X Final
           /\ CallsSound' /\ SettledIsOver' /\ RunningIsCalled' /\ RunsCover'
<1>1. /\ stack \in Seq(CallRecord) /\ tasks \in Seq(TaskRecord) /\ Len(stack) \in Nat /\ Len(stack) >= 1
      /\ stack[1] = Program /\ Top = stack[Len(stack)]
  BY DEF TaskInv, RuntimeTyped, CallsSound, Top
<1>2. Len(stack) > 1
  <2>1. CASE Return
    BY <2>1 DEF Return
  <2>2. CASE RunEnds
    <3>1. Top.kind # "task"
      BY <2>2 DEF RunEnds
    <3>2. Len(stack) # 1
      BY <1>1, <3>1 DEF Program
    <3>3. \A n \in Nat : n >= 1 /\ n # 1 => n > 1
      OBVIOUS
    <3> QED
      BY <1>1, <3>2, <3>3, Zenon
  <2> QED
    BY <2>1, <2>2
<1>3. stack' = Popped /\ settled' = IF Len(Popped) = 1 THEN settled \union FinishedPairs(tasks') ELSE settled
  BY DEF Return, RunEnds, Step
<1>4. stack' \in Seq(CallRecord)
  BY <1>1, <1>2, <1>3, PoppedIs
<1>5. /\ tasks' \in Seq(TaskRecord) /\ Len(tasks') = Len(tasks)
      /\ \A u \in Spawned : tasks'[u].held = tasks[u].held
      /\ \A u \in Spawned : tasks'[u].state = tasks[u].state \/ (u = Top.task /\ Top.kind = "task")
      /\ Top.kind = "task" => tasks'[Top.task].state \in Final
  <2>1. CASE RunEnds
    BY <1>1, <2>1 DEF RunEnds, Step
  <2>2. CASE Return
    <3>1. PICK s \in {"DONE", "FAILED"} : tasks' = WithState(Top.task, s)
      BY <2>2 DEF Return, Step
    <3>2. Top.kind = "task" /\ s \in TaskStates /\ s \in Final
      BY <2>2 DEF Return, TaskStates, Final
    <3>3. Top.task \in Spawned
      <4>1. Len(stack) \in 2 .. Len(stack)
        BY <1>1, <1>2
      <4> QED
        BY <1>1, <3>2, <4>1 DEF TaskInv, CallsSound
    <3>4. /\ tasks' \in Seq(TaskRecord) /\ Len(tasks') = Len(tasks)
          /\ \A u \in Spawned : /\ tasks'[u].state = IF u = Top.task THEN s ELSE tasks[u].state
                                /\ tasks'[u].held = tasks[u].held
      BY <1>1, <3>1, <3>2, <3>3, WithStateIs
    <3> QED
      BY <3>2, <3>3, <3>4
  <2> QED
    BY <2>1, <2>2
<1>6. /\ settled' \subseteq Spawned' \X Final
      /\ CallsSound' /\ SettledIsOver' /\ RunningIsCalled' /\ RunsCover'
  BY <1>2, <1>3, <1>5, PoppedKeeps
<1> QED
  BY <1>4, <1>5, <1>6

\* When a run returns, everything that was spawned before its call is finished, or is
\* itself waiting for the return.
LEMMA ReturnFences ==
    ASSUME TaskInv, RunEnds
    PROVE  RunFences
<1>1. Len(stack) \in 1 .. Len(stack) /\ Top = stack[Len(stack)]
  BY DEF TaskInv, RuntimeTyped, CallsSound, Top
<1>2. Top.kind # "task" /\ Top.todo = {} /\ tasks' = tasks
  BY DEF RunEnds, RunIsOver, Step
<1>3. \A n \in 1 .. Top.upto : tasks[n].state \in Final \/ n \in Executing
  BY <1>1, <1>2 DEF TaskInv, RunsCover
<1> QED
  BY <1>2, <1>3 DEF RunFences

\* A new task is in no call, and nobody holds a payload through it.
LEMMA SpawnIs ==
    ASSUME TaskInv, NEW priority \in Nat, NEW over \in BOOLEAN, NEW number \in Nat,
           Added(priority, over, number)
    PROVE  /\ tasks' \in Seq(TaskRecord) /\ Len(tasks') = Len(tasks) + 1
           /\ \A t \in Spawned : tasks'[t] = tasks[t]
           /\ \A t \in Spawned' \ Spawned : tasks'[t].state = "READY" /\ tasks'[t].held = {}
<1> DEFINE new == [state |-> "READY", prio |-> priority, overdue |-> over, seq |-> number, held |-> {}]
<1>1. new \in TaskRecord /\ new.state = "READY" /\ new.held = {}
  BY DEF TaskRecord, TaskStates
<1>2. tasks' = Append(tasks, new) /\ tasks \in Seq(TaskRecord)
  BY DEF Added, Step, TaskInv, RuntimeTyped
<1> HIDE DEF new
<1>3. /\ tasks' \in Seq(TaskRecord) /\ Len(tasks') = Len(tasks) + 1 /\ Len(tasks) \in Nat
      /\ \A t \in 1 .. Len(tasks) : tasks'[t] = tasks[t]
      /\ tasks'[Len(tasks) + 1] = new
  BY <1>1, <1>2
<1>4. \A t \in Spawned' \ Spawned : t = Len(tasks) + 1
  BY <1>3 DEF Spawned
<1> QED
  BY <1>1, <1>3, <1>4 DEF Spawned

\* A step that leaves the payloads alone and no held list changed keeps the ownership.
LEMMA OwnersStay ==
    ASSUME TaskInv, UNCHANGED <<consumed, ownerOf, logged>>, Len(tasks') >= Len(tasks), Len(tasks') \in Nat,
           \A t \in Spawned : tasks'[t].held = tasks[t].held,
           \A t \in Spawned' \ Spawned : tasks'[t].held = {}
    PROVE  consumed' \subseteq Payloads /\ logged' \in [Payloads -> 0 .. Len(tasks')] /\ HeldIsLogged'
<1>1. /\ consumed \subseteq Payloads /\ logged \in [Payloads -> 0 .. Len(tasks)] /\ Len(tasks) \in Nat
      /\ ownerOf = logged
      /\ \A p \in Payloads \ consumed : \A t \in Spawned : p \in tasks[t].held <=> logged[p] = t
  BY DEF TaskInv, RuntimeTyped, HeldIsLogged
<1>2. logged' \in [Payloads -> 0 .. Len(tasks')]
  BY <1>1
<1>3. ASSUME NEW p \in Payloads \ consumed, NEW t \in Spawned'
      PROVE  p \in tasks'[t].held <=> logged[p] = t
  <2>1. CASE t \in Spawned
    BY <1>1, <2>1
  <2>2. CASE t \notin Spawned
    <3>1. t > Len(tasks)
      BY <1>1, <2>2 DEF Spawned
    <3>2. logged[p] \in 0 .. Len(tasks)
      BY <1>1
    <3> QED
      BY <1>1, <2>2, <3>1, <3>2
  <2> QED
    BY <2>1, <2>2
<1> QED
  BY <1>1, <1>2, <1>3 DEF HeldIsLogged

\* Spawn and speculate, and cancel of a task that is not finished.
LEMMA AddedKeeps ==
    ASSUME TaskInv, NEW priority \in Nat, NEW over \in BOOLEAN, NEW number \in Nat,
           Added(priority, over, number)
    PROVE  TaskInv'
<1>1. /\ tasks' \in Seq(TaskRecord) /\ Len(tasks') = Len(tasks) + 1 /\ Len(tasks) \in Nat
      /\ \A t \in Spawned : tasks'[t] = tasks[t]
      /\ \A t \in Spawned' \ Spawned : tasks'[t].state = "READY" /\ tasks'[t].held = {}
  BY SpawnIs DEF TaskInv, RuntimeTyped
<1>2. /\ stack' = stack /\ stack \in Seq(CallRecord) /\ UNCHANGED <<consumed, ownerOf, logged>>
      /\ settled' = IF Len(stack) = 1 THEN settled \union FinishedPairs(tasks') ELSE settled
  BY DEF Added, Step, TaskInv, RuntimeTyped
<1>3. consumed' \subseteq Payloads /\ logged' \in [Payloads -> 0 .. Len(tasks')] /\ HeldIsLogged'
  BY <1>1, <1>2, OwnersStay
<1>4. /\ settled' \subseteq Spawned' \X Final
      /\ CallsSound' /\ SettledIsOver' /\ RunningIsCalled' /\ RunsCover'
  BY <1>1, <1>2, SameCallsKeep
<1> QED
  BY <1>1, <1>2, <1>3, <1>4 DEF TaskInv, RuntimeTyped

LEMMA CancelKeeps ==
    ASSUME TaskInv, NEW t \in Ids, Cancel(t)
    PROVE  TaskInv'
<1>1. /\ stack' = stack /\ stack \in Seq(CallRecord) /\ UNCHANGED <<consumed, ownerOf, logged>>
      /\ settled' = IF Len(stack) = 1 THEN settled \union FinishedPairs(tasks') ELSE settled
      /\ tasks' = WithState(t, "CANCELLED") /\ t \in Spawned /\ tasks[t].state \notin Final
      /\ tasks \in Seq(TaskRecord) /\ Len(tasks) \in Nat
  BY DEF Cancel, Step, TaskInv, RuntimeTyped
<1>2. /\ tasks' \in Seq(TaskRecord) /\ Len(tasks') = Len(tasks)
      /\ \A u \in Spawned : /\ tasks'[u].state = IF u = t THEN "CANCELLED" ELSE tasks[u].state
                            /\ tasks'[u].held = tasks[u].held
  BY <1>1, WithStateIs DEF TaskStates, Final
<1>3. Spawned' = Spawned /\ "CANCELLED" \in Final
  BY <1>2 DEF Spawned, Final
<1>4. consumed' \subseteq Payloads /\ logged' \in [Payloads -> 0 .. Len(tasks')] /\ HeldIsLogged'
  BY <1>1, <1>2, <1>3, OwnersStay
<1>5. \A u \in Spawned : \/ tasks'[u].state = tasks[u].state
                         \/ tasks[u].state \notin Final /\ tasks'[u].state \in Final
  BY <1>1, <1>2, <1>3
<1>6. /\ settled' \subseteq Spawned' \X Final
      /\ CallsSound' /\ SettledIsOver' /\ RunningIsCalled' /\ RunsCover'
  BY <1>1, <1>2, <1>3, <1>5, SameCallsKeep
<1> QED
  BY <1>1, <1>2, <1>4, <1>6 DEF TaskInv, RuntimeTyped

\* A harvest finishes every task that was ready.
LEMMA HarvestKeeps ==
    ASSUME TaskInv, Harvest, UNCHANGED <<consumed, ownerOf, logged>>
    PROVE  TaskInv'
<1>1. /\ stack' = stack /\ stack \in Seq(CallRecord)
      /\ settled' = IF Len(stack) = 1 THEN settled \union FinishedPairs(tasks') ELSE settled
      /\ tasks \in Seq(TaskRecord) /\ Len(tasks) \in Nat
  BY DEF Harvest, Step, TaskInv, RuntimeTyped
<1>t. tasks' = [t \in Spawned |-> IF t \in Ready THEN [tasks[t] EXCEPT !.state = "DONE"] ELSE tasks[t]]
  BY DEF Harvest, Step
<1>2. ASSUME NEW t \in Spawned
      PROVE  /\ tasks'[t] \in TaskRecord /\ tasks'[t].held = tasks[t].held
             /\ tasks'[t].state = IF t \in Ready THEN "DONE" ELSE tasks[t].state
  <2>1. tasks[t] \in TaskRecord
    BY <1>1 DEF Spawned
  <2>2. CASE t \in Ready
    BY <1>t, <2>1, <2>2 DEF TaskRecord, TaskStates, Final
  <2>3. CASE t \notin Ready
    BY <1>t, <2>1, <2>3
  <2> QED
    BY <2>2, <2>3
<1>3. DOMAIN tasks' = 1 .. Len(tasks)
  BY <1>t DEF Spawned
<1>4. tasks' \in [1 .. Len(tasks) -> TaskRecord]
  BY <1>t, <1>2, <1>3 DEF Spawned
<1>5. tasks' \in Seq(TaskRecord) /\ Len(tasks') = Len(tasks)
  BY <1>1, <1>4
<1>6. Spawned' = Spawned
  BY <1>5 DEF Spawned
<1>7. consumed' \subseteq Payloads /\ logged' \in [Payloads -> 0 .. Len(tasks')] /\ HeldIsLogged'
  BY <1>1, <1>2, <1>5, <1>6, OwnersStay
<1>8. \A u \in Spawned : \/ tasks'[u].state = tasks[u].state
                         \/ tasks[u].state \notin Final /\ tasks'[u].state \in Final
  BY <1>2 DEF Ready, Final
<1>9. /\ settled' \subseteq Spawned' \X Final
      /\ CallsSound' /\ SettledIsOver' /\ RunningIsCalled' /\ RunsCover'
  BY <1>1, <1>5, <1>6, <1>8, SameCallsKeep
<1> QED
  BY <1>1, <1>5, <1>7, <1>9 DEF TaskInv, RuntimeTyped

\* run, barrier, await_task and wait_event, in this process or in others.
LEMMA RunsKeeps ==
    ASSUME TaskInv, Runs
    PROVE  TaskInv'
<1>1. CASE Harvest
  BY <1>1, HarvestKeeps DEF Runs
<1>2. CASE StartRun
  <2>1. /\ UNCHANGED <<consumed, ownerOf, logged>> /\ tasks' = tasks /\ tasks \in Seq(TaskRecord)
        /\ Len(tasks) \in Nat
    BY <1>2 DEF Runs, StartRun, Step, TaskInv, RuntimeTyped
  <2>2. consumed' \subseteq Payloads /\ logged' \in [Payloads -> 0 .. Len(tasks')] /\ HeldIsLogged'
    BY <2>1, OwnersStay DEF Spawned
  <2>3. /\ stack' \in Seq(CallRecord) /\ settled' \subseteq Spawned' \X Final
        /\ CallsSound' /\ SettledIsOver' /\ RunningIsCalled' /\ RunsCover'
    BY <1>2, StartRunKeeps
  <2> QED
    BY <2>1, <2>2, <2>3 DEF TaskInv, RuntimeTyped
<1> QED
  BY <1>1, <1>2 DEF Runs

\* The calls that execute and return touch no payload.
LEMMA StepsKeep ==
    ASSUME TaskInv, Execute \/ Return \/ RunEnds
    PROVE  TaskInv'
<1>1. /\ tasks' \in Seq(TaskRecord) /\ Len(tasks') = Len(tasks)
      /\ \A u \in Spawned : tasks'[u].held = tasks[u].held
      /\ stack' \in Seq(CallRecord) /\ settled' \subseteq Spawned' \X Final
      /\ CallsSound' /\ SettledIsOver' /\ RunningIsCalled' /\ RunsCover'
  <2>1. CASE Execute
    <3>1. PICK t \in Top.todo : Executes(t)
      BY <2>1 DEF Execute
    <3> QED
      BY <3>1, ExecuteKeeps
  <2>2. CASE Return \/ RunEnds
    BY <2>2, ReturnKeeps
  <2> QED
    BY <2>1, <2>2
<1>2. UNCHANGED <<consumed, ownerOf, logged>> /\ Len(tasks) \in Nat
  BY DEF Execute, Return, RunEnds, TaskInv, RuntimeTyped
<1>3. Spawned' = Spawned
  BY <1>1 DEF Spawned
<1>4. consumed' \subseteq Payloads /\ logged' \in [Payloads -> 0 .. Len(tasks')] /\ HeldIsLogged'
  BY <1>1, <1>2, <1>3, OwnersStay
<1> QED
  BY <1>1, <1>4 DEF TaskInv, RuntimeTyped

\* transfer_ownership: the payload is taken from the list of the task the map names.
LEMMA TransferKeeps ==
    ASSUME TaskInv, NEW t \in Ids, NEW p \in Payloads, Transfer(t, p)
    PROVE  TaskInv'
<1>1. /\ stack' = stack /\ stack \in Seq(CallRecord) /\ t \in Spawned /\ p \notin consumed
      /\ settled' = IF Len(stack) = 1 THEN settled \union FinishedPairs(tasks') ELSE settled
      /\ tasks \in Seq(TaskRecord) /\ Len(tasks) \in Nat /\ tasks' = Moved(t, p)
      /\ consumed' = consumed /\ consumed \subseteq Payloads
      /\ logged \in [Payloads -> 0 .. Len(tasks)]
      /\ logged' = [logged EXCEPT ![p] = t] /\ ownerOf' = [ownerOf EXCEPT ![p] = t] /\ ownerOf = logged
  BY DEF Transfer, ReplayedMove, Step, TaskInv, RuntimeTyped, HeldIsLogged
<1>2. ASSUME NEW u \in Spawned
      PROVE  /\ tasks'[u] \in TaskRecord /\ tasks'[u].state = tasks[u].state
             /\ tasks'[u].held = CASE u = t -> tasks[u].held \union {p}
                                   [] u # t /\ u = logged[p] -> tasks[u].held \ {p}
                                   [] OTHER -> tasks[u].held
  <2>1. tasks[u] \in TaskRecord
    BY <1>1 DEF Spawned
  <2>2. CASE u = t
    <3>1. tasks'[u] = [tasks[u] EXCEPT !.held = @ \union {p}]
      BY <1>1, <2>2 DEF Moved
    <3> QED
      BY <2>1, <2>2, <3>1 DEF TaskRecord
  <2>3. CASE u # t /\ u = logged[p]
    <3>1. tasks'[u] = [tasks[u] EXCEPT !.held = @ \ {p}]
      BY <1>1, <2>3 DEF Moved
    <3> QED
      BY <2>1, <2>3, <3>1 DEF TaskRecord
  <2>4. CASE u # t /\ u # logged[p]
    <3>1. tasks'[u] = tasks[u]
      BY <1>1, <2>4 DEF Moved
    <3> QED
      BY <2>1, <2>4, <3>1
  <2> QED
    BY <2>2, <2>3, <2>4
<1>3. DOMAIN tasks' = 1 .. Len(tasks)
  BY <1>1 DEF Moved, Spawned
<1>4. tasks' \in [1 .. Len(tasks) -> TaskRecord]
  <2>1. tasks' = [u \in Spawned |-> tasks'[u]]
    BY <1>1 DEF Moved
  <2> QED
    BY <1>2, <2>1 DEF Spawned
<1>5. tasks' \in Seq(TaskRecord) /\ Len(tasks') = Len(tasks)
  <2>1. PICK len \in Nat : len = Len(tasks)
    BY <1>1
  <2> QED
    BY <1>4, <2>1
<1>6. Spawned' = Spawned
  BY <1>5 DEF Spawned
<1>7. HeldIsLogged'
  <2>1. ASSUME NEW q \in Payloads \ consumed, NEW u \in Spawned
        PROVE  q \in tasks'[u].held <=> logged'[q] = u
    <3>1. q \in tasks[u].held <=> logged[q] = u
      BY DEF TaskInv, HeldIsLogged
    <3>2. CASE q = p
      <4>1. logged'[q] = t
        BY <1>1, <3>2
      <4>2. p \in tasks'[u].held <=> u = t
        <5>1. CASE u = t
          BY <1>2, <5>1
        <5>2. CASE u # t /\ u = logged[p]
          BY <1>2, <5>2
        <5>3. CASE u # t /\ u # logged[p]
          BY <1>2, <3>1, <3>2, <5>3
        <5> QED
          BY <5>1, <5>2, <5>3
      <4> QED
        BY <3>2, <4>1, <4>2
    <3>3. CASE q # p
      <4>1. logged'[q] = logged[q]
        BY <1>1, <3>3
      <4>2. q \in tasks'[u].held <=> q \in tasks[u].held
        <5>1. CASE u = t
          BY <1>2, <3>3, <5>1
        <5>2. CASE u # t /\ u = logged[p]
          BY <1>2, <3>3, <5>2
        <5>3. CASE u # t /\ u # logged[p]
          BY <1>2, <5>3
        <5> QED
          BY <5>1, <5>2, <5>3
      <4> QED
        BY <3>1, <4>1, <4>2
    <3> QED
      BY <3>2, <3>3
  <2>2. ownerOf' = logged'
    BY <1>1
  <2> QED
    BY <1>1, <1>6, <2>1, <2>2 DEF HeldIsLogged
<1>8. logged' \in [Payloads -> 0 .. Len(tasks')]
  BY <1>1, <1>5 DEF Spawned
<1>9. /\ settled' \subseteq Spawned' \X Final
      /\ CallsSound' /\ SettledIsOver' /\ RunningIsCalled' /\ RunsCover'
  <2>1. /\ Len(tasks') >= Len(tasks) /\ \A u \in Spawned : tasks'[u].state = tasks[u].state
        /\ \A u \in Spawned' \ Spawned : tasks'[u].state = "READY"
    <3>1. Len(tasks) \in Nat
      BY <1>1
    <3>2. Len(tasks') >= Len(tasks)
      BY <1>5, <3>1, NatOrder, Zenon
    <3> QED
      BY <1>2, <1>6, <3>2, Zenon
  <2>2. stack' = stack /\ settled' = IF Len(stack) = 1 THEN settled \union FinishedPairs(tasks') ELSE settled
    BY <1>1
  <2> QED
    BY <1>5, <2>1, <2>2, SameCallsKeep
<1> QED
  BY <1>1, <1>5, <1>7, <1>8, <1>9 DEF TaskInv, RuntimeTyped

\* release_ownership: whatever the task holds, the payload is consumed from then on.
LEMMA ReleaseKeeps ==
    ASSUME TaskInv, NEW t \in Ids, NEW p \in Payloads, Release(t, p)
    PROVE  TaskInv'
<1>1. /\ stack' = stack /\ stack \in Seq(CallRecord) /\ t \in Spawned
      /\ settled' = IF Len(stack) = 1 THEN settled \union FinishedPairs(tasks') ELSE settled
      /\ tasks \in Seq(TaskRecord) /\ Len(tasks) \in Nat
      /\ consumed' = consumed \union {p} /\ consumed \subseteq Payloads
      /\ logged \in [Payloads -> 0 .. Len(tasks)]
      /\ logged' = [logged EXCEPT ![p] = 0] /\ ownerOf' = [ownerOf EXCEPT ![p] = 0] /\ ownerOf = logged
  BY DEF Release, ReplayedConsume, Step, TaskInv, RuntimeTyped, HeldIsLogged
<1>2. /\ tasks' \in Seq(TaskRecord) /\ Len(tasks') = Len(tasks)
      /\ \A u \in Spawned : /\ tasks'[u].state = tasks[u].state
                            /\ tasks'[u].held = IF u = t THEN tasks[u].held \ {p} ELSE tasks[u].held
  <2> DEFINE new == [tasks[t] EXCEPT !.held = @ \ {p}]
  <2>1. tasks[t] \in TaskRecord
    BY <1>1 DEF Spawned
  <2>2. new \in TaskRecord /\ new.state = tasks[t].state /\ new.held = tasks[t].held \ {p}
    BY <2>1 DEF TaskRecord
  <2>3. tasks' = [tasks EXCEPT ![t] = new]
    BY DEF Release, Step
  <2> HIDE DEF new
  <2>4. tasks \in Seq(TaskRecord) /\ t \in 1 .. Len(tasks)
    BY <1>1 DEF Spawned
  <2>5. /\ tasks' \in Seq(TaskRecord) /\ Len(tasks') = Len(tasks)
        /\ \A u \in Spawned : tasks'[u] = IF u = t THEN new ELSE tasks[u]
    BY <2>2, <2>3, <2>4 DEF Spawned
  <2>6. ASSUME NEW u \in Spawned
        PROVE  /\ tasks'[u].state = tasks[u].state
               /\ tasks'[u].held = IF u = t THEN tasks[u].held \ {p} ELSE tasks[u].held
    BY <2>2, <2>5, Zenon
  <2> QED
    BY <2>5, <2>6, Zenon
<1>3. Spawned' = Spawned
  BY <1>2 DEF Spawned
<1>4. HeldIsLogged'
  <2>1. ASSUME NEW q \in Payloads \ consumed', NEW u \in Spawned
        PROVE  q \in tasks'[u].held <=> logged'[q] = u
    <3>1. q \in Payloads \ consumed /\ q # p
      BY <1>1
    <3>2. q \in tasks[u].held <=> logged[q] = u
      BY <3>1 DEF TaskInv, HeldIsLogged
    <3>3. logged'[q] = logged[q]
      BY <1>1, <3>1
    <3> QED
      BY <1>2, <3>1, <3>2, <3>3
  <2>2. ownerOf' = logged'
    BY <1>1
  <2> QED
    BY <1>3, <2>1, <2>2 DEF HeldIsLogged
<1>5. logged' \in [Payloads -> 0 .. Len(tasks')]
  BY <1>1, <1>2
<1>6. /\ settled' \subseteq Spawned' \X Final
      /\ CallsSound' /\ SettledIsOver' /\ RunningIsCalled' /\ RunsCover'
  <2>1. /\ Len(tasks') >= Len(tasks) /\ \A u \in Spawned : tasks'[u].state = tasks[u].state
        /\ \A u \in Spawned' \ Spawned : tasks'[u].state = "READY"
    <3>1. Len(tasks) \in Nat
      BY <1>1
    <3>2. Len(tasks') >= Len(tasks)
      BY <1>2, <3>1, NatOrder, Zenon
    <3> QED
      BY <1>2, <1>3, <3>2, Zenon
  <2>2. stack' = stack /\ settled' = IF Len(stack) = 1 THEN settled \union FinishedPairs(tasks') ELSE settled
    BY <1>1
  <2> QED
    BY <1>2, <2>1, <2>2, SameCallsKeep
<1> QED
  BY <1>1, <1>2, <1>4, <1>5, <1>6 DEF TaskInv, RuntimeTyped

\* Every step of the runtime, and of what it may have left alone.
LEMMA TaskStep == TaskInv /\ [TaskNext]_taskVars => TaskInv'
<1> SUFFICES ASSUME TaskInv, [TaskNext]_taskVars
             PROVE  TaskInv'
  OBVIOUS
<1>1. ASSUME NEW job \in Jobs, Spawn(job)
      PROVE  TaskInv'
  <2>1. job.prio \in Nat /\ job.overdue \in BOOLEAN /\ Len(tasks) + 1 \in Nat
    BY RuntimeAssumption DEF TaskInv, RuntimeTyped
  <2> QED
    BY <1>1, <2>1, AddedKeeps DEF Spawn
<1>2. ASSUME NEW t \in Ids, Cancel(t) \/ Await(t) \/ (\E u \in Ids : FirstValidCompletion(u, t))
      PROVE  TaskInv'
  BY <1>2, CancelKeeps, RunsKeeps DEF Await, Ids, FirstValidCompletion
<1>7. ASSUME NEW t \in Ids, Speculate(t)
      PROVE  TaskInv'
  <2>1. t \in Spawned /\ Added(tasks[t].prio + 1, FALSE, tasks[t].seq)
    BY <1>7 DEF Speculate
  <2>2. tasks[t] \in TaskRecord
    BY <2>1 DEF TaskInv, RuntimeTyped, Spawned
  <2>3. tasks[t].prio + 1 \in Nat /\ tasks[t].seq \in Nat
    BY <2>2 DEF TaskRecord
  <2> QED
    BY <2>1, <2>3, AddedKeeps
<1>3. CASE Run \/ Barrier
  BY <1>3, RunsKeeps DEF Run, Barrier
<1>4. CASE Execute \/ Return \/ RunEnds
  BY <1>4, StepsKeep
<1>5. ASSUME NEW t \in Ids, NEW p \in Payloads, Transfer(t, p) \/ Release(t, p)
      PROVE  TaskInv'
  BY <1>5, TransferKeeps, ReleaseKeeps
<1>6. CASE UNCHANGED taskVars
  BY <1>6 DEF taskVars, TaskInv, RuntimeTyped, CallsSound, SettledIsOver, RunningIsCalled, RunsCover,
              HeldIsLogged, Spawned, Executing
<1> QED
  BY <1>1, <1>2, <1>3, <1>4, <1>5, <1>6, <1>7 DEF TaskNext

\* The runtime's invariant (TaskRuntime in fabric.py).
THEOREM RuntimeIsSound == TaskSpec => []TaskInv
<1>1. TaskInit => TaskInv
  <2> SUFFICES ASSUME TaskInit
               PROVE  TaskInv
    OBVIOUS
  <2>1. Program \in CallRecord /\ Program.todo = {} /\ Program.upto = 0 /\ Program.kind = "task"
    BY DEF Program, CallRecord
  <2>2. /\ stack = <<Program>> /\ tasks = <<>> /\ Len(tasks) = 0 /\ Len(stack) = 1 /\ settled = {}
        /\ consumed = {} /\ ownerOf = [p \in Payloads |-> 0] /\ logged = [p \in Payloads |-> 0]
    BY DEF TaskInit
  <2>3. stack \in Seq(CallRecord) /\ tasks \in Seq(TaskRecord) /\ stack[1] = Program
    BY <2>1, <2>2
  <2>4. Spawned = {}
    BY <2>2 DEF Spawned
  <2>5. RuntimeTyped
    BY <2>2, <2>3 DEF RuntimeTyped
  <2>6. CallsSound
    BY <2>1, <2>2, <2>3 DEF CallsSound
  <2>7. SettledIsOver /\ RunningIsCalled /\ HeldIsLogged
    BY <2>2, <2>4 DEF SettledIsOver, RunningIsCalled, HeldIsLogged
  <2>8. RunsCover
    BY <2>1, <2>2, <2>3 DEF RunsCover
  <2> QED
    BY <2>5, <2>6, <2>7, <2>8 DEF TaskInv
<1> QED
  BY <1>1, TaskStep, PTL DEF TaskSpec

\* No two tasks ever hold one live payload, and a replay of the log finds the one that
\* does (transfer_ownership, release_ownership, EventLog.reconstruct).
THEOREM PayloadsAreOwnedOnce == TaskSpec => []OwnedOnce
<1>1. TaskInv => OwnedOnce
  <2> SUFFICES ASSUME TaskInv, NEW p \in Payloads \ consumed
               PROVE  {t \in Spawned : p \in tasks[t].held} = {logged[p]} \ {0}
    BY DEF OwnedOnce
  <2>1. logged[p] \in 0 .. Len(tasks) /\ Len(tasks) \in Nat
    BY DEF TaskInv, RuntimeTyped
  <2>2. \A t \in Spawned : p \in tasks[t].held <=> logged[p] = t
    BY DEF TaskInv, HeldIsLogged
  <2>3. 0 \notin Spawned /\ (logged[p] # 0 => logged[p] \in Spawned)
    BY <2>1 DEF Spawned
  <2> QED
    BY <2>2, <2>3
<1> QED
  BY <1>1, RuntimeIsSound, PTL

\* What finished between two calls stays as it is, and a call that returns leaves nothing
\* older unfinished (TaskRuntime.run, cancel, barrier, await_task).
THEOREM FinishedStaysFinished == TaskSpec => FinishedForGood
<1>1. TaskInv /\ TaskInv' /\ [TaskNext]_taskVars => [SettledStays' /\ RunFences]_taskVars
  <2> SUFFICES ASSUME TaskInv, TaskInv', TaskNext
               PROVE  SettledStays' /\ RunFences
    OBVIOUS
  <2>1. SettledStays'
    BY DEF TaskInv, SettledIsOver, SettledStays
  <2>2. ASSUME Top.kind # "task"
        PROVE  RunEnds \/ Execute
    <3>1. ~ MayCall
      BY <2>2 DEF MayCall
    <3> QED
      BY <2>2, <3>1 DEF TaskNext, Added, Spawn, Speculate, Cancel, FirstValidCompletion, Await, Run, Barrier, Runs, Return,
                            Transfer, Release
  <2>3. CASE RunEnds
    BY <2>1, <2>3, ReturnFences
  <2>4. CASE Execute
    <3>1. PICK t \in Top.todo : Executes(t)
      BY <2>4 DEF Execute
    <3>2. Len(stack') \in Nat /\ Len(stack) \in Nat /\ Len(stack') >= Len(stack)
      BY <3>1, ExecuteKeeps DEF TaskInv, RuntimeTyped
    <3>3. ~ (Len(stack') < Len(stack))
      BY <3>2, NatOrder, Zenon
    <3> QED
      BY <2>1, <3>3 DEF RunFences
  <2>5. CASE Top.kind = "task"
    BY <2>1, <2>5 DEF RunFences
  <2> QED
    BY <2>2, <2>3, <2>4, <2>5
<1> QED
  BY <1>1, RuntimeIsSound, PTL DEF TaskSpec, FinishedForGood

\* One owner, one end, and no early return, with replicas among the tasks (TaskRuntime,
\* StragglerEngine.speculate and first_valid_completion).
THEOREM RuntimeKeepsItsPromise == TaskSpec => TasksAreSafe
<1> QED
  BY PayloadsAreOwnedOnce, FinishedStaysFinished, PTL DEF TasksAreSafe

-----------------------------------------------------------------------------
(* The event log and the clocks.                                             *)

LogSpec == LogInit /\ [][LogNext]_logVars

LogEvent == [time : Nat, drew : BOOLEAN]
StampOf == [node : LogNodes, time : Nat, clock : [LogNodes -> Nat], past : SUBSET Nat]
Stamps == 1 .. Len(stamps)

LogTyped ==
    /\ events \in [LogNodes -> Seq(LogEvent)]
    /\ sealed \in [LogNodes -> BOOLEAN] /\ digest \in [LogNodes -> Nat \union {-1}]
    /\ doing \in [Appenders -> {"out", "tested"}] /\ early \in [Appenders -> Nat]
    /\ before \subseteq Appenders /\ lamport \in [LogNodes -> Nat]
    /\ vector \in [LogNodes -> [LogNodes -> Nat]] /\ stamps \in Seq(StampOf)

\* The clock has reached every time that an event drew.
TimesDrawn ==
    \A n \in LogNodes : \A i \in DOMAIN events[n] : events[n][i].drew => events[n][i].time <= lamport[n]

Pending(n) == {a \in Appenders : NodeOf[a] = n /\ doing[a] = "tested"}
Admitted(n) == {a \in before : NodeOf[a] = n}

\* A sealed log only waits for the appenders that had passed the test, and each of them
\* still has one event to add or has added it.
SealCounts ==
    \A n \in LogNodes :
        /\ digest[n] # -1 => sealed[n]
        /\ sealed[n] => Pending(n) \subseteq Admitted(n)
        /\ digest[n] # -1 =>
              Len(events[n]) - digest[n] + Cardinality(Pending(n)) <= Cardinality(Admitted(n))

\* Causes come before their effects, and are closed under causes; a node remembers.
PastsSound ==
    \A j \in Stamps :
        /\ \A k \in stamps[j].past : k \in 1 .. j - 1 /\ stamps[k].past \subseteq stamps[j].past
        /\ \A k \in 1 .. j - 1 : stamps[k].node = stamps[j].node => k \in stamps[j].past

\* A stamp knows of another one exactly when its clock has reached the other one's count.
CountsTell ==
    \A i, j \in Stamps :
        stamps[i].clock[stamps[i].node] <= stamps[j].clock[stamps[i].node]
        <=> i = j \/ i \in stamps[j].past

ClocksFollow ==
    \A j \in Stamps : \A k \in stamps[j].past :
        stamps[k].time < stamps[j].time /\ \A m \in LogNodes : stamps[k].clock[m] <= stamps[j].clock[m]

\* No clock is ahead of a node's own count, and a node's clock is that of its last stamp.
VectorsSound ==
    /\ \A i \in Stamps :
          /\ stamps[i].time <= lamport[stamps[i].node] /\ stamps[i].clock[stamps[i].node] >= 1
          /\ \A m \in LogNodes : stamps[i].clock[m] <= vector[m][m]
    /\ \A n \in LogNodes :
          \/ (\A k \in Stamps : stamps[k].node # n) /\ \A m \in LogNodes : vector[n][m] = 0
          \/ \E l \in Stamps : /\ stamps[l].node = n /\ vector[n] = stamps[l].clock
                               /\ \A k \in Stamps : stamps[k].node = n => k <= l

ClocksInv == PastsSound /\ CountsTell /\ ClocksFollow /\ VectorsSound

LogInv == LogTyped /\ TimesDrawn /\ TimesRise /\ SealCounts /\ ClocksInv

LEMMA StampsTyped ==
    ASSUME stamps \in Seq(StampOf)
    PROVE  /\ Len(stamps) \in Nat
           /\ \A i \in Stamps : /\ stamps[i].node \in LogNodes /\ stamps[i].time \in Nat
                                /\ stamps[i].clock \in [LogNodes -> Nat]
                                /\ \A m \in LogNodes : stamps[i].clock[m] \in Nat
<1>1. Len(stamps) \in Nat /\ \A i \in Stamps : stamps[i] \in StampOf
  BY DEF Stamps
<1> QED
  BY <1>1 DEF StampOf

\* What a node knows is what its last stamp knows.
LEMMA OwnPast ==
    ASSUME LogTyped, ClocksInv, NEW n \in LogNodes, NEW l \in Stamps, stamps[l].node = n,
           \A k \in Stamps : stamps[k].node = n => k <= l
    PROVE  \A c \in Stamps : stamps[c].node = n =>
               (c = l \/ c \in stamps[l].past) /\ stamps[c].past \subseteq stamps[l].past
<1> SUFFICES ASSUME NEW c \in Stamps, stamps[c].node = n, c # l
             PROVE  c \in stamps[l].past /\ stamps[c].past \subseteq stamps[l].past
  OBVIOUS
<1>1. c \in 1 .. l - 1
  BY StampsTyped DEF Stamps, LogTyped
<1>2. c \in stamps[l].past
  BY <1>1 DEF ClocksInv, PastsSound
<1> QED
  BY <1>2 DEF ClocksInv, PastsSound

\* The stamp that a step adds as the j-th, by node n, with the stamps in C as causes.
Adds(n, C, j) ==
    /\ j = Len(stamps) + 1 /\ stamps' \in Seq(StampOf) /\ Len(stamps') = j
    /\ \A i \in Stamps : stamps'[i] = stamps[i]
    /\ stamps'[j].node = n /\ stamps'[j].time = lamport'[n] /\ stamps'[j].clock = vector'[n]
    /\ stamps'[j].past = UNION {{c} \union stamps[c].past : c \in C}

\* The clocks of n pass all that the stamps in C tell, and no other clock moves.
Learns(n, C) ==
    /\ vector' \in [LogNodes -> [LogNodes -> Nat]] /\ lamport' \in [LogNodes -> Nat]
    /\ \A q \in LogNodes : q # n => vector'[q] = vector[q] /\ lamport'[q] = lamport[q]
    /\ lamport'[n] > lamport[n] /\ \A c \in C : lamport'[n] > stamps[c].time
    /\ vector'[n][n] = vector[n][n] + 1
    /\ \A m \in LogNodes : m # n =>
          /\ vector'[n][m] >= vector[n][m]
          /\ \A c \in C : stamps[c].node # n => vector'[n][m] >= stamps[c].clock[m]
          /\ \/ vector'[n][m] = vector[n][m]
             \/ \E c \in C : vector'[n][m] = stamps[c].clock[m]

\* A set of stamps with those of n among them.
Causes(n, C) == C \subseteq Stamps /\ \A k \in Stamps : stamps[k].node = n => k \in C

\* A node stamps: it knows all that the stamps in C know, its own earlier ones among them.
LEMMA StampKeeps ==
    ASSUME LogTyped, ClocksInv, NEW n \in LogNodes, NEW C, NEW j,
           Causes(n, C), Adds(n, C, j), Learns(n, C)
    PROVE  ClocksInv'
<1> USE DEF Causes, Adds, Learns
<1> DEFINE P == stamps'[j].past
           V(m) == vector'[n][m]
<1>1. /\ Len(stamps) \in Nat /\ j \in Nat /\ Stamps' = 1 .. j /\ Stamps = 1 .. j - 1
      /\ \A i \in Stamps : /\ i \in Nat /\ i < j /\ stamps[i].node \in LogNodes /\ stamps[i].time \in Nat
                           /\ \A m \in LogNodes : stamps[i].clock[m] \in Nat
      /\ \A i \in Stamps' : i \in Stamps \/ i = j
      /\ j \notin Stamps
  <2>1. Len(stamps) \in Nat /\ j \in Nat /\ Stamps' = 1 .. j /\ Stamps = 1 .. j - 1
    BY StampsTyped DEF LogTyped, Stamps
  <2>2. /\ \A i \in 1 .. j - 1 : i \in Nat /\ i < j
        /\ \A i \in 1 .. j : i \in 1 .. j - 1 \/ i = j
        /\ j \notin 1 .. j - 1
    BY <2>1
  <2> QED
    BY <2>1, <2>2, StampsTyped DEF LogTyped
<1>2. \A m \in LogNodes : V(m) \in Nat /\ vector[n][m] \in Nat /\ vector[m][m] \in Nat /\ vector'[m][m] \in Nat
  BY DEF LogTyped
<1>3. /\ \A k : k \in P <=> \E c \in C : k = c \/ k \in stamps[c].past
      /\ \A c \in C : \A k \in stamps[c].past : k \in Stamps
  <2>1. \A k : k \in P <=> \E c \in C : k = c \/ k \in stamps[c].past
    OBVIOUS
  <2>2. \A c \in C : \A k \in stamps[c].past : k \in Stamps
    <3> SUFFICES ASSUME NEW c \in C, NEW k \in stamps[c].past
                 PROVE  k \in Stamps
      OBVIOUS
    <3>1. k \in 1 .. c - 1 /\ c \in Stamps
      BY DEF ClocksInv, PastsSound
    <3> QED
      BY <1>1, <3>1
  <2> QED
    BY <2>1, <2>2
<1> HIDE DEF P
<1>4. P \subseteq Stamps
  BY <1>3
<1>5. \/ (\A k \in Stamps : stamps[k].node # n) /\ \A m \in LogNodes : vector[n][m] = 0
      \/ \E l \in Stamps : /\ stamps[l].node = n /\ vector[n] = stamps[l].clock
                           /\ \A k \in Stamps : stamps[k].node = n => k <= l
  BY DEF ClocksInv, VectorsSound
<1>6. \A i \in Stamps : \A m \in LogNodes : stamps[i].clock[m] <= vector[m][m]
  BY DEF ClocksInv, VectorsSound
<1>7. ASSUME NEW c \in C, NEW m \in LogNodes
      PROVE  stamps[c].clock[m] <= V(m)
  <2>1. stamps[c].clock[m] \in Nat /\ c \in Stamps
    BY <1>1
  <2>2. V(m) >= vector[n][m]
    BY <1>2
  <2>3. CASE stamps[c].node = n
    <3>1. PICK l \in Stamps : /\ stamps[l].node = n /\ vector[n] = stamps[l].clock
                              /\ \A k \in Stamps : stamps[k].node = n => k <= l
      BY <1>5, <2>1, <2>3
    <3>2. c = l \/ c \in stamps[l].past
      BY <2>1, <2>3, <3>1, OwnPast
    <3>3. stamps[c].clock[m] <= vector[n][m]
      <4>1. CASE c = l
        BY <1>2, <3>1, <4>1
      <4>2. CASE c \in stamps[l].past
        BY <3>1, <4>2 DEF ClocksInv, ClocksFollow
      <4> QED
        BY <3>2, <4>1, <4>2
    <3> QED
      BY <1>2, <2>1, <2>2, <3>3
  <2>4. CASE stamps[c].node # n
    <3>1. CASE m # n
      BY <1>2, <2>1, <2>4, <3>1
    <3>2. CASE m = n
      <4>1. stamps[c].clock[m] <= vector[n][n] /\ V(m) = vector[n][n] + 1
        BY <1>6, <2>1, <3>2
      <4> QED
        BY <1>2, <2>1, <4>1
    <3> QED
      BY <3>1, <3>2
  <2> QED
    BY <2>3, <2>4
<1>8. ASSUME NEW k \in P
      PROVE  stamps[k].time < lamport'[n] /\ \A m \in LogNodes : stamps[k].clock[m] <= V(m)
  <2>1. PICK c \in C : k = c \/ k \in stamps[c].past
    BY <1>3
  <2>2. CASE k = c
    BY <1>7, <2>2
  <2>3. CASE k \in stamps[c].past
    <3>1. stamps[k].time < stamps[c].time /\ \A m \in LogNodes : stamps[k].clock[m] <= stamps[c].clock[m]
      BY <2>3 DEF ClocksInv, ClocksFollow
    <3>2. k \in Stamps /\ c \in Stamps /\ stamps[k].time \in Nat /\ stamps[c].time \in Nat
      BY <1>1, <1>4
    <3>3. lamport'[n] > stamps[c].time /\ lamport'[n] \in Nat
      OBVIOUS
    <3>4. \A m \in LogNodes : stamps[k].clock[m] <= V(m)
      <4> TAKE m \in LogNodes
      <4>1. stamps[k].clock[m] \in Nat /\ stamps[c].clock[m] \in Nat /\ V(m) \in Nat
        BY <1>1, <1>2, <3>2
      <4> QED
        BY <1>7, <3>1, <4>1
    <3> QED
      BY <3>1, <3>2, <3>3, <3>4
  <2> QED
    BY <2>1, <2>2, <2>3
<1>9. ASSUME NEW k \in Stamps, stamps[k].clock[stamps[k].node] <= V(stamps[k].node)
      PROVE  k \in P
  <2> DEFINE m == stamps[k].node
  <2>1. m \in LogNodes /\ stamps[k].clock[m] \in Nat /\ V(m) \in Nat
    BY <1>1, <1>2
  <2>2. CASE m = n
    BY <1>3, <2>2
  <2>3. CASE m # n /\ vector'[n][m] = vector[n][m]
    <3>1. CASE \A q \in LogNodes : vector[n][q] = 0
      <4>1. stamps[k].clock[m] >= 1
        BY DEF ClocksInv, VectorsSound
      <4>2. V(m) = 0
        BY <2>1, <2>3, <3>1
      <4> QED
        BY <1>9, <2>1, <4>1, <4>2
    <3>2. CASE \E l \in Stamps : /\ stamps[l].node = n /\ vector[n] = stamps[l].clock
                                 /\ \A i \in Stamps : stamps[i].node = n => i <= l
      <4>1. PICK l \in Stamps : stamps[l].node = n /\ vector[n] = stamps[l].clock
        BY <3>2
      <4>2. stamps[k].clock[m] <= stamps[l].clock[m] /\ l \in C
        BY <1>9, <2>3, <4>1
      <4>3. k = l \/ k \in stamps[l].past
        BY <4>2 DEF ClocksInv, CountsTell
      <4> QED
        BY <1>3, <4>2, <4>3
    <3> QED
      BY <1>5, <3>1, <3>2
  <2>4. CASE m # n /\ \E c \in C : vector'[n][m] = stamps[c].clock[m]
    <3>1. PICK c \in C : vector'[n][m] = stamps[c].clock[m]
      BY <2>4
    <3>2. stamps[k].clock[m] <= stamps[c].clock[m] /\ c \in Stamps
      BY <1>9, <3>1
    <3>3. k = c \/ k \in stamps[c].past
      BY <3>2 DEF ClocksInv, CountsTell
    <3> QED
      BY <1>3, <3>3
  <2> QED
    BY <2>1, <2>2, <2>3, <2>4
<1>10. ASSUME NEW i \in Stamps
       PROVE  ~ (V(n) <= stamps[i].clock[n])
  <2>1. stamps[i].clock[n] <= vector[n][n] /\ V(n) = vector[n][n] + 1
    BY <1>6
  <2>2. stamps[i].clock[n] \in Nat /\ vector[n][n] \in Nat
    BY <1>1, <1>2
  <2> QED
    BY <2>1, <2>2
<1>11. PastsSound'
  <2> SUFFICES ASSUME NEW i \in Stamps'
               PROVE  /\ \A k \in stamps'[i].past : k \in 1 .. i - 1 /\ stamps'[k].past \subseteq stamps'[i].past
                      /\ \A k \in 1 .. i - 1 : stamps'[k].node = stamps'[i].node => k \in stamps'[i].past
    BY DEF PastsSound
  <2>1. CASE i \in Stamps
    <3>1. /\ \A k \in stamps[i].past : k \in 1 .. i - 1 /\ stamps[k].past \subseteq stamps[i].past
          /\ \A k \in 1 .. i - 1 : stamps[k].node = stamps[i].node => k \in stamps[i].past
      BY <2>1 DEF ClocksInv, PastsSound
    <3>2. \A k \in 1 .. i - 1 : k \in Stamps
      BY <1>1, <2>1
    <3> QED
      BY <2>1, <3>1, <3>2
  <2>2. CASE i = j
    <3>1. ASSUME NEW k \in P
          PROVE  stamps'[k].past \subseteq P
      <4>1. k \in Stamps /\ stamps'[k] = stamps[k]
        BY <1>4
      <4>2. PICK c \in C : k = c \/ k \in stamps[c].past
        BY <1>3
      <4>3. stamps[k].past \subseteq stamps[c].past
        BY <4>2 DEF ClocksInv, PastsSound
      <4> QED
        BY <1>3, <4>1, <4>3
    <3>2. ASSUME NEW k \in Stamps, stamps'[k].node = n
          PROVE  k \in P
      BY <1>3, <3>2
    <3> QED
      BY <1>1, <1>4, <2>2, <3>1, <3>2 DEF P
  <2> QED
    BY <1>1, <2>1, <2>2
<1>12. CountsTell'
  <2> SUFFICES ASSUME NEW i \in Stamps', NEW k \in Stamps'
               PROVE  stamps'[i].clock[stamps'[i].node] <= stamps'[k].clock[stamps'[i].node]
                      <=> i = k \/ i \in stamps'[k].past
    BY DEF CountsTell
  <2>1. CASE i \in Stamps /\ k \in Stamps
    <3>1. stamps'[i] = stamps[i] /\ stamps'[k] = stamps[k]
      BY <2>1
    <3>2. stamps[i].clock[stamps[i].node] <= stamps[k].clock[stamps[i].node]
          <=> i = k \/ i \in stamps[k].past
      BY <2>1 DEF ClocksInv, CountsTell
    <3> QED
      BY <3>1, <3>2
  <2>2. CASE i \in Stamps /\ k = j
    <3>1. i # k /\ stamps'[i] = stamps[i] /\ stamps[i].node \in LogNodes
      BY <1>1, <2>2
    <3>2. i \in P <=> stamps[i].clock[stamps[i].node] <= V(stamps[i].node)
      BY <1>8, <1>9, <2>2, <3>1
    <3> QED
      BY <2>2, <3>1, <3>2 DEF P
  <2>3. CASE i = j /\ k \in Stamps
    <3>1. i # k /\ stamps'[k] = stamps[k] /\ i \notin stamps[k].past
      <4>1. \A x \in stamps[k].past : x \in 1 .. k - 1
        BY <2>3 DEF ClocksInv, PastsSound
      <4>2. j \notin 1 .. k - 1
        BY <1>1, <2>3
      <4> QED
        BY <1>1, <2>3, <4>1, <4>2
    <3>2. ~ (V(n) <= stamps[k].clock[n])
      BY <1>10, <2>3
    <3> QED
      BY <2>3, <3>1, <3>2
  <2>4. CASE i = j /\ k = j
    <3>1. V(n) <= V(n)
      BY <1>2
    <3> QED
      BY <2>4, <3>1
  <2> QED
    BY <1>1, <2>1, <2>2, <2>3, <2>4
<1>13. ClocksFollow'
  <2> SUFFICES ASSUME NEW i \in Stamps', NEW k \in stamps'[i].past
               PROVE  /\ stamps'[k].time < stamps'[i].time
                      /\ \A m \in LogNodes : stamps'[k].clock[m] <= stamps'[i].clock[m]
    BY DEF ClocksFollow
  <2>1. CASE i \in Stamps
    <3>1. k \in 1 .. i - 1 /\ k \in stamps[i].past
      BY <2>1 DEF ClocksInv, PastsSound
    <3>2. k \in Stamps
      BY <1>1, <2>1, <3>1
    <3> QED
      BY <2>1, <3>1, <3>2 DEF ClocksInv, ClocksFollow
  <2>2. CASE i = j
    <3>1. k \in P /\ k \in Stamps
      BY <1>4, <2>2 DEF P
    <3> QED
      BY <1>8, <2>2, <3>1
  <2> QED
    BY <1>1, <2>1, <2>2
<1>14. VectorsSound'
  <2>1. ASSUME NEW i \in Stamps'
        PROVE  /\ stamps'[i].time <= lamport'[stamps'[i].node]
               /\ stamps'[i].clock[stamps'[i].node] >= 1
               /\ \A m \in LogNodes : stamps'[i].clock[m] <= vector'[m][m]
    <3>1. CASE i \in Stamps
      <4>1. /\ stamps[i].time <= lamport[stamps[i].node] /\ stamps[i].clock[stamps[i].node] >= 1
            /\ stamps[i].node \in LogNodes /\ stamps[i].time \in Nat
        BY <1>1, <3>1 DEF ClocksInv, VectorsSound
      <4>2. \A q \in LogNodes : lamport'[q] \in Nat /\ lamport[q] \in Nat /\ lamport'[q] >= lamport[q]
        <5> TAKE q \in LogNodes
        <5>1. lamport'[q] \in Nat /\ lamport[q] \in Nat
          BY DEF LogTyped
        <5>2. lamport'[q] = lamport[q] \/ lamport'[q] > lamport[q]
          OBVIOUS
        <5> HIDE DEF Adds, Learns, Causes
        <5> QED
          BY <5>1, <5>2
      <4>3. stamps[i].time <= lamport'[stamps[i].node]
        BY <4>1, <4>2
      <4>4. ASSUME NEW m \in LogNodes
            PROVE  stamps[i].clock[m] <= vector'[m][m]
        <5>1. stamps[i].clock[m] <= vector[m][m] /\ stamps[i].clock[m] \in Nat /\ vector[m][m] \in Nat
          BY <1>1, <1>2, <1>6, <3>1
        <5>2. vector'[m][m] = vector[m][m] \/ vector'[m][m] = vector[m][m] + 1
          OBVIOUS
        <5> QED
          BY <5>1, <5>2
      <4> QED
        BY <3>1, <4>1, <4>3, <4>4
    <3>2. CASE i = j
      <4>1. V(n) = vector[n][n] + 1 /\ V(n) \in Nat /\ vector[n][n] \in Nat /\ lamport'[n] \in Nat
        BY <1>2
      <4>2. ASSUME NEW m \in LogNodes, m # n
            PROVE  V(m) <= vector'[m][m]
        <5>1. vector'[m][m] = vector[m][m] /\ vector[m][m] \in Nat /\ V(m) \in Nat
          BY <1>2, <4>2
        <5>2. CASE \E c \in C : V(m) = stamps[c].clock[m]
          BY <1>6, <5>1, <5>2
        <5>3. CASE V(m) = vector[n][m]
          <6>1. CASE vector[n][m] = 0
            BY <5>1, <5>3, <6>1
          <6>2. CASE \E l \in Stamps : vector[n] = stamps[l].clock
            BY <1>6, <5>1, <5>3, <6>2
          <6> QED
            BY <1>5, <6>1, <6>2
        <5> QED
          BY <4>2, <5>2, <5>3
      <4>3. \A m \in LogNodes : V(m) <= vector'[m][m]
        BY <4>1, <4>2
      <4>4. lamport'[n] <= lamport'[n] /\ V(n) >= 1
        BY <4>1
      <4> QED
        BY <3>2, <4>3, <4>4
    <3> QED
      BY <1>1, <3>1, <3>2
  <2>2. ASSUME NEW q \in LogNodes
        PROVE  \/ (\A k \in Stamps' : stamps'[k].node # q) /\ \A m \in LogNodes : vector'[q][m] = 0
               \/ \E l \in Stamps' : /\ stamps'[l].node = q /\ vector'[q] = stamps'[l].clock
                                     /\ \A k \in Stamps' : stamps'[k].node = q => k <= l
    <3>1. CASE q = n
      <4>1. j \in Stamps' /\ \A k \in Stamps' : k <= j
        BY <1>1
      <4> QED
        BY <3>1, <4>1
    <3>2. CASE q # n
      <4>1. CASE (\A k \in Stamps : stamps[k].node # q) /\ \A m \in LogNodes : vector[q][m] = 0
        BY <1>1, <3>2, <4>1
      <4>2. CASE \E l \in Stamps : /\ stamps[l].node = q /\ vector[q] = stamps[l].clock
                                   /\ \A k \in Stamps : stamps[k].node = q => k <= l
        <5>1. PICK l \in Stamps : /\ stamps[l].node = q /\ vector[q] = stamps[l].clock
                                  /\ \A k \in Stamps : stamps[k].node = q => k <= l
          BY <4>2
        <5>2. l \in Stamps' /\ stamps'[l] = stamps[l]
          BY <1>1, <5>1
        <5>3. \A k \in Stamps' : stamps'[k].node = q => k <= l
          BY <1>1, <3>2, <5>1
        <5> QED
          BY <3>2, <5>1, <5>2, <5>3
      <4> QED
        BY <4>1, <4>2 DEF ClocksInv, VectorsSound
    <3> QED
      BY <3>1, <3>2
  <2> QED
    BY <2>1, <2>2 DEF VectorsSound
<1> QED
  BY <1>11, <1>12, <1>13, <1>14 DEF ClocksInv

\* Steps that stamp nothing: a clock that only ticks keeps what the stamps tell.
LEMMA ClocksStay ==
    ASSUME LogTyped, ClocksInv, UNCHANGED <<vector, stamps>>, lamport' \in [LogNodes -> Nat],
           \A n \in LogNodes : lamport'[n] >= lamport[n]
    PROVE  ClocksInv'
<1>1. \A i \in Stamps : stamps[i].node \in LogNodes /\ stamps[i].time \in Nat
  BY StampsTyped DEF LogTyped
<1>2. PastsSound' /\ CountsTell' /\ ClocksFollow'
  BY DEF ClocksInv, PastsSound, CountsTell, ClocksFollow, Stamps
<1>3. ASSUME NEW i \in Stamps
      PROVE  stamps[i].time <= lamport'[stamps[i].node]
  <2>1. stamps[i].time <= lamport[stamps[i].node]
    BY DEF ClocksInv, VectorsSound
  <2>2. \A q \in LogNodes : lamport'[q] \in Nat /\ lamport[q] \in Nat
    BY DEF LogTyped
  <2> QED
    BY <1>1, <2>1, <2>2
<1>4. VectorsSound'
  BY <1>3 DEF ClocksInv, VectorsSound, Stamps
<1> QED
  BY <1>2, <1>4 DEF ClocksInv

\* A tick of the clock of a node.
LEMMA TickIs ==
    ASSUME LogTyped, NEW n \in LogNodes, Ticked(n)
    PROVE  /\ lamport' \in [LogNodes -> Nat] /\ lamport'[n] = lamport[n] + 1
           /\ \A q \in LogNodes : q # n => lamport'[q] = lamport[q]
           /\ \A q \in LogNodes : lamport'[q] >= lamport[q]
<1>1. /\ lamport' = [lamport EXCEPT ![n] = @ + 1] /\ lamport \in [LogNodes -> Nat]
      /\ \A q \in LogNodes : lamport[q] \in Nat
  BY DEF Ticked, LogTyped
<1>2. /\ lamport' \in [LogNodes -> Nat] /\ lamport'[n] = lamport[n] + 1
      /\ \A q \in LogNodes : q # n => lamport'[q] = lamport[q]
  BY <1>1
<1>3. \A q \in LogNodes : lamport'[q] >= lamport[q]
  <2> TAKE q \in LogNodes
  <2> QED
    BY <1>1, <1>2
<1> QED
  BY <1>2, <1>3

\* The events and the seal are left alone.
LEMMA EventsStay ==
    ASSUME LogInv, UNCHANGED <<events, sealed, digest, doing, before>>,
           \A n \in LogNodes : lamport'[n] >= lamport[n] /\ lamport'[n] \in Nat
    PROVE  TimesDrawn' /\ TimesRise' /\ SealCounts'
<1>1. SealCounts' /\ TimesRise'
  BY DEF LogInv, SealCounts, TimesRise, Pending, Admitted
<1>2. TimesDrawn'
  <2> SUFFICES ASSUME NEW n \in LogNodes, NEW i \in DOMAIN events[n], events[n][i].drew
               PROVE  events[n][i].time <= lamport'[n]
    BY DEF TimesDrawn
  <2>1. events[n][i].time <= lamport[n]
    BY DEF LogInv, TimesDrawn
  <2>2. events[n] \in Seq(LogEvent) /\ lamport[n] \in Nat
    BY DEF LogInv, LogTyped
  <2>3. events[n][i] \in LogEvent
    BY <2>2
  <2>4. events[n][i].time \in Nat
    BY <2>3 DEF LogEvent
  <2> QED
    BY <2>1, <2>2, <2>4
<1> QED
  BY <1>1, <1>2

LEMMA DrawEarlyKeeps ==
    ASSUME LogInv, NEW a \in Appenders, DrawEarly(a)
    PROVE  LogInv'
<1>1. NodeOf[a] \in LogNodes /\ LogTyped
  BY EventLogAssumption DEF LogNodes, LogInv
<1>2. /\ lamport' \in [LogNodes -> Nat] /\ lamport'[NodeOf[a]] \in Nat
      /\ \A q \in LogNodes : lamport'[q] >= lamport[q] /\ lamport'[q] \in Nat
  BY <1>1, TickIs DEF DrawEarly
<1>3. TimesDrawn' /\ TimesRise' /\ SealCounts'
  BY <1>2, EventsStay DEF DrawEarly
<1>4. ClocksInv'
  BY <1>1, <1>2, ClocksStay DEF DrawEarly, LogInv
<1>5. LogTyped'
  BY <1>1, <1>2 DEF DrawEarly, LogTyped
<1> QED
  BY <1>3, <1>4, <1>5 DEF LogInv

LEMMA RefusedKeeps ==
    ASSUME LogInv, NEW a \in Appenders, RefusedAppend(a)
    PROVE  LogInv'
<1>1. LogTyped
  BY DEF LogInv
<1>2. lamport' \in [LogNodes -> Nat] /\ \A q \in LogNodes : lamport'[q] >= lamport[q] /\ lamport'[q] \in Nat
  <2>1. lamport' = lamport /\ \A q \in LogNodes : lamport[q] \in Nat
    BY <1>1 DEF RefusedAppend, LogTyped
  <2>2. \A x \in Nat : x >= x
    OBVIOUS
  <2> QED
    BY <1>1, <2>1, <2>2 DEF LogTyped
<1>3. TimesDrawn' /\ TimesRise' /\ SealCounts'
  BY <1>2, EventsStay DEF RefusedAppend
<1>4. ClocksInv'
  BY <1>1, <1>2, ClocksStay DEF RefusedAppend, LogInv
<1>5. LogTyped'
  BY <1>1, <1>2 DEF RefusedAppend, LogTyped
<1> QED
  BY <1>3, <1>4, <1>5 DEF LogInv

\* The pending and the admitted appenders of a log can be counted.
LEMMA AppendersCount ==
    ASSUME LogTyped, NEW n
    PROVE  /\ IsFiniteSet(Pending(n)) /\ Cardinality(Pending(n)) \in Nat
           /\ IsFiniteSet(Admitted(n)) /\ Cardinality(Admitted(n)) \in Nat
<1>1. IsFiniteSet(Appenders) /\ Pending(n) \subseteq Appenders /\ Admitted(n) \subseteq Appenders
  BY EventLogAssumption DEF Pending, Admitted, LogTyped
<1> QED
  BY <1>1, FS_Subset, FS_CardinalityType

LEMMA TestSealKeeps ==
    ASSUME LogInv, NEW a \in Appenders, TestSeal(a)
    PROVE  LogInv'
<1>1. LogTyped /\ NodeOf[a] \in LogNodes /\ ~ sealed[NodeOf[a]]
  BY EventLogAssumption DEF TestSeal, Open, LogNodes, LogInv
<1>2. /\ UNCHANGED <<events, sealed, digest, early, before, lamport, vector, stamps>>
      /\ doing' = [doing EXCEPT ![a] = "tested"]
  BY DEF TestSeal
<1>3. TimesDrawn' /\ TimesRise'
  BY <1>2 DEF LogInv, TimesDrawn, TimesRise
<1>4. SealCounts'
  <2> SUFFICES ASSUME NEW n \in LogNodes, sealed[n] \/ digest[n] # -1
               PROVE  /\ sealed[n] /\ Pending(n)' = Pending(n) /\ Admitted(n)' = Admitted(n)
    BY <1>2 DEF SealCounts, LogInv
  <2>1. sealed[n]
    BY DEF LogInv, SealCounts
  <2>2. NodeOf[a] # n
    BY <1>1, <2>1
  <2>3. Pending(n)' = Pending(n)
    BY <1>1, <1>2, <2>2 DEF Pending, LogTyped
  <2> QED
    BY <1>2, <2>1, <2>3 DEF Admitted
<1>5. ClocksInv'
  <2>1. lamport' \in [LogNodes -> Nat] /\ \A q \in LogNodes : lamport'[q] >= lamport[q]
    BY <1>1, <1>2 DEF LogTyped
  <2> QED
    BY <1>1, <1>2, <2>1, ClocksStay DEF LogInv
<1>6. LogTyped'
  BY <1>1, <1>2 DEF LogTyped
<1> QED
  BY <1>3, <1>4, <1>5, <1>6 DEF LogInv

\* One event more in a log: its own time, if it drew one, is later than all the others.
LEMMA AppendEventKeeps ==
    ASSUME LogInv, NEW a \in Appenders, AppendEvent(a)
    PROVE  LogInv'
<1> DEFINE n == NodeOf[a]
<1>1. LogTyped /\ n \in LogNodes /\ doing[a] = "tested" /\ events[n] \in Seq(LogEvent)
  BY EventLogAssumption DEF AppendEvent, LogNodes, LogInv, LogTyped
<1>2. /\ UNCHANGED <<sealed, digest, before, vector, stamps>>
      /\ doing' = [doing EXCEPT ![a] = "out"]
  BY DEF AppendEvent
<1>3. PICK e \in LogEvent :
         /\ events' = [events EXCEPT ![n] = Append(@, e)]
         /\ lamport' \in [LogNodes -> Nat] /\ early' \in [Appenders -> Nat]
         /\ \A q \in LogNodes : lamport'[q] >= lamport[q]
         /\ e.drew => e.time = lamport[n] + 1 /\ lamport'[n] = lamport[n] + 1
  <2>1. CASE early[a] > 0
    <3> DEFINE e == [time |-> early[a], drew |-> FALSE]
    <3>1. e \in LogEvent /\ ~ e.drew
      BY <1>1 DEF LogEvent, LogTyped
    <3>2. /\ events' = [events EXCEPT ![n] = Append(@, e)] /\ lamport' = lamport
          /\ early' = [early EXCEPT ![a] = 0]
      BY <2>1 DEF AppendEvent
    <3>3. /\ lamport' \in [LogNodes -> Nat] /\ early' \in [Appenders -> Nat]
          /\ \A q \in LogNodes : lamport'[q] >= lamport[q]
      BY <1>1, <3>2 DEF LogTyped
    <3> HIDE DEF e
    <3> QED
      BY <3>1, <3>2, <3>3
  <2>2. CASE ~ (early[a] > 0)
    <3> DEFINE e == [time |-> lamport'[n], drew |-> TRUE]
    <3>1. Ticked(n) /\ events' = [events EXCEPT ![n] = Append(@, e)] /\ early' = early
      BY <2>2 DEF AppendEvent
    <3>2. /\ lamport' \in [LogNodes -> Nat] /\ lamport'[n] = lamport[n] + 1
          /\ \A q \in LogNodes : lamport'[q] >= lamport[q]
      BY <1>1, <3>1, TickIs
    <3>3. e \in LogEvent /\ e.time = lamport[n] + 1 /\ early' \in [Appenders -> Nat]
      BY <1>1, <3>1, <3>2 DEF LogEvent, LogTyped
    <3> HIDE DEF e
    <3> QED
      BY <3>1, <3>2, <3>3
  <2> QED
    BY <2>1, <2>2
<1> DEFINE log == events[n]
           size == Len(log)
<1>4. /\ events'[n] \in Seq(LogEvent) /\ Len(events'[n]) = size + 1 /\ size \in Nat
      /\ \A i \in 1 .. size : events'[n][i] = log[i] /\ log[i] \in LogEvent
      /\ events'[n][size + 1] = e
      /\ DOMAIN events'[n] = 1 .. size + 1 /\ DOMAIN log = 1 .. size
      /\ \A q \in LogNodes : q # n => events'[q] = events[q]
  <2>1. /\ events'[n] = Append(log, e) /\ log \in Seq(LogEvent)
        /\ \A q \in LogNodes : q # n => events'[q] = events[q]
    BY <1>1, <1>3 DEF LogTyped
  <2> HIDE DEF log
  <2> QED
    BY <2>1
<1>5. LogTyped'
  <2>1. \A q \in LogNodes : events'[q] \in Seq(LogEvent)
    BY <1>1, <1>4 DEF LogTyped
  <2>2. events' \in [LogNodes -> Seq(LogEvent)]
    BY <1>1, <1>3, <2>1 DEF LogTyped
  <2> QED
    BY <1>1, <1>2, <1>3, <2>2 DEF LogTyped
<1>6. ClocksInv'
  BY <1>1, <1>2, <1>3, ClocksStay DEF LogInv
<1>7. \A q \in LogNodes : lamport[q] \in Nat /\ lamport'[q] \in Nat
  BY <1>1, <1>3 DEF LogTyped
<1> HIDE DEF size
<1>8. \A i \in 1 .. size : log[i].drew => log[i].time <= lamport[n] /\ log[i].time \in Nat
  BY <1>1, <1>4 DEF LogInv, TimesDrawn, LogEvent
<1>9. ASSUME NEW q \in LogNodes, q # n
      PROVE  /\ \A i \in DOMAIN events'[q] : events'[q][i].drew => events'[q][i].time <= lamport'[q]
             /\ \A i, j \in DOMAIN events'[q] : i < j /\ events'[q][i].drew /\ events'[q][j].drew
                                                => events'[q][i].time < events'[q][j].time
  <2>1. events'[q] = events[q] /\ events[q] \in Seq(LogEvent)
    BY <1>1, <1>4, <1>9 DEF LogTyped
  <2>2. \A i \in DOMAIN events[q] : events[q][i].drew => events[q][i].time <= lamport[q]
    BY DEF LogInv, TimesDrawn
  <2>3. \A i \in DOMAIN events[q] : events[q][i] \in LogEvent
    BY <2>1
  <2>4. \A i \in DOMAIN events[q] : events[q][i].time \in Nat
    BY <2>3 DEF LogEvent
  <2>5. lamport'[q] >= lamport[q] /\ lamport[q] \in Nat /\ lamport'[q] \in Nat
    BY <1>3, <1>7
  <2>6. \A i \in DOMAIN events[q] : events[q][i].drew => events[q][i].time <= lamport'[q]
    BY <2>2, <2>4, <2>5
  <2> QED
    BY <2>1, <2>6 DEF LogInv, TimesRise
<1>10. \A i \in 1 .. size + 1 : i \in 1 .. size \/ i = size + 1
  BY <1>4
<1>11. \A i \in DOMAIN events'[n] : events'[n][i].drew => events'[n][i].time <= lamport'[n]
  <2> SUFFICES ASSUME NEW i \in 1 .. size + 1, events'[n][i].drew
               PROVE  events'[n][i].time <= lamport'[n]
    BY <1>4
  <2>1. lamport'[n] \in Nat /\ lamport[n] \in Nat /\ lamport'[n] >= lamport[n]
    BY <1>1, <1>3, <1>7
  <2>2. CASE i = size + 1
    BY <1>3, <1>4, <2>1, <2>2
  <2>3. CASE i \in 1 .. size
    <3>1. log[i].time <= lamport[n] /\ log[i].time \in Nat
      BY <1>4, <1>8, <2>3
    <3> QED
      BY <1>4, <2>1, <2>3, <3>1
  <2> QED
    BY <1>10, <2>2, <2>3
<1>12. \A i, j \in DOMAIN events'[n] : i < j /\ events'[n][i].drew /\ events'[n][j].drew
                                       => events'[n][i].time < events'[n][j].time
  <2> SUFFICES ASSUME NEW i \in 1 .. size + 1, NEW j \in 1 .. size + 1, i < j,
                      events'[n][i].drew, events'[n][j].drew
               PROVE  events'[n][i].time < events'[n][j].time
    BY <1>4
  <2>1. i \in 1 .. size
    BY <1>4
  <2>2. CASE j = size + 1
    <3>1. log[i].time <= lamport[n] /\ log[i].time \in Nat /\ lamport[n] \in Nat
      BY <1>1, <1>4, <1>7, <1>8, <2>1
    <3>2. e.time = lamport[n] + 1
      BY <1>3, <1>4, <2>2
    <3>3. log[i].time < e.time
      BY <3>1, <3>2
    <3>4. events'[n][i] = log[i] /\ events'[n][j] = e
      BY <1>4, <2>1, <2>2
    <3> QED
      BY <3>3, <3>4, Zenon
  <2>3. CASE j \in 1 .. size
    BY <1>1, <1>4, <2>1, <2>3 DEF LogInv, TimesRise
  <2> QED
    BY <1>10, <2>2, <2>3
<1>13. TimesDrawn' /\ TimesRise'
  BY <1>9, <1>11, <1>12 DEF TimesDrawn, TimesRise
<1>14. SealCounts'
  <2> SUFFICES ASSUME NEW q \in LogNodes
               PROVE  /\ digest[q] # -1 => sealed[q]
                      /\ sealed[q] => Pending(q)' \subseteq Admitted(q)'
                      /\ digest[q] # -1 =>
                            Len(events'[q]) - digest[q] + Cardinality(Pending(q)') <= Cardinality(Admitted(q)')
    BY <1>2 DEF SealCounts
  <2>1. Admitted(q)' = Admitted(q)
    BY <1>2 DEF Admitted
  <2>2. /\ digest[q] # -1 => sealed[q]
        /\ sealed[q] => Pending(q) \subseteq Admitted(q)
        /\ digest[q] # -1 => Len(events[q]) - digest[q] + Cardinality(Pending(q)) <= Cardinality(Admitted(q))
    BY DEF LogInv, SealCounts
  <2>3. CASE q = n
    <3>1. Pending(q)' = Pending(q) \ {a} /\ a \in Pending(q)
      BY <1>1, <1>2, <2>3 DEF Pending, LogTyped
    <3>2. /\ Cardinality(Pending(q)') = Cardinality(Pending(q)) - 1
          /\ Cardinality(Pending(q)) \in Nat /\ Cardinality(Admitted(q)) \in Nat
      BY <1>1, <3>1, AppendersCount, FS_RemoveElement
    <3>3. digest[q] \in Nat \union {-1} /\ Len(events[q]) \in Nat /\ Len(events'[q]) = Len(events[q]) + 1
      BY <1>1, <1>4, <2>3 DEF LogTyped, size
    <3>4. sealed[q] => Pending(q)' \subseteq Admitted(q)'
      BY <2>1, <2>2, <3>1
    <3>5. ASSUME digest[q] # -1
          PROVE  Len(events'[q]) - digest[q] + Cardinality(Pending(q)') <= Cardinality(Admitted(q)')
      <4>1. PICK left \in Nat, was \in Nat, now1 \in Nat, size1 \in Nat :
                   /\ left = Cardinality(Pending(q)) /\ was = digest[q]
                   /\ now1 = Cardinality(Admitted(q)) /\ size1 = Len(events[q])
        BY <3>2, <3>3, <3>5
      <4>2. size1 - was + left <= now1
        BY <2>2, <3>5, <4>1
      <4>3. /\ Len(events'[q]) = size1 + 1 /\ Cardinality(Pending(q)') = left - 1
            /\ Cardinality(Admitted(q)') = now1
        BY <2>1, <3>2, <3>3, <4>1
      <4>4. (size1 + 1) - was + (left - 1) <= now1
        BY <4>2
      <4> QED
        BY <4>1, <4>3, <4>4, Zenon
    <3> QED
      BY <2>2, <3>4, <3>5
  <2>4. CASE q # n
    <3>1. Pending(q)' = Pending(q)
      BY <1>1, <1>2, <2>4 DEF Pending, LogTyped
    <3> QED
      BY <1>4, <2>1, <2>2, <2>4, <3>1
  <2> QED
    BY <2>3, <2>4
<1> QED
  BY <1>5, <1>6, <1>13, <1>14 DEF LogInv

\* seal admits the appenders that are past the test, and the hash covers what there is.
LEMMA SealKeeps ==
    ASSUME LogInv, NEW n \in LogNodes, Seal(n) \/ Hash(n)
    PROVE  LogInv'
<1>1. LogTyped /\ UNCHANGED <<events, doing, early, lamport, vector, stamps>>
  BY DEF Seal, Hash, LogInv
<1>2. TimesDrawn' /\ TimesRise'
  BY <1>1 DEF LogInv, TimesDrawn, TimesRise
<1>3. ClocksInv'
  <2>1. lamport' \in [LogNodes -> Nat] /\ \A q \in LogNodes : lamport'[q] >= lamport[q]
    BY <1>1 DEF LogTyped
  <2> QED
    BY <1>1, <2>1, ClocksStay DEF LogInv
<1>4. LogTyped'
  <2>1. \A q \in LogNodes : Len(events[q]) \in Nat
    BY <1>1 DEF LogTyped
  <2>2. CASE Seal(n)
    BY <1>1, <2>2 DEF Seal, LogTyped
  <2>3. CASE Hash(n)
    BY <1>1, <2>1, <2>3 DEF Hash, LogTyped
  <2> QED
    BY <2>2, <2>3
<1>5. SealCounts'
  <2> SUFFICES ASSUME NEW q \in LogNodes
               PROVE  /\ digest'[q] # -1 => sealed'[q]
                      /\ sealed'[q] => Pending(q)' \subseteq Admitted(q)'
                      /\ digest'[q] # -1 =>
                            Len(events[q]) - digest'[q] + Cardinality(Pending(q)') <= Cardinality(Admitted(q)')
    BY <1>1 DEF SealCounts
  <2>1. Pending(q)' = Pending(q)
    BY <1>1 DEF Pending
  <2>2. /\ digest[q] # -1 => sealed[q]
        /\ sealed[q] => Pending(q) \subseteq Admitted(q)
        /\ digest[q] # -1 => Len(events[q]) - digest[q] + Cardinality(Pending(q)) <= Cardinality(Admitted(q))
    BY DEF LogInv, SealCounts
  <2>3. CASE Seal(n)
    <3>1. /\ digest' = digest /\ sealed' = [sealed EXCEPT ![n] = TRUE] /\ ~ sealed[n]
          /\ before' = before \union Pending(n)
      BY <2>3 DEF Seal, Pending
    <3>2. CASE q = n
      <4>1. digest[q] = -1
        BY <2>2, <3>1, <3>2
      <4>2. Pending(q) \subseteq Admitted(q)'
        BY <3>1, <3>2 DEF Admitted, Pending
      <4> QED
        BY <2>1, <3>1, <4>1, <4>2
    <3>3. CASE q # n
      <4>1. Admitted(q)' = Admitted(q)
        BY <3>1, <3>3 DEF Admitted, Pending
      <4> QED
        BY <1>1, <2>1, <2>2, <3>1, <3>3, <4>1 DEF LogTyped
    <3> QED
      BY <3>2, <3>3
  <2>4. CASE Hash(n)
    <3>1. /\ sealed' = sealed /\ digest' = [digest EXCEPT ![n] = Len(events[n])] /\ sealed[n]
          /\ Admitted(q)' = Admitted(q)
      BY <2>4 DEF Hash, Admitted
    <3>2. CASE q = n
      <4>1. digest'[q] = Len(events[q]) /\ Len(events[q]) \in Nat
        BY <1>1, <3>1, <3>2 DEF LogTyped
      <4>2. Pending(q) \subseteq Admitted(q)
        BY <2>2, <3>1, <3>2
      <4>3. Cardinality(Pending(q)) <= Cardinality(Admitted(q)) /\ Cardinality(Pending(q)) \in Nat
        BY <1>1, <4>2, AppendersCount, FS_Subset
      <4> QED
        BY <2>1, <3>1, <3>2, <4>1, <4>2, <4>3
    <3>3. CASE q # n
      <4>1. digest'[q] = digest[q]
        BY <1>1, <3>1, <3>3 DEF LogTyped
      <4> QED
        BY <2>1, <2>2, <3>1, <4>1
    <3> QED
      BY <3>2, <3>3
  <2> QED
    BY <2>3, <2>4
<1> QED
  BY <1>2, <1>3, <1>4, <1>5 DEF LogInv

\* What a stamp adds to the list of stamps.
LEMMA StampIs ==
    ASSUME LogTyped, NEW n \in LogNodes, NEW C, C \subseteq Stamps, Stamp(n, C),
           vector' \in [LogNodes -> [LogNodes -> Nat]], lamport' \in [LogNodes -> Nat]
    PROVE  Adds(n, C, Len(stamps) + 1)
<1> DEFINE past == UNION {{c} \union stamps[c].past : c \in C}
           new == [node |-> n, time |-> lamport'[n], clock |-> vector'[n], past |-> past]
<1>1. past \in SUBSET Nat
  <2>1. \A c \in Stamps : c \in Nat /\ stamps[c].past \subseteq Nat
    <3> TAKE c \in Stamps
    <3>1. c \in Nat /\ stamps[c] \in StampOf
      BY DEF LogTyped, Stamps
    <3> QED
      BY <3>1 DEF StampOf
  <2> QED
    BY <2>1
<1> HIDE DEF past
<1>2. /\ new \in StampOf /\ new.node = n /\ new.time = lamport'[n] /\ new.clock = vector'[n]
      /\ new.past = past
  BY <1>1 DEF StampOf
<1>3. stamps' = Append(stamps, new)
  BY DEF Stamp, past
<1> HIDE DEF new
<1>4. /\ stamps' \in Seq(StampOf) /\ Len(stamps') = Len(stamps) + 1
      /\ \A i \in 1 .. Len(stamps) : stamps'[i] = stamps[i]
      /\ stamps'[Len(stamps) + 1] = new
  BY <1>2, <1>3 DEF LogTyped
<1> QED
  BY <1>2, <1>4 DEF Adds, Stamps, past

\* A local event of a node, or the stamp of a message it sends.
LEMMA StampedKeeps ==
    ASSUME LogInv, NEW n \in LogNodes, Stamped(n)
    PROVE  LogInv'
<1> DEFINE C == OwnStamps(n)
<1>1. LogTyped /\ ClocksInv /\ stamps \in Seq(StampOf)
  BY DEF LogInv, LogTyped
<1>2. C \in SUBSET Stamps /\ \A c \in Stamps : c \in C <=> stamps[c].node = n
  BY <1>1 DEF OwnStamps, Stamps
<1>3. /\ UNCHANGED <<events, sealed, digest, doing, early, before>> /\ Ticked(n)
      /\ vector' = [vector EXCEPT ![n][n] = @ + 1] /\ Stamp(n, C)
  BY DEF Stamped
<1>4. /\ vector' \in [LogNodes -> [LogNodes -> Nat]] /\ vector'[n][n] = vector[n][n] + 1
      /\ \A m \in LogNodes : m # n => vector'[n][m] = vector[n][m]
      /\ \A q \in LogNodes : q # n => vector'[q] = vector[q]
  BY <1>1, <1>3 DEF LogTyped
<1>5. /\ lamport' \in [LogNodes -> Nat] /\ lamport'[n] = lamport[n] + 1
      /\ \A q \in LogNodes : q # n => lamport'[q] = lamport[q]
      /\ \A q \in LogNodes : lamport'[q] >= lamport[q] /\ lamport'[q] \in Nat
      /\ \A q \in LogNodes : lamport[q] \in Nat
  BY <1>1, <1>3, TickIs DEF LogTyped
<1> HIDE DEF C
<1>6. Adds(n, C, Len(stamps) + 1)
  BY <1>1, <1>2, <1>3, <1>4, <1>5, StampIs
<1>7. \A c \in C : lamport'[n] > stamps[c].time
  <2> TAKE c \in C
  <2>1. stamps[c].time <= lamport[n] /\ stamps[c].time \in Nat
    BY <1>1, <1>2, StampsTyped DEF ClocksInv, VectorsSound
  <2> QED
    BY <1>5, <2>1
<1>8. lamport'[n] > lamport[n] /\ \A k \in Stamps : stamps[k].node = n => k \in C
  BY <1>2, <1>5
<1>9. \A m \in LogNodes : m # n =>
          /\ vector'[n][m] >= vector[n][m]
          /\ \A c \in C : stamps[c].node # n => vector'[n][m] >= stamps[c].clock[m]
          /\ \/ vector'[n][m] = vector[n][m]
             \/ \E c \in C : vector'[n][m] = stamps[c].clock[m]
  <2>1. \A m \in LogNodes : vector[n][m] \in Nat
    BY <1>1 DEF LogTyped
  <2> QED
    BY <1>2, <1>4, <2>1
<1>10. ClocksInv'
  <2>1. Causes(n, C) /\ Learns(n, C)
    BY <1>2, <1>4, <1>5, <1>7, <1>8, <1>9, Zenon DEF Causes, Learns
  <2> QED
    BY <1>1, <1>6, <2>1, StampKeeps
<1>11. TimesDrawn' /\ TimesRise' /\ SealCounts'
  BY <1>3, <1>5, EventsStay
<1>12. LogTyped'
  BY <1>1, <1>3, <1>4, <1>5, <1>6 DEF LogTyped, Adds
<1> QED
  BY <1>10, <1>11, <1>12 DEF LogInv

\* A message of another node: both clocks take what it tells, whenever it comes.
LEMMA ReceiveKeeps ==
    ASSUME LogInv, NEW n \in LogNodes, NEW i \in DOMAIN stamps, Receive(n, i)
    PROVE  LogInv'
<1> DEFINE C == OwnStamps(n) \union {i}
<1>1. LogTyped /\ ClocksInv /\ stamps \in Seq(StampOf) /\ i \in Stamps
  BY DEF LogInv, LogTyped, Stamps
<1>2. /\ C \in SUBSET Stamps /\ stamps[i].node # n
      /\ \A c \in Stamps : c \in C <=> stamps[c].node = n \/ c = i
  BY <1>1 DEF OwnStamps, Stamps, Receive
<1>3. /\ UNCHANGED <<events, sealed, digest, doing, early, before>>
      /\ lamport' = [lamport EXCEPT ![n] = LargerOf(@, stamps[i].time) + 1]
      /\ vector' = [vector EXCEPT ![n] = [Merged(n, i) EXCEPT ![n] = @ + 1]] /\ Stamp(n, C)
  BY DEF Receive
<1>4. /\ stamps[i].node \in LogNodes /\ stamps[i].time \in Nat
      /\ \A m \in LogNodes : stamps[i].clock[m] \in Nat /\ vector[n][m] \in Nat
      /\ \A q \in LogNodes : lamport[q] \in Nat
      /\ stamps[i].clock[n] <= vector[n][n]
  BY <1>1, StampsTyped DEF LogTyped, ClocksInv, VectorsSound
<1>5. \A x, y \in Nat : /\ LargerOf(x, y) \in Nat /\ LargerOf(x, y) >= x /\ LargerOf(x, y) >= y
                        /\ LargerOf(x, y) = x \/ LargerOf(x, y) = y
                        /\ y <= x => LargerOf(x, y) = x
  BY DEF LargerOf
<1>6. /\ Merged(n, i) \in [LogNodes -> Nat]
      /\ \A m \in LogNodes : Merged(n, i)[m] = LargerOf(vector[n][m], stamps[i].clock[m])
  BY <1>4, <1>5 DEF Merged
<1>7. /\ vector' \in [LogNodes -> [LogNodes -> Nat]] /\ vector'[n][n] = vector[n][n] + 1
      /\ \A m \in LogNodes : m # n => vector'[n][m] = LargerOf(vector[n][m], stamps[i].clock[m])
      /\ \A q \in LogNodes : q # n => vector'[q] = vector[q]
  <2> DEFINE new == [Merged(n, i) EXCEPT ![n] = @ + 1]
  <2>1. /\ new \in [LogNodes -> Nat] /\ new[n] = Merged(n, i)[n] + 1
        /\ \A m \in LogNodes : m # n => new[m] = Merged(n, i)[m]
    BY <1>6
  <2>2. Merged(n, i)[n] = vector[n][n]
    BY <1>4, <1>5, <1>6
  <2>3. vector' = [vector EXCEPT ![n] = new]
    BY <1>3
  <2> HIDE DEF new
  <2>4. /\ vector' \in [LogNodes -> [LogNodes -> Nat]] /\ vector'[n] = new
        /\ \A q \in LogNodes : q # n => vector'[q] = vector[q]
    BY <1>1, <2>1, <2>3 DEF LogTyped
  <2> QED
    BY <1>6, <2>1, <2>2, <2>4
<1>8. /\ lamport' \in [LogNodes -> Nat] /\ lamport'[n] > lamport[n] /\ lamport'[n] > stamps[i].time
      /\ \A q \in LogNodes : q # n => lamport'[q] = lamport[q]
      /\ \A q \in LogNodes : lamport'[q] >= lamport[q] /\ lamport'[q] \in Nat
  <2> DEFINE t == LargerOf(lamport[n], stamps[i].time)
  <2>1. t \in Nat /\ t >= lamport[n] /\ t >= stamps[i].time
    BY <1>4, <1>5
  <2>2. lamport' = [lamport EXCEPT ![n] = t + 1]
    BY <1>3
  <2> HIDE DEF t
  <2>3. /\ lamport' \in [LogNodes -> Nat] /\ lamport'[n] = t + 1
        /\ \A q \in LogNodes : q # n => lamport'[q] = lamport[q]
    BY <1>1, <2>1, <2>2 DEF LogTyped
  <2>4. lamport'[n] > lamport[n] /\ lamport'[n] > stamps[i].time
    BY <1>4, <2>1, <2>3
  <2>5. \A q \in LogNodes : lamport'[q] >= lamport[q] /\ lamport'[q] \in Nat
    <3> TAKE q \in LogNodes
    <3>1. lamport[q] \in Nat /\ lamport'[q] \in Nat /\ lamport[n] \in Nat
      BY <1>4, <2>3
    <3> QED
      BY <2>1, <2>3, <3>1
  <2> QED
    BY <2>3, <2>4, <2>5
<1> HIDE DEF C
<1>9. Adds(n, C, Len(stamps) + 1)
  BY <1>1, <1>2, <1>3, <1>7, <1>8, StampIs
<1>10. \A c \in C : lamport'[n] > stamps[c].time
  <2> TAKE c \in C
  <2>1. CASE c = i
    BY <1>8, <2>1
  <2>2. CASE c # i
    <3>1. stamps[c].time <= lamport[n] /\ stamps[c].time \in Nat
      BY <1>1, <1>2, <2>2, StampsTyped DEF ClocksInv, VectorsSound
    <3> QED
      BY <1>4, <1>8, <3>1
  <2> QED
    BY <2>1, <2>2
<1>11. \A k \in Stamps : stamps[k].node = n => k \in C
  BY <1>2
<1>12. \A m \in LogNodes : m # n =>
          /\ vector'[n][m] >= vector[n][m]
          /\ \A c \in C : stamps[c].node # n => vector'[n][m] >= stamps[c].clock[m]
          /\ \/ vector'[n][m] = vector[n][m]
             \/ \E c \in C : vector'[n][m] = stamps[c].clock[m]
  <2> SUFFICES ASSUME NEW m \in LogNodes, m # n
               PROVE  /\ vector'[n][m] >= vector[n][m]
                      /\ \A c \in C : stamps[c].node # n => vector'[n][m] >= stamps[c].clock[m]
                      /\ \/ vector'[n][m] = vector[n][m]
                         \/ \E c \in C : vector'[n][m] = stamps[c].clock[m]
    OBVIOUS
  <2>1. /\ vector'[n][m] >= vector[n][m] /\ vector'[n][m] >= stamps[i].clock[m]
        /\ vector'[n][m] = vector[n][m] \/ vector'[n][m] = stamps[i].clock[m]
    <3> DEFINE x == vector[n][m]
               y == stamps[i].clock[m]
    <3>1. x \in Nat /\ y \in Nat /\ vector'[n][m] = LargerOf(x, y)
      BY <1>4, <1>7
    <3> HIDE DEF x, y
    <3>2. LargerOf(x, y) >= x /\ LargerOf(x, y) >= y /\ (LargerOf(x, y) = x \/ LargerOf(x, y) = y)
      BY <1>5, <3>1
    <3> QED
      BY <3>1, <3>2, Zenon DEF x, y
  <2>2. i \in C /\ \A c \in C : stamps[c].node # n => c = i
    BY <1>1, <1>2
  <2> QED
    BY <2>1, <2>2
<1>13. ClocksInv'
  <2>1. Causes(n, C) /\ Learns(n, C)
    BY <1>2, <1>7, <1>8, <1>10, <1>11, <1>12, Zenon DEF Causes, Learns
  <2> QED
    BY <1>1, <1>9, <2>1, StampKeeps
<1>14. TimesDrawn' /\ TimesRise' /\ SealCounts'
  BY <1>3, <1>8, EventsStay
<1>15. LogTyped'
  BY <1>1, <1>3, <1>7, <1>8, <1>9 DEF LogTyped, Adds
<1> QED
  BY <1>13, <1>14, <1>15 DEF LogInv

\* The invariant of the logs and the clocks (EventLog, LamportClock, VectorClock).
THEOREM LogIsSound == LogSpec => []LogInv
<1>1. LogInit => LogInv
  <2> SUFFICES ASSUME LogInit
               PROVE  LogInv
    OBVIOUS
  <2> USE DEF LogInit
  <2>1. Len(stamps) = 0 /\ Stamps = {} /\ \A n \in LogNodes : events[n] = <<>> /\ DOMAIN events[n] = {}
    BY DEF Stamps
  <2>2. LogTyped
    BY DEF LogTyped
  <2>3. TimesDrawn /\ TimesRise
    BY <2>1 DEF TimesDrawn, TimesRise
  <2>4. SealCounts
    BY DEF SealCounts
  <2>5. ClocksInv
    BY <2>1 DEF ClocksInv, PastsSound, CountsTell, ClocksFollow, VectorsSound
  <2> QED
    BY <2>2, <2>3, <2>4, <2>5 DEF LogInv
<1>2. LogInv /\ [LogNext]_logVars => LogInv'
  <2> SUFFICES ASSUME LogInv, [LogNext]_logVars
               PROVE  LogInv'
    OBVIOUS
  <2>1. ASSUME NEW a \in Appenders, DrawEarly(a) \/ TestSeal(a) \/ RefusedAppend(a) \/ AppendEvent(a)
        PROVE  LogInv'
    BY <2>1, DrawEarlyKeeps, TestSealKeeps, RefusedKeeps, AppendEventKeeps
  <2>2. ASSUME NEW n \in LogNodes, Seal(n) \/ Hash(n)
        PROVE  LogInv'
    BY <2>2, SealKeeps
  <2>3. ASSUME NEW n \in LogNodes, Stamped(n)
        PROVE  LogInv'
    BY <2>3, StampedKeeps
  <2>4. ASSUME NEW n \in LogNodes, NEW i \in DOMAIN stamps, Receive(n, i)
        PROVE  LogInv'
    BY <2>4, ReceiveKeeps
  <2>5. CASE UNCHANGED logVars
    <3>1. UNCHANGED <<events, sealed, digest, doing, early, before, lamport, vector, stamps>>
      BY <2>5 DEF logVars
    <3>2. LogTyped'
      BY <3>1 DEF LogInv, LogTyped
    <3>3. TimesDrawn' /\ TimesRise'
      BY <3>1 DEF LogInv, TimesDrawn, TimesRise
    <3>4. SealCounts'
      BY <3>1 DEF LogInv, SealCounts, Pending, Admitted
    <3>5. ClocksInv'
      <4>1. lamport' \in [LogNodes -> Nat] /\ \A q \in LogNodes : lamport'[q] >= lamport[q]
        BY <3>1 DEF LogInv, LogTyped
      <4> QED
        BY <3>1, <4>1, ClocksStay DEF LogInv
    <3> QED
      BY <3>2, <3>3, <3>4, <3>5 DEF LogInv
  <2> QED
    BY <2>1, <2>2, <2>3, <2>4, <2>5 DEF LogNext
<1> QED
  BY <1>1, <1>2, PTL DEF LogSpec

\* The times that a log draws rise, a sealed log grows by no call that came later, and the
\* clocks of nodes that exchange messages in any order tell exactly what caused what
\* (EventLog.append, EventLog.seal, LamportClock, VectorClock.happens_before).
THEOREM LogAgreesWithCauses == LogSpec => []LogIsCausal
<1>1. LogInv => LogIsCausal
  <2> SUFFICES ASSUME LogInv
               PROVE  LogIsCausal
    OBVIOUS
  <2>1. TimesRise
    BY DEF LogInv
  <2>2. SealHolds
    <3> SUFFICES ASSUME NEW n \in LogNodes, digest[n] # -1
                 PROVE  Len(events[n]) - digest[n] <= Cardinality(Admitted(n))
      BY DEF SealHolds, Admitted
    <3>1. Len(events[n]) - digest[n] + Cardinality(Pending(n)) <= Cardinality(Admitted(n))
      BY DEF LogInv, SealCounts
    <3>2. /\ Len(events[n]) \in Nat /\ digest[n] \in Nat
          /\ Cardinality(Pending(n)) \in Nat /\ Cardinality(Admitted(n)) \in Nat
      BY AppendersCount DEF LogInv, LogTyped
    <3> QED
      BY <3>1, <3>2
  <2>3. ClocksTell
    <3>0. DOMAIN stamps = Stamps
      BY DEF LogInv, LogTyped, Stamps
    <3> SUFFICES ASSUME NEW i \in Stamps, NEW k \in Stamps
                 PROVE  /\ (i \in stamps[k].past) <=> HappensBefore(stamps[i].clock, stamps[k].clock)
                        /\ i \in stamps[k].past => stamps[i].time < stamps[k].time
      BY <3>0, Zenon DEF ClocksTell
    <3>1. \A x \in Stamps : /\ stamps[x].node \in LogNodes
                            /\ \A m \in LogNodes : stamps[x].clock[m] \in Nat
      BY StampsTyped DEF LogInv, LogTyped
    <3>2. ASSUME i \in stamps[k].past
          PROVE  HappensBefore(stamps[i].clock, stamps[k].clock) /\ stamps[i].time < stamps[k].time
      <4>1. /\ stamps[i].time < stamps[k].time
            /\ \A m \in LogNodes : stamps[i].clock[m] <= stamps[k].clock[m]
        BY <3>2 DEF LogInv, ClocksInv, ClocksFollow
      <4>2. i # k /\ k \notin stamps[i].past
        <5>1. i \in 1 .. k - 1 /\ \A x \in stamps[i].past : x \in 1 .. i - 1
          BY <3>2 DEF LogInv, ClocksInv, PastsSound
        <5>2. i \in Nat /\ k \in Nat
          BY DEF Stamps
        <5>3. k \notin 1 .. i - 1
          BY <5>1, <5>2
        <5> QED
          BY <5>1, <5>2, <5>3
      <4>3. ~ (stamps[k].clock[stamps[k].node] <= stamps[i].clock[stamps[k].node])
        BY <4>2 DEF LogInv, ClocksInv, CountsTell
      <4>4. stamps[i].clock[stamps[k].node] < stamps[k].clock[stamps[k].node]
        BY <3>1, <4>3
      <4> QED
        BY <3>1, <4>1, <4>4 DEF HappensBefore
    <3>3. ASSUME HappensBefore(stamps[i].clock, stamps[k].clock)
          PROVE  i \in stamps[k].past
      <4>1. stamps[i].clock[stamps[i].node] <= stamps[k].clock[stamps[i].node]
        BY <3>1, <3>3 DEF HappensBefore
      <4>2. i # k
        BY <3>1, <3>3 DEF HappensBefore
      <4> QED
        BY <4>1, <4>2 DEF LogInv, ClocksInv, CountsTell
    <3> QED
      BY <3>2, <3>3
  <2> QED
    BY <2>1, <2>2, <2>3 DEF LogIsCausal
<1> QED
  BY <1>1, LogIsSound, PTL

-----------------------------------------------------------------------------
(* Work stealing.                                                            *)

PoolSpec == PoolInit /\ [][PoolNext]_poolVars

\* The front of a sequence, and a sequence without one place: what they hold.
LEMMA FrontIs ==
    ASSUME NEW S, NEW s \in Seq(S), Len(s) \in Nat \ {0}
    PROVE  /\ SubSeq(s, 1, Len(s) - 1) \in Seq(S)
           /\ Len(SubSeq(s, 1, Len(s) - 1)) = Len(s) - 1
           /\ \A i \in 1 .. Len(s) - 1 : SubSeq(s, 1, Len(s) - 1)[i] = s[i]
<1> DEFINE n == Len(s) - 1
<1>1. n \in Nat /\ \A i \in 1 .. n : s[i] \in S /\ 1 + i - 1 = i
  BY ElementOfSeq
<1> HIDE DEF n
<1>2. n - 1 + 1 = n /\ (n = IF 1 <= n THEN n - 1 + 1 ELSE 0)
  BY <1>1
<1>3. /\ SubSeq(s, 1, n) \in Seq(S) /\ Len(SubSeq(s, 1, n)) = n
      /\ \A i \in 1 .. n : SubSeq(s, 1, n)[i] = s[i]
  BY <1>1, <1>2, SubSeqProperties
<1> QED
  BY <1>3 DEF n

LEMMA FrontHolds ==
    ASSUME NEW S, NEW s \in Seq(S), s # << >>
    PROVE  Front(s) \in Seq(S) /\ ToSet(s) \subseteq ToSet(Front(s)) \cup {Last(s)} /\ Last(s) \in S
<1>1. Len(s) \in Nat \ {0} /\ DOMAIN s = 1 .. Len(s) /\ Last(s) \in S
  BY EmptySeq, LenProperties, ElementOfSeq DEF Last
<1>2. PICK f : f = Front(s)
  OBVIOUS
<1>3. f \in Seq(S) /\ Len(f) = Len(s) - 1 /\ \A i \in 1 .. Len(s) - 1 : f[i] = s[i]
  BY <1>1, <1>2, FrontIs DEF Front
<1>4. DOMAIN f = 1 .. Len(s) - 1
  BY <1>3, LenProperties
<1>5. ASSUME NEW x \in ToSet(s)
      PROVE  x \in ToSet(f) \cup {Last(s)}
  <2>1. PICK i \in 1 .. Len(s) : s[i] = x
    BY <1>1 DEF ToSet
  <2>2. CASE i = Len(s)
    BY <2>1, <2>2 DEF Last
  <2>3. CASE i \in 1 .. Len(s) - 1
    BY <1>3, <1>4, <2>1, <2>3 DEF ToSet
  <2>a. \A n \in Nat : \A k \in 1 .. n : k = n \/ k \in 1 .. n - 1
    OBVIOUS
  <2>4. i = Len(s) \/ i \in 1 .. Len(s) - 1
    BY <1>1, <2>a
  <2> QED
    BY <2>2, <2>3, <2>4
<1> QED
  BY <1>1, <1>2, <1>3, <1>5

LEMMA WithoutHolds ==
    ASSUME NEW S, NEW s \in Seq(S), NEW i \in 1 .. Len(s)
    PROVE  RemoveAt(s, i) \in Seq(S) /\ ToSet(s) \subseteq ToSet(RemoveAt(s, i)) \cup {s[i]}
<1>1. Len(s) \in Nat \ {0} /\ DOMAIN s = 1 .. Len(s) /\ \A k \in 1 .. Len(s) : s[k] \in S
  BY LenProperties, ElementOfSeq
<1>2. PICK a : a = SubSeq(s, 1, i - 1)
  OBVIOUS
<1>3. PICK b : b = SubSeq(s, i + 1, Len(s))
  OBVIOUS
<1>4. PICK t : t = a \o b
  OBVIOUS
<1>5. a \in Seq(S) /\ Len(a) = i - 1 /\ \A k \in 1 .. i - 1 : a[k] = s[k]
  <2>1. \A k \in 1 .. i - 1 : s[k] \in S
    BY <1>1
  <2>2. /\ SubSeq(s, 1, i - 1) \in Seq(S)
        /\ Len(SubSeq(s, 1, i - 1)) = IF 1 <= i - 1 THEN i - 1 - 1 + 1 ELSE 0
        /\ \A k \in 1 .. i - 1 - 1 + 1 : SubSeq(s, 1, i - 1)[k] = s[1 + k - 1]
    BY <2>1, SubSeqProperties
  <2> QED
    BY <1>1, <1>2, <2>2
<1>6. b \in Seq(S) /\ Len(b) = Len(s) - i /\ \A k \in 1 .. Len(s) - i : b[k] = s[i + k]
  <2>1. \A k \in i + 1 .. Len(s) : s[k] \in S
    BY <1>1
  <2>2. /\ SubSeq(s, i + 1, Len(s)) \in Seq(S)
        /\ Len(SubSeq(s, i + 1, Len(s))) = IF i + 1 <= Len(s) THEN Len(s) - (i + 1) + 1 ELSE 0
        /\ \A k \in 1 .. Len(s) - (i + 1) + 1 : SubSeq(s, i + 1, Len(s))[k] = s[i + 1 + k - 1]
    BY <1>1, <2>1, SubSeqProperties
  <2>3. /\ Len(s) - (i + 1) + 1 = Len(s) - i
        /\ (IF i + 1 <= Len(s) THEN Len(s) - (i + 1) + 1 ELSE 0) = Len(s) - i
        /\ \A k \in 1 .. Len(s) - i : i + 1 + k - 1 = i + k
    <3>1. \A n \in Nat : \A j \in 1 .. n :
             /\ n - (j + 1) + 1 = n - j /\ (j + 1 > n => n - j = 0)
             /\ \A k \in 1 .. n - j : j + 1 + k - 1 = j + k
      OBVIOUS
    <3>2. Len(s) \in Nat /\ i \in 1 .. Len(s)
      BY <1>1
    <3> QED
      BY <3>1, <3>2
  <2> QED
    BY <1>3, <2>2, <2>3
<1>7. /\ t \in Seq(S) /\ Len(t) = Len(s) - 1
      /\ \A k \in 1 .. Len(s) - 1 : t[k] = IF k <= i - 1 THEN a[k] ELSE b[k - (i - 1)]
  <2>1. /\ a \o b \in Seq(S) /\ Len(a \o b) = Len(a) + Len(b)
        /\ \A k \in 1 .. Len(a) + Len(b) : (a \o b)[k] = IF k <= Len(a) THEN a[k] ELSE b[k - Len(a)]
    BY <1>5, <1>6, ConcatProperties
  <2>2. Len(a) = i - 1 /\ Len(a) + Len(b) = Len(s) - 1
    BY <1>1, <1>5, <1>6
  <2> QED
    BY <1>4, <2>1, <2>2
<1>8. DOMAIN t = 1 .. Len(s) - 1
  BY <1>7, LenProperties
<1>9. ASSUME NEW x \in ToSet(s), x # s[i]
      PROVE  x \in ToSet(t)
  <2>1. PICK k \in 1 .. Len(s) : s[k] = x
    BY <1>1 DEF ToSet
  <2>2. CASE k < i
    <3>1. k \in 1 .. Len(s) - 1 /\ t[k] = x
      BY <1>1, <1>5, <1>7, <2>1, <2>2
    <3> QED
      BY <1>8, <3>1 DEF ToSet
  <2>3. CASE k > i
    <3>1. k - 1 \in 1 .. Len(s) - 1 /\ ~(k - 1 <= i - 1) /\ k - 1 - (i - 1) = k - i /\ k - i \in 1 .. Len(s) - i
      BY <1>1, <2>3
    <3>2. t[k - 1] = b[k - i]
      BY <1>7, <3>1
    <3>3. b[k - i] = s[k]
      BY <1>1, <1>6, <3>1
    <3> QED
      BY <1>8, <2>1, <3>1, <3>2, <3>3 DEF ToSet
  <2> QED
    BY <1>1, <1>9, <2>1, <2>2, <2>3
<1> QED
  BY <1>2, <1>3, <1>4, <1>7, <1>9 DEF RemoveAt

\* Between two operations on the queues nothing is said about the last steal.
LEMMA NothingSaid == NoSteal.result # "none" /\ NoSteal.result # "raised"
  BY DEF NoSteal

LEMMA OnlyAWalkSaysNone ==
    ASSUME PoolNext, outcome'.result = "none"
    PROVE  \E thief : Steal(thief) /\ Found(thief) = {} /\ Reached(thief) = 1 .. 3
<1>1. CASE \E w \in 1 .. next - 1 : Steal(w)
  <2>1. PICK w : Steal(w)
    BY <1>1
  <2> QED
    BY <2>1 DEF Steal, End
<1>2. CASE \E w \in 1 .. next - 1 : PopLocal(w) \/ Fails(w) \/ StrictRefusal(w)
  BY <1>2 DEF PopLocal, Fails, StrictRefusal, End
<1>3. CASE \E t \in Items : Payload(t) \/ Settles(t) \/ \E w \in 1 .. First : Push(w, t)
  BY <1>3, NothingSaid DEF Payload, Settles, Push
<1>4. CASE \/ \E w \in 1 .. next - 1, v \in 1 .. First : \E i \in DOMAIN deques[v] : StealSpecific(w, v, i)
           \/ Grow \/ Shrink
  <2>1. outcome' = NoSteal
    BY <1>4 DEF StealSpecific, Grow, Shrink
  <2> QED
    BY <2>1, NothingSaid
<1> QED
  BY <1>1, <1>2, <1>3, <1>4 DEF PoolNext

NothingMissed == outcome.result = "none" => \A t \in Items : Reachable(t) => ~Stealable(t)

LEMMA WalksAreComplete ==
    ASSUME NEW thief, Steal(thief), Found(thief) = {}, Reached(thief) = 1 .. 3
    PROVE  NothingMissed'
<1>1. /\ thief \in members /\ deques[thief] = << >>
      /\ UNCHANGED <<members, deques, unknown, notWaiting>>
  BY DEF Steal, CanWalk, tasksVars
<1>2. Levels3[3] = "federation" /\ 3 \in 1 .. 3
  BY DEF Levels3
<1>3. Scope(thief, Levels3[3]) = members
  BY <1>2 DEF Scope
<1>4. ASSUME NEW w \in members
      PROVE  Candidates(deques[w]) = {}
  <2>1. CASE w = thief
    BY <1>1, <2>1 DEF Candidates
  <2>2. CASE w # thief
    <3>1. <<3, w>> \in Stops(thief)
      BY <1>2, <1>3, <2>2 DEF Stops
    <3> QED
      BY <3>1 DEF Found
  <2> QED
    BY <2>1, <2>2
<1>5. ASSUME NEW t, Reachable(t)'
      PROVE  ~Stealable(t)'
  <2>1. PICK w \in members : t \in ToSet(deques[w])
    BY <1>1, <1>5 DEF Reachable, WithDeque
  <2>2. PICK i \in DOMAIN deques[w] : t = deques[w][i]
    BY <2>1 DEF ToSet
  <2>3. ~Stealable(t)
    BY <1>4, <2>2 DEF Candidates
  <2> QED
    BY <1>1, <2>3 DEF Stealable, Movable
<1> QED
  BY <1>5 DEF NothingMissed

\* Where the tasks that were pushed are, and what a steal that raised says of the workers.
PoolTyped ==
    /\ deques \in [WithDeque -> Seq(Items)] /\ handed \in [Items -> Nat]
    /\ next \in Nat /\ next > First /\ members \subseteq 1 .. next - 1 /\ pushed \subseteq Items
RaisedForAReason == outcome.result = "raised" => outcome.thief \notin WithDeque \cap members \/ next > First + 1
AllAccountedFor == /\ \A t \in pushed : Queued(t) \/ handed[t] # 0 \/ t \in dropped
                   /\ dropped # {} => next > First + 1

PoolInv == PoolTyped /\ RaisedForAReason /\ AllAccountedFor /\ NothingMissed

\* A worker of the federation without a deque was added later.
LEMMA AddedLater ==
    ASSUME PoolTyped, NEW w \in members, w \notin WithDeque
    PROVE  next > First + 1
  BY PoolAssumption DEF PoolTyped, WithDeque

\* A task leaves a deque, and it alone.
LEMMA TakenOff ==
    ASSUME PoolTyped, NEW v \in WithDeque, NEW x, NEW q \in Seq(Items),
           ToSet(deques[v]) \subseteq ToSet(q) \cup {x}, deques' = [deques EXCEPT ![v] = q]
    PROVE  deques' \in [WithDeque -> Seq(Items)] /\ \A t : Queued(t) /\ t # x => Queued(t)'
<1>1. deques' \in [WithDeque -> Seq(Items)]
  BY DEF PoolTyped
<1>2. ASSUME NEW t, NEW w \in WithDeque, t \in ToSet(deques[w]), t # x
      PROVE  t \in ToSet(deques'[w])
  BY <1>2 DEF PoolTyped
<1> QED
  BY <1>1, <1>2 DEF Queued, WithDeque

LEMMA StealSpecificKeeps ==
    ASSUME PoolInv, NEW w, NEW v \in 1 .. First, NEW i \in DOMAIN deques[v], StealSpecific(w, v, i)
    PROVE  PoolTyped' /\ AllAccountedFor'
<1> USE DEF PoolInv
<1>t. PICK t : t = deques[v][i]
  OBVIOUS
<1>q. PICK q : q = RemoveAt(deques[v], i)
  OBVIOUS
<1>d. PICK less : less = [deques EXCEPT ![v] = q]
  OBVIOUS
<1>1. v \in WithDeque /\ deques[v] \in Seq(Items) /\ i \in 1 .. Len(deques[v]) /\ t \in Items
  BY <1>t, LenProperties, ElementOfSeq DEF PoolTyped, WithDeque
<1>2. q \in Seq(Items) /\ ToSet(deques[v]) \subseteq ToSet(q) \cup {t}
  BY <1>1, <1>t, <1>q, WithoutHolds
<1>3. /\ less \in [WithDeque -> Seq(Items)]
      /\ \A u \in WithDeque : ToSet(deques[u]) \subseteq ToSet(less[u]) \cup {t}
  BY <1>1, <1>2, <1>d DEF PoolTyped
<1>4. /\ w \in members /\ UNCHANGED <<members, next, handed, pushed>>
      /\ w \in WithDeque => deques' = [less EXCEPT ![w] = Append(@, t)] /\ dropped' = dropped
      /\ w \notin WithDeque => deques' = less /\ dropped' = dropped \cup {t}
  BY <1>t, <1>q, <1>d DEF StealSpecific
<1>5. CASE w \in WithDeque
  <2>1. less[w] \in Seq(Items)
    BY <1>3, <1>5
  <2>2. /\ Append(less[w], t) \in Seq(Items)
        /\ ToSet(Append(less[w], t)) = ToSet(less[w]) \cup {t}
    <3>1. /\ Append(less[w], t) \in Seq(Items) /\ Len(Append(less[w], t)) = Len(less[w]) + 1
          /\ \A k \in 1 .. Len(less[w]) : Append(less[w], t)[k] = less[w][k]
          /\ Append(less[w], t)[Len(less[w]) + 1] = t
      BY <1>1, <2>1, AppendProperties
    <3>2. DOMAIN Append(less[w], t) = 1 .. Len(less[w]) + 1 /\ DOMAIN less[w] = 1 .. Len(less[w]) /\ Len(less[w]) \in Nat
      BY <2>1, <3>1, LenProperties
    <3> QED
      BY <3>1, <3>2 DEF ToSet
  <2>3. deques' = [less EXCEPT ![w] = Append(less[w], t)]
    BY <1>4, <1>5
  <2>4. deques' \in [WithDeque -> Seq(Items)]
    BY <1>3, <2>2, <2>3
  <2>5. \A x : Queued(x) => Queued(x)'
    <3>1. \A u \in WithDeque : ToSet(less[u]) \subseteq ToSet(deques'[u])
      BY <1>3, <2>2, <2>3
    <3>2. t \in ToSet(deques'[w])
      BY <1>3, <1>5, <2>2, <2>3
    <3> QED
      BY <1>3, <1>5, <3>1, <3>2 DEF Queued, WithDeque
  <2> QED
    BY <1>4, <1>5, <2>4, <2>5 DEF PoolTyped, AllAccountedFor
<1>6. CASE w \notin WithDeque
  <2>1. next > First + 1
    BY <1>4, <1>6, AddedLater
  <2>2. \A x : Queued(x) /\ x # t => Queued(x)'
    BY <1>3, <1>4, <1>6 DEF Queued, WithDeque
  <2> QED
    BY <1>3, <1>4, <1>6, <2>1, <2>2 DEF PoolTyped, AllAccountedFor, WithDeque
<1> QED
  BY <1>5, <1>6

\* A task is handed to a worker.
LEMMA HandedKeeps ==
    ASSUME PoolInv, NEW v \in WithDeque, NEW t \in Items, NEW q \in Seq(Items), NEW w \in 1 .. next - 1,
           ToSet(deques[v]) \subseteq ToSet(q) \cup {t}, deques' = [deques EXCEPT ![v] = q],
           handed' = [handed EXCEPT ![t] = w], UNCHANGED <<members, next, pushed, dropped>>
    PROVE  PoolTyped' /\ AllAccountedFor'
<1> USE DEF PoolInv
<1>1. deques' \in [WithDeque -> Seq(Items)] /\ \A x : Queued(x) /\ x # t => Queued(x)'
  BY TakenOff
<1>2. w \in Nat /\ w # 0
  BY DEF PoolTyped
<1>3. /\ handed' \in [Items -> Nat] /\ handed'[t] # 0
      /\ \A x \in Items : handed[x] # 0 => handed'[x] # 0
  BY <1>2 DEF PoolTyped
<1>4. PoolTyped'
  BY <1>1, <1>3 DEF PoolTyped, WithDeque
<1>5. AllAccountedFor'
  BY <1>1, <1>3 DEF AllAccountedFor, PoolTyped
<1> QED
  BY <1>4, <1>5

LEMMA PoolStep ==
    ASSUME PoolInv, [PoolNext]_poolVars
    PROVE  PoolInv'
<1> USE DEF PoolInv
<1>1. CASE \E t \in Items, w \in 1 .. First : Push(w, t)
  <2>1. PICK t \in Items, w \in 1 .. First : Push(w, t)
    BY <1>1
  <2>2. /\ w \in WithDeque /\ deques[w] \in Seq(Items)
        /\ deques' = [deques EXCEPT ![w] = Append(deques[w], t)]
        /\ pushed' = pushed \cup {t} /\ dropped' = dropped \ {t} /\ outcome' = NoSteal
        /\ UNCHANGED <<members, next, handed>>
    BY <2>1 DEF Push, PoolTyped
  <2>3. PICK q : q = Append(deques[w], t)
    OBVIOUS
  <2>4. q \in Seq(Items) /\ ToSet(deques[w]) \cup {t} \subseteq ToSet(q)
    <3>1. /\ q \in Seq(Items) /\ Len(q) = Len(deques[w]) + 1
          /\ \A k \in 1 .. Len(deques[w]) : q[k] = deques[w][k]
          /\ q[Len(deques[w]) + 1] = t
      BY <2>2, <2>3, AppendProperties
    <3>2. DOMAIN q = 1 .. Len(deques[w]) + 1 /\ DOMAIN deques[w] = 1 .. Len(deques[w]) /\ Len(deques[w]) \in Nat
      BY <2>2, <3>1, LenProperties
    <3> QED
      BY <3>1, <3>2 DEF ToSet
  <2>5. PoolTyped'
    BY <2>2, <2>3, <2>4 DEF PoolTyped, WithDeque
  <2>6. Queued(t)' /\ \A x : Queued(x) => Queued(x)'
    BY <2>2, <2>3, <2>4 DEF Queued, WithDeque, PoolTyped
  <2>7. AllAccountedFor'
    BY <2>2, <2>6 DEF AllAccountedFor
  <2> QED
    BY <2>2, <2>5, <2>7, NothingSaid DEF RaisedForAReason, NothingMissed
<1>2. CASE \E t \in Items : Payload(t) \/ Settles(t)
  <2>1. outcome' = NoSteal /\ UNCHANGED <<members, next, deques, handed, pushed, dropped>>
    BY <1>2 DEF Payload, Settles, historyOfTasks
  <2> QED
    BY <2>1, NothingSaid DEF PoolTyped, RaisedForAReason, AllAccountedFor, NothingMissed, Queued, WithDeque
<1>3. CASE \E w \in 1 .. next - 1, v \in 1 .. First : \E i \in DOMAIN deques[v] : StealSpecific(w, v, i)
  <2>1. outcome' = NoSteal
    BY <1>3 DEF StealSpecific
  <2> QED
    BY <1>3, <2>1, NothingSaid, StealSpecificKeeps DEF RaisedForAReason, NothingMissed
<1>4. CASE \E w \in 1 .. next - 1 : PopLocal(w)
  <2>1. PICK w \in 1 .. next - 1 : PopLocal(w)
    BY <1>4
  <2>2. /\ w \in WithDeque /\ deques[w] \in Seq(Items) /\ deques[w] # << >>
        /\ handed' = [handed EXCEPT ![Last(deques[w])] = w]
        /\ deques' = [deques EXCEPT ![w] = Front(deques[w])]
        /\ outcome'.result = "local" /\ UNCHANGED <<members, next, pushed, dropped>>
    BY <2>1 DEF PopLocal, End, historyOfTasks, PoolTyped
  <2>3. /\ Front(deques[w]) \in Seq(Items) /\ Last(deques[w]) \in Items
        /\ ToSet(deques[w]) \subseteq ToSet(Front(deques[w])) \cup {Last(deques[w])}
    BY <2>2, FrontHolds
  <2>4. PoolTyped' /\ AllAccountedFor'
    BY <2>2, <2>3, HandedKeeps
  <2> QED
    BY <2>2, <2>4 DEF RaisedForAReason, NothingMissed
<1>5. CASE \E w \in 1 .. next - 1 : Fails(w) \/ StrictRefusal(w)
  <2>1. PICK w \in 1 .. next - 1 : Fails(w) \/ StrictRefusal(w)
    BY <1>5
  <2>2. /\ UNCHANGED <<members, next, deques, handed, pushed, dropped>> /\ outcome'.result # "none"
        /\ outcome'.result = "raised" => outcome'.thief \notin WithDeque \cap members
    BY <2>1 DEF Fails, StrictRefusal, End, historyOfTasks
  <2> QED
    BY <2>2 DEF PoolTyped, RaisedForAReason, AllAccountedFor, NothingMissed, Queued, WithDeque
<1>6. CASE \E w \in 1 .. next - 1 : Steal(w)
  <2>1. PICK w \in 1 .. next - 1 : Steal(w)
    BY <1>6
  <2>2. UNCHANGED <<members, next, pushed, dropped>>
    BY <2>1 DEF Steal, historyOfTasks
  <2>3. CASE Found(w) = {}
    <3>1. UNCHANGED <<deques, handed>> /\ outcome'.result = (IF Reached(w) = 1 .. 3 THEN "none" ELSE "raised")
      BY <2>1, <2>3 DEF Steal, End
    <3>2. PoolTyped' /\ AllAccountedFor'
      BY <2>2, <3>1 DEF PoolTyped, AllAccountedFor, Queued, WithDeque
    <3>3. Reached(w) # 1 .. 3 => next > First + 1
      <4>1. ASSUME Reached(w) # 1 .. 3
            PROVE  \E u \in members : u \notin WithDeque
        <5>1. PICK l \in 1 .. 3 : l \notin Reached(w)
          BY <4>1 DEF Reached
        <5>2. PICK k \in 1 .. l : ~(Scope(w, Levels3[k]) \subseteq WithDeque)
          BY <5>1 DEF Reached
        <5> QED
          BY <5>2 DEF Scope
      <4> QED
        BY <4>1, AddedLater
    <3>4. NothingMissed'
      BY <2>1, <2>3, <3>1, WalksAreComplete DEF NothingMissed
    <3> QED
      BY <2>2, <3>1, <3>2, <3>3, <3>4 DEF RaisedForAReason
  <2>4. CASE Found(w) # {}
    <3>1. PICK s \in Found(w) : \E i \in Candidates(deques[s[2]]) :
                                   StealFrom(w, s[2], i) /\ outcome'.result = "stolen"
      BY <2>1, <2>4 DEF Steal, End, FirstStop, FirstTask
    <3>v. PICK v : v = s[2]
      OBVIOUS
    <3>i. PICK i \in Candidates(deques[v]) : StealFrom(w, v, i) /\ outcome'.result = "stolen"
      BY <3>1, <3>v
    <3>2. v \in WithDeque /\ i \in DOMAIN deques[v]
      <4>1. s \in Stops(w) /\ s[1] \in Reached(w) /\ v \in Scope(w, Levels3[s[1]])
        BY <3>1, <3>v DEF Found, Stops
      <4>2. Scope(w, Levels3[s[1]]) \subseteq WithDeque
        BY <4>1 DEF Reached
      <4> QED
        BY <3>i, <4>1, <4>2 DEF Candidates
    <3>3. deques[v] \in Seq(Items) /\ i \in 1 .. Len(deques[v]) /\ deques[v][i] \in Items
      BY <3>2, LenProperties, ElementOfSeq DEF PoolTyped
    <3>4. /\ RemoveAt(deques[v], i) \in Seq(Items)
          /\ ToSet(deques[v]) \subseteq ToSet(RemoveAt(deques[v], i)) \cup {deques[v][i]}
      BY <3>3, WithoutHolds
    <3>5. PoolTyped' /\ AllAccountedFor'
      BY <2>2, <3>i, <3>2, <3>3, <3>4, HandedKeeps DEF StealFrom
    <3> QED
      BY <3>i, <3>5 DEF RaisedForAReason, NothingMissed
  <2> QED
    BY <2>3, <2>4
<1>7. CASE Grow \/ Shrink
  <2>1. outcome' = NoSteal /\ UNCHANGED <<deques, handed, pushed, dropped>>
    BY <1>7 DEF Grow, Shrink, historyOfTasks
  <2>2. \/ next' = next + 1 /\ members' \subseteq members \cup {next}
        \/ next' = next /\ members' \subseteq members
    BY <1>7 DEF Grow, Shrink
  <2>3. next' \in Nat /\ next' >= next /\ members' \subseteq 1 .. next' - 1
    <3>1. next \in Nat /\ next > First /\ members \subseteq 1 .. next - 1
      BY DEF PoolTyped
    <3>2. next \in 1 .. next + 1 - 1 /\ 1 .. next - 1 \subseteq 1 .. next + 1 - 1
      BY <3>1, PoolAssumption
    <3>3. CASE next' = next + 1 /\ members' \subseteq members \cup {next}
      BY <3>1, <3>2, <3>3
    <3>4. CASE next' = next /\ members' \subseteq members
      BY <3>1, <3>4
    <3> QED
      BY <2>2, <3>3, <3>4
  <2>4. PoolTyped' /\ \A t : Queued(t)' = Queued(t)
    <3>1. /\ deques' \in [WithDeque -> Seq(Items)] /\ handed' \in [Items -> Nat]
          /\ pushed' \subseteq Items /\ next' > First
      BY <2>1, <2>3, PoolAssumption DEF PoolTyped
    <3>2. WithDeque' = WithDeque /\ \A t : Queued(t)' = Queued(t)
      BY <2>1 DEF Queued, WithDeque
    <3> QED
      BY <2>3, <3>1, <3>2 DEF PoolTyped
  <2>5. AllAccountedFor'
    BY <2>1, <2>3, <2>4, PoolAssumption DEF PoolTyped, AllAccountedFor
  <2>6. RaisedForAReason' /\ NothingMissed'
    BY <2>1, NothingSaid DEF RaisedForAReason, NothingMissed
  <2> QED
    BY <2>4, <2>5, <2>6
<1>8. CASE UNCHANGED poolVars
  BY <1>8 DEF poolVars, tasksVars, historyOfTasks, PoolTyped, RaisedForAReason, AllAccountedFor,
              NothingMissed, Queued, WithDeque, Reachable, Stealable, Movable
<1> QED
  BY <1>1, <1>2, <1>3, <1>4, <1>5, <1>6, <1>7, <1>8 DEF PoolNext

\* A worker that is told there is nothing to steal has not been failed by the walk: when it
\* was told, no worker of the federation had a task queued that could be stolen. A steal
\* that raises says nothing of the queues; it raises only for a worker that was removed or
\* in a federation that has grown, and only there may a pushed task be neither queued nor
\* handed over (attempt_steal, steal_specific).
THEOREM WalksMissNothing == PoolSpec => []WalkIsComplete
<1>1. PoolInit => PoolInv
  <2> SUFFICES ASSUME PoolInit
               PROVE  PoolInv
    OBVIOUS
  <2>1. << >> \in Seq(Items)
    OBVIOUS
  <2> QED
    BY <2>1, NothingSaid, PoolAssumption
       DEF PoolInit, PoolInv, PoolTyped, RaisedForAReason, AllAccountedFor, NothingMissed
<1>2. PoolInv /\ [PoolNext]_poolVars => PoolInv'
  BY PoolStep
<1>3. PoolInv => WalkIsComplete
  BY DEF PoolInv, RaisedForAReason, AllAccountedFor, NothingMissed, WalkIsComplete
<1> QED
  BY <1>1, <1>2, <1>3, PTL DEF PoolSpec


-----------------------------------------------------------------------------
(* The async engine.                                                         *)

AsyncSpec == AsyncInit /\ [][AsyncNext]_asyncVars

FutureStates == {"PENDING", "DONE", "FAILED", "CANCELLED"}
Frames == [remaining : Seq(Nat), still : Seq(Nat), progress : BOOLEAN, running : Nat]

AsyncTyped ==
    /\ futures \in Seq(FutureStates) /\ runs \in Seq({0, 1}) /\ Len(runs) = Len(futures)
    /\ pending \in Seq(Nat) /\ drains \in Seq(Frames) /\ completed \in Seq(Nat)

\* The futures a drain has in hand: to look at in this pass, kept for the next, running.
Queue(frame) == ToSet(frame.remaining) \cup ToSet(frame.still)
InHands(frame) == Queue(frame) \cup {frame.running}

\* A future waits in one place only.
FrameOk(frame) ==
    /\ IsInjective(frame.remaining) /\ IsInjective(frame.still)
    /\ ToSet(frame.remaining) \cap ToSet(frame.still) = {} /\ frame.running \notin Queue(frame)

Apart(s, t) == \A x \in s : x \in t => x = 0

KeptOnce ==
    /\ IsInjective(pending)
    /\ \A d \in 1 .. Len(drains) : FrameOk(drains[d]) /\ Apart(InHands(drains[d]), ToSet(pending))
    /\ \A d, e \in 1 .. Len(drains) : d # e => Apart(InHands(drains[d]), InHands(drains[e]))

\* Those that wait have not run, those that run have not ended.
Unrun(f) == f \in Submitted /\ runs[f] = 0
Ended(f) == futures[f] \in {"DONE", "FAILED"}
RunsInv ==
    /\ \A f \in ToSet(pending) : Unrun(f)
    /\ \A d \in 1 .. Len(drains) : \A f \in Queue(drains[d]) : Unrun(f)
    /\ \A d \in 1 .. Len(drains) :
          LET f == drains[d].running IN f # 0 => f \in Submitted /\ runs[f] = 1 /\ ~Ended(f)
    /\ \A f \in Submitted : Ended(f) => runs[f] = 1

ReportedOnce == IsInjective(completed) /\ ToSet(completed) = {f \in Submitted : Ended(f)}

\* Only the innermost drain is between two thunks, and as long as none of this pass has
\* ended, what it keeps for the next one still waits.
NestedInv ==
    /\ \A d \in 1 .. Len(drains) : d < Len(drains) => drains[d].running # 0
    /\ \A d \in 1 .. Len(drains) : drains[d].running = 0 /\ ~drains[d].progress =>
          \A f \in ToSet(drains[d].still) : Waiting(f)

AsyncInv == AsyncTyped /\ KeptOnce /\ RunsInv /\ ReportedOnce /\ NestedInv

\* A sequence without repetitions, longer or shorter by one.
LEMMA OneMore ==
    ASSUME NEW S, NEW s \in Seq(S), NEW x \in S
    PROVE  /\ Append(s, x) \in Seq(S) /\ ToSet(Append(s, x)) = ToSet(s) \cup {x}
           /\ IsInjective(s) /\ x \notin ToSet(s) => IsInjective(Append(s, x))
<1> DEFINE t == Append(s, x)
<1>1. /\ t \in Seq(S) /\ Len(t) = Len(s) + 1 /\ Len(s) \in Nat /\ t[Len(s) + 1] = x
      /\ \A i \in 1 .. Len(s) : t[i] = s[i]
      /\ DOMAIN t = 1 .. Len(t) /\ DOMAIN s = 1 .. Len(s)
  BY AppendProperties, LenProperties
<1> HIDE DEF t
<1>2. ToSet(t) = ToSet(s) \cup {x}
  <2>1. \A y : y \in ToSet(t) <=> \E i \in 1 .. Len(s) + 1 : t[i] = y
    BY <1>1 DEF ToSet
  <2>2. \A y : y \in ToSet(s) <=> \E i \in 1 .. Len(s) : s[i] = y
    BY <1>1 DEF ToSet
  <2>3. ASSUME NEW y
        PROVE  y \in ToSet(t) <=> y \in ToSet(s) \/ y = x
    BY <1>1, <2>1, <2>2
  <2> QED
    BY <2>3
<1>3. ASSUME IsInjective(s), x \notin ToSet(s)
      PROVE  IsInjective(t)
  <2>1. \A i \in 1 .. Len(s) : s[i] # x
    BY <1>1, <1>3 DEF ToSet
  <2>2. \A i, j \in 1 .. Len(s) : s[i] = s[j] => i = j
    BY <1>1, <1>3 DEF IsInjective
  <2>3. \A i, j \in 1 .. Len(s) + 1 : t[i] = t[j] => i = j
    BY <1>1, <2>1, <2>2
  <2> QED
    BY <1>1, <2>3 DEF IsInjective
<1> QED
  BY <1>1, <1>2, <1>3 DEF t

LEMMA OneLess ==
    ASSUME NEW S, NEW s \in Seq(S), s # << >>
    PROVE  /\ Tail(s) \in Seq(S) /\ Head(s) \in ToSet(s) /\ Head(s) \in S
           /\ IsInjective(s) => IsInjective(Tail(s)) /\ ToSet(Tail(s)) = ToSet(s) \ {Head(s)}
<1> DEFINE t == Tail(s)
<1>1. /\ t \in Seq(S) /\ Len(t) = Len(s) - 1 /\ Len(s) \in Nat \ {0} /\ Head(s) = s[1]
      /\ \A i \in 1 .. Len(t) : t[i] = s[i + 1]
      /\ DOMAIN t = 1 .. Len(t) /\ DOMAIN s = 1 .. Len(s)
  BY HeadTailProperties, LenProperties, EmptySeq
<1> HIDE DEF t
<1>2. Head(s) \in ToSet(s) /\ Head(s) \in S
  BY <1>1, ElementOfSeq DEF ToSet
<1>3. ASSUME IsInjective(s)
      PROVE  IsInjective(t) /\ ToSet(t) = ToSet(s) \ {Head(s)}
  <2>1. \A i, j \in 1 .. Len(s) : s[i] = s[j] => i = j
    BY <1>1, <1>3 DEF IsInjective
  <2>2. IsInjective(t)
    <3>1. \A i, j \in 1 .. Len(t) : t[i] = t[j] => i = j
      BY <1>1, <2>1
    <3> QED
      BY <1>1, <3>1 DEF IsInjective
  <2>3. \A y : y \in ToSet(t) <=> \E i \in 1 .. Len(s) - 1 : t[i] = y
    BY <1>1 DEF ToSet
  <2>4. \A y : y \in ToSet(s) <=> \E i \in 1 .. Len(s) : s[i] = y
    BY <1>1 DEF ToSet
  <2>5. ASSUME NEW y \in ToSet(t)
        PROVE  y \in ToSet(s) /\ y # s[1]
    <3>1. PICK i \in 1 .. Len(s) - 1 : t[i] = y
      BY <2>3
    <3>2. s[i + 1] = y /\ i + 1 \in 1 .. Len(s) /\ i + 1 # 1
      BY <1>1, <3>1
    <3> QED
      BY <1>1, <2>1, <2>4, <3>2
  <2>6. ASSUME NEW y \in ToSet(s), y # s[1]
        PROVE  y \in ToSet(t)
    <3>1. PICK i \in 1 .. Len(s) : s[i] = y
      BY <2>4
    <3>2. i - 1 \in 1 .. Len(t) /\ t[i - 1] = s[i]
      BY <1>1, <2>6, <3>1
    <3> QED
      BY <1>1, <2>3, <3>1, <3>2
  <2> QED
    BY <1>1, <2>2, <2>5, <2>6
<1> QED
  BY <1>1, <1>2, <1>3 DEF t

LEMMA TypedDrains ==
    ASSUME AsyncTyped
    PROVE  /\ Len(drains) \in Nat /\ Len(futures) \in Nat /\ 0 \notin Submitted
           /\ \A d \in 1 .. Len(drains) : drains[d] \in Frames
           /\ drains # << >> => Len(drains) \in 1 .. Len(drains) /\ Drain \in Frames
           /\ DOMAIN futures = Submitted /\ DOMAIN runs = Submitted
<1>1. Len(drains) \in Nat /\ \A d \in 1 .. Len(drains) : drains[d] \in Frames
  BY LenProperties, ElementOfSeq DEF AsyncTyped
<1>2. drains # << >> => Len(drains) \in 1 .. Len(drains)
  BY EmptySeq DEF AsyncTyped
<1>3. Len(futures) \in Nat /\ DOMAIN futures = Submitted /\ DOMAIN runs = Submitted
  BY LenProperties DEF AsyncTyped, Submitted
<1>4. 0 \notin Submitted
  BY <1>3 DEF Submitted
<1> QED
  BY <1>1, <1>2, <1>3, <1>4 DEF Drain

\* The stack of drains with another frame on top, in its place, or without its top.
LEMMA TopSet ==
    ASSUME AsyncTyped, drains # << >>, NEW frame \in Frames, drains' = SetDrain(frame)
    PROVE  /\ drains' \in Seq(Frames) /\ Len(drains') = Len(drains)
           /\ drains'[Len(drains)] = frame
           /\ \A d \in 1 .. Len(drains) : d # Len(drains) => drains'[d] = drains[d]
<1>1. drains \in Seq(Frames) /\ Len(drains) \in 1 .. Len(drains)
  BY TypedDrains DEF AsyncTyped
<1>2. drains' = [drains EXCEPT ![Len(drains)] = frame]
  BY DEF SetDrain
<1> QED
  BY <1>1, <1>2, ExceptSeq

LEMMA TopPut ==
    ASSUME AsyncTyped, NEW frame \in Frames, drains' = Append(drains, frame)
    PROVE  /\ drains' \in Seq(Frames) /\ Len(drains') = Len(drains) + 1
           /\ drains'[Len(drains) + 1] = frame
           /\ \A d \in 1 .. Len(drains) : drains'[d] = drains[d]
  BY AppendProperties DEF AsyncTyped

LEMMA TopGone ==
    ASSUME AsyncTyped, drains # << >>, drains' = Front(drains)
    PROVE  /\ drains' \in Seq(Frames) /\ Len(drains') = Len(drains) - 1
           /\ \A d \in 1 .. Len(drains) - 1 : drains'[d] = drains[d]
<1>1. drains \in Seq(Frames) /\ Len(drains) \in Nat \ {0}
  BY EmptySeq DEF AsyncTyped
<1>2. drains' = SubSeq(drains, 1, Len(drains) - 1)
  BY DEF Front
<1>3. /\ SubSeq(drains, 1, Len(drains) - 1) \in Seq(Frames)
      /\ Len(SubSeq(drains, 1, Len(drains) - 1)) = Len(drains) - 1
      /\ \A d \in 1 .. Len(drains) - 1 : SubSeq(drains, 1, Len(drains) - 1)[d] = drains[d]
  BY <1>1, FrontIs
<1> QED
  BY <1>2, <1>3

LEMMA FrameFields ==
    ASSUME NEW f \in Frames
    PROVE  /\ f.remaining \in Seq(Nat) /\ f.still \in Seq(Nat)
           /\ f.progress \in BOOLEAN /\ f.running \in Nat
  BY DEF Frames

\* The frames that the steps of a drain leave: a future kept or run, a thunk ended, the
\* next pass.
FrameKept(f, rest, kept) == [f EXCEPT !.remaining = rest, !.still = kept]
FrameRun(f, rest, x) == [f EXCEPT !.remaining = rest, !.running = x]
FrameEnd(f) == [f EXCEPT !.running = 0, !.progress = TRUE]
FrameAgain(f, rest, kept) == [f EXCEPT !.remaining = rest, !.still = kept, !.progress = FALSE]

LEMMA FrameKeeps ==
    ASSUME NEW f \in Frames, NEW r \in Seq(Nat), NEW s \in Seq(Nat)
    PROVE  /\ FrameKept(f, r, s) \in Frames
           /\ FrameKept(f, r, s).remaining = r /\ FrameKept(f, r, s).still = s
           /\ FrameKept(f, r, s).progress = f.progress /\ FrameKept(f, r, s).running = f.running
  BY DEF Frames, FrameKept

LEMMA FrameRuns ==
    ASSUME NEW f \in Frames, NEW r \in Seq(Nat), NEW x \in Nat
    PROVE  /\ FrameRun(f, r, x) \in Frames
           /\ FrameRun(f, r, x).remaining = r /\ FrameRun(f, r, x).still = f.still
           /\ FrameRun(f, r, x).progress = f.progress /\ FrameRun(f, r, x).running = x
  BY DEF Frames, FrameRun

LEMMA FrameEnds ==
    ASSUME NEW f \in Frames
    PROVE  /\ FrameEnd(f) \in Frames
           /\ FrameEnd(f).remaining = f.remaining /\ FrameEnd(f).still = f.still
           /\ FrameEnd(f).progress = TRUE /\ FrameEnd(f).running = 0
  BY DEF Frames, FrameEnd

LEMMA FramePasses ==
    ASSUME NEW f \in Frames, NEW r \in Seq(Nat), NEW s \in Seq(Nat)
    PROVE  /\ FrameAgain(f, r, s) \in Frames
           /\ FrameAgain(f, r, s).remaining = r /\ FrameAgain(f, r, s).still = s
           /\ FrameAgain(f, r, s).progress = FALSE /\ FrameAgain(f, r, s).running = f.running
  BY DEF Frames, FrameAgain

\* What another top frame must satisfy for the futures to be in one place still.
LEMMA TopKeepsPlaces ==
    ASSUME AsyncTyped, KeptOnce, drains # << >>, NEW frame \in Frames, drains' = SetDrain(frame),
           FrameOk(frame), InHands(frame) \subseteq InHands(Drain) \cup {0}, pending' = pending
    PROVE  KeptOnce'
<1>1. /\ Len(drains') = Len(drains) /\ drains'[Len(drains)] = frame
      /\ \A d \in 1 .. Len(drains) : d # Len(drains) => drains'[d] = drains[d]
  BY TopSet
<1>2. Len(drains) \in 1 .. Len(drains) /\ Drain = drains[Len(drains)]
  BY TypedDrains DEF Drain
<1>3. \A d \in 1 .. Len(drains) :
         FrameOk(drains'[d]) /\ InHands(drains'[d]) \subseteq InHands(drains[d]) \cup {0}
  BY <1>1, <1>2 DEF KeptOnce
<1>4. \A d \in 1 .. Len(drains) : Apart(InHands(drains'[d]), ToSet(pending'))
  BY <1>3 DEF KeptOnce, Apart
<1>5. ASSUME NEW d \in 1 .. Len(drains), NEW e \in 1 .. Len(drains), d # e
      PROVE  Apart(InHands(drains'[d]), InHands(drains'[e]))
  <2>1. Apart(InHands(drains[d]), InHands(drains[e]))
    BY <1>5 DEF KeptOnce
  <2> QED
    BY <1>3, <2>1 DEF Apart
<1> QED
  BY <1>1, <1>3, <1>4, <1>5 DEF KeptOnce

LEMMA ClientIsInside ==
    ASSUME AsyncTyped, NestedInv, ClientActs
    PROVE  \A d \in 1 .. Len(drains) : drains[d].running # 0
<1>1. drains # << >> => drains[Len(drains)].running # 0
  BY DEF ClientActs, Drain
<1>2. \A d \in 1 .. Len(drains) : drains # << >>
  BY EmptySeq DEF AsyncTyped
<1>3. Len(drains) \in Nat
  BY TypedDrains
<1> QED
  BY <1>1, <1>2, <1>3 DEF NestedInv

\* The client's calls: a new future, an edge, a cancellation, a completion read.
LEMMA SubmitKeeps ==
    ASSUME AsyncInv, NEW after, Submit(after)
    PROVE  AsyncInv'
<1> PICK n : n = Len(futures) + 1
  OBVIOUS
<1> USE DEF AsyncInv
<1>1. /\ futures' = Append(futures, "PENDING") /\ pending' = Append(pending, n)
      /\ runs' = Append(runs, 0) /\ UNCHANGED <<drains, completed>> /\ ClientActs
  BY DEF Submit
<1>2. /\ futures \in Seq(FutureStates) /\ runs \in Seq({0, 1}) /\ pending \in Seq(Nat)
      /\ Len(runs) = Len(futures) /\ Len(futures) \in Nat
  BY TypedDrains DEF AsyncTyped
<1>3. "PENDING" \in FutureStates /\ 0 \in {0, 1} /\ n \in Nat
  BY <1>2 DEF FutureStates
<1>4. /\ futures' \in Seq(FutureStates) /\ Len(futures') = n /\ futures'[n] = "PENDING"
      /\ \A f \in 1 .. Len(futures) : futures'[f] = futures[f]
  BY <1>1, <1>2, <1>3, AppendProperties
<1>5. /\ runs' \in Seq({0, 1}) /\ Len(runs') = n /\ runs'[n] = 0
      /\ \A f \in 1 .. Len(futures) : runs'[f] = runs[f]
  BY <1>1, <1>2, <1>3, AppendProperties
<1>6. /\ pending' \in Seq(Nat) /\ ToSet(pending') = ToSet(pending) \cup {n}
      /\ IsInjective(pending) /\ n \notin ToSet(pending) => IsInjective(pending')
  <2>1. /\ Append(pending, n) \in Seq(Nat) /\ ToSet(Append(pending, n)) = ToSet(pending) \cup {n}
        /\ IsInjective(pending) /\ n \notin ToSet(pending) => IsInjective(Append(pending, n))
    BY <1>2, <1>3, OneMore
  <2> QED
    BY <1>1, <2>1
<1>7. /\ Submitted' = Submitted \cup {n} /\ n \notin Submitted /\ n # 0
      /\ \A f \in Submitted : futures'[f] = futures[f] /\ runs'[f] = runs[f]
  BY <1>2, <1>4, <1>5 DEF Submitted
<1>8. n \notin ToSet(pending) /\ \A d \in 1 .. Len(drains) : n \notin InHands(drains[d])
  BY <1>7 DEF RunsInv, Unrun, InHands
<1>9. AsyncTyped'
  BY <1>1, <1>4, <1>5, <1>6 DEF AsyncTyped
<1>10. KeptOnce'
  BY <1>1, <1>6, <1>8 DEF KeptOnce, Apart
<1>11. RunsInv'
  <2>1. \A f : Unrun(f) => Unrun(f)'
    BY <1>7 DEF Unrun
  <2>2. Unrun(n)' /\ ~Ended(n)'
    BY <1>4, <1>5, <1>7 DEF Unrun, Ended
  <2>3. \A f \in Submitted : Ended(f)' = Ended(f)
    BY <1>7 DEF Ended
  <2> QED
    BY <1>1, <1>6, <1>7, <2>1, <2>2, <2>3 DEF RunsInv
<1>12. ReportedOnce'
  <2>1. ~Ended(n)' /\ \A f \in Submitted : Ended(f)' = Ended(f)
    BY <1>4, <1>7 DEF Ended
  <2> QED
    BY <1>1, <1>7, <2>1 DEF ReportedOnce
<1>13. NestedInv'
  BY <1>1, ClientIsInside DEF NestedInv
<1> QED
  BY <1>9, <1>10, <1>11, <1>12, <1>13

LEMMA CancelFutureKeeps ==
    ASSUME AsyncInv, NEW f \in Submitted, CancelFuture(f)
    PROVE  AsyncInv'
<1> USE DEF AsyncInv
<1>1. /\ futures' = [futures EXCEPT ![f] = "CANCELLED"] /\ futures[f] = "PENDING" /\ ClientActs
      /\ UNCHANGED <<pending, drains, completed, runs>>
  BY DEF CancelFuture
<1>2. futures \in Seq(FutureStates) /\ f \in 1 .. Len(futures) /\ "CANCELLED" \in FutureStates
  BY DEF AsyncTyped, Submitted, FutureStates
<1>3. /\ futures' \in Seq(FutureStates) /\ Len(futures') = Len(futures) /\ futures'[f] = "CANCELLED"
      /\ \A g \in 1 .. Len(futures) : g # f => futures'[g] = futures[g]
  BY <1>1, <1>2, ExceptSeq
<1>4. Submitted' = Submitted /\ \A g \in Submitted : Ended(g)' = Ended(g)
  BY <1>1, <1>3 DEF Submitted, Ended
<1>5. AsyncTyped' /\ KeptOnce'
  BY <1>1, <1>3 DEF AsyncTyped, KeptOnce
<1>6. RunsInv'
  BY <1>1, <1>4 DEF RunsInv, Unrun
<1>7. ReportedOnce'
  BY <1>1, <1>4 DEF ReportedOnce
<1>8. NestedInv'
  BY <1>1, ClientIsInside DEF NestedInv
<1> QED
  BY <1>5, <1>6, <1>7, <1>8

LEMMA OtherCallsKeep ==
    ASSUME AsyncInv, (\E pair \in Related : AddHappensBefore(pair)) \/ PopCompletion
    PROVE  AsyncInv'
<1> USE DEF AsyncInv
<1>1. UNCHANGED <<futures, pending, drains, completed, runs>> /\ ClientActs
  BY DEF AddHappensBefore, PopCompletion
<1>2. Submitted' = Submitted /\ \A f : Ended(f)' = Ended(f)
  BY <1>1 DEF Submitted, Ended
<1>3. AsyncTyped' /\ KeptOnce' /\ ReportedOnce'
  BY <1>1, <1>2 DEF AsyncTyped, KeptOnce, ReportedOnce
<1>4. RunsInv'
  BY <1>1, <1>2 DEF RunsInv, Unrun
<1>5. NestedInv'
  BY <1>1, ClientIsInside DEF NestedInv
<1> QED
  BY <1>3, <1>4, <1>5

\* A drain takes the pending futures over.
LEMMA StartDrainKeeps ==
    ASSUME AsyncInv, StartDrain
    PROVE  /\ AsyncInv' /\ Len(drains') = Len(drains) + 1
           /\ Queue(drains'[Len(drains) + 1]) = ToSet(pending)
           /\ \A d \in 1 .. Len(drains) : drains'[d] = drains[d]
<1> USE DEF AsyncInv
<1> PICK n : n = Len(drains) + 1
  OBVIOUS
<1> PICK frame : frame = [remaining |-> pending, still |-> << >>, progress |-> FALSE, running |-> 0]
  OBVIOUS
<1>1. /\ drains' = Append(drains, frame) /\ pending' = << >> /\ ClientActs
      /\ UNCHANGED <<futures, hb, completed, runs>>
  BY DEF StartDrain, TakenOver
<1>2. /\ frame \in Frames /\ frame.remaining = pending /\ frame.still = << >> /\ frame.running = 0
      /\ Len(drains) \in Nat /\ pending \in Seq(Nat)
  BY TypedDrains DEF AsyncTyped, Frames
<1>3. ToSet(<< >>) = {} /\ IsInjective(<< >>)
  BY DEF ToSet, IsInjective
<1>4. Queue(frame) = ToSet(pending) /\ InHands(frame) = ToSet(pending) \cup {0}
  BY <1>2, <1>3 DEF Queue, InHands
<1>5. /\ drains' \in Seq(Frames) /\ Len(drains') = n /\ drains'[n] = frame
      /\ \A d \in 1 .. Len(drains) : drains'[d] = drains[d] /\ d # n
      /\ \A d \in 1 .. n : d = n \/ d \in 1 .. Len(drains)
  BY <1>1, <1>2, TopPut
<1>6. 0 \notin ToSet(pending) /\ Submitted' = Submitted
  BY <1>1, TypedDrains DEF RunsInv, Unrun, Submitted
<1>7. AsyncTyped'
  BY <1>1, <1>5 DEF AsyncTyped
<1>8. FrameOk(frame)
  BY <1>2, <1>3, <1>4, <1>6 DEF FrameOk, KeptOnce
<1>9. KeptOnce'
  <2>1. \A d \in 1 .. n : FrameOk(drains'[d])
    BY <1>5, <1>8 DEF KeptOnce
  <2>2. \A d \in 1 .. n : Apart(InHands(drains'[d]), ToSet(pending'))
    BY <1>1, <1>3 DEF Apart
  <2>3. \A d \in 1 .. Len(drains) : Apart(InHands(drains[d]), InHands(frame))
                                    /\ Apart(InHands(frame), InHands(drains[d]))
    BY <1>4 DEF KeptOnce, Apart
  <2>4. \A d, e \in 1 .. n : d # e => Apart(InHands(drains'[d]), InHands(drains'[e]))
    BY <1>5, <2>3 DEF KeptOnce
  <2> QED
    BY <1>1, <1>3, <1>5, <2>1, <2>2, <2>4 DEF KeptOnce
<1>10. RunsInv'
  <2>1. \A f : Unrun(f)' = Unrun(f) /\ Ended(f)' = Ended(f)
    BY <1>1, <1>6 DEF Unrun, Ended
  <2>2. \A d \in 1 .. n : \A f \in Queue(drains'[d]) : Unrun(f)
    BY <1>4, <1>5 DEF RunsInv
  <2>3. \A d \in 1 .. n : drains'[d].running # 0 =>
           drains'[d].running \in Submitted /\ runs[drains'[d].running] = 1 /\ ~Ended(drains'[d].running)
    BY <1>2, <1>5 DEF RunsInv
  <2> QED
    BY <1>1, <1>3, <1>5, <1>6, <2>1, <2>2, <2>3 DEF RunsInv
<1>11. ReportedOnce'
  <2>1. \A f : Ended(f)' = Ended(f)
    BY <1>1 DEF Ended
  <2> QED
    BY <1>1, <1>6, <2>1 DEF ReportedOnce
<1>12. NestedInv'
  <2>1. \A d \in 1 .. Len(drains) : drains'[d].running # 0
    BY <1>1, <1>5, ClientIsInside
  <2>2. ToSet(drains'[n].still) = {}
    BY <1>2, <1>3, <1>5
  <2>3. \A d \in 1 .. n : d < n => d \in 1 .. Len(drains)
    BY <1>2
  <2> QED
    BY <1>5, <2>1, <2>2, <2>3 DEF NestedInv
<1> QED
  BY <1>4, <1>5, <1>7, <1>9, <1>10, <1>11, <1>12

\* The frame on top: where it is, what it is, and what every other frame has.
LEMMA TopFrame ==
    ASSUME AsyncInv, drains # << >>
    PROVE  /\ Len(drains) \in 1 .. Len(drains) /\ Drain = drains[Len(drains)] /\ Drain \in Frames
           /\ FrameOk(Drain) /\ Apart(InHands(Drain), ToSet(pending))
           /\ \A d \in 1 .. Len(drains) : d # Len(drains) =>
                 /\ drains[d].running # 0 /\ Apart(InHands(Drain), InHands(drains[d]))
           /\ \A f \in Queue(Drain) : Unrun(f)
<1>1. Len(drains) \in 1 .. Len(drains) /\ Drain = drains[Len(drains)] /\ Drain \in Frames
  BY TypedDrains DEF AsyncInv, Drain
<1>2. FrameOk(Drain) /\ Apart(InHands(Drain), ToSet(pending)) /\ \A f \in Queue(Drain) : Unrun(f)
  BY <1>1 DEF AsyncInv, KeptOnce, RunsInv
<1>3. \A d \in 1 .. Len(drains) : d # Len(drains) =>
         drains[d].running # 0 /\ Apart(InHands(Drain), InHands(drains[d]))
  BY <1>1 DEF AsyncInv, KeptOnce, NestedInv
<1> QED
  BY <1>1, <1>2, <1>3

\* Only the frame on top changes, and it lets go of no future that still has to run.
OnlyTheTop ==
    /\ Len(drains') = Len(drains)
    /\ \A d \in 1 .. Len(drains) : d # Len(drains) => drains'[d] = drains[d]
    /\ Queue(drains'[Len(drains)]) \subseteq Queue(Drain)
    /\ \A g \in Submitted : g \in InHands(Drain) /\ futures'[g] = "PENDING" =>
          g \in InHands(drains'[Len(drains)])

\* The next future waits for another: it is kept for the next pass.
LEMMA TakeWaitingKeeps ==
    ASSUME AsyncInv, TakeNext, Waiting(Head(Drain.remaining))
    PROVE  AsyncInv' /\ OnlyTheTop
<1> USE DEF AsyncInv
<1>f. PICK f : f = Head(Drain.remaining)
  OBVIOUS
<1>r. PICK rest : rest = Tail(Drain.remaining)
  OBVIOUS
<1>k. PICK kept : kept = Append(Drain.still, f)
  OBVIOUS
<1>g. PICK frame : frame = FrameKept(Drain, rest, kept)
  OBVIOUS
<1>1. /\ drains # << >> /\ Drain.running = 0 /\ Drain.remaining # << >>
      /\ drains' = SetDrain(frame) /\ runs' = runs
      /\ UNCHANGED <<futures, hb, pending, completed>> /\ Waiting(f)
  BY <1>f, <1>r, <1>k, <1>g DEF TakeNext, FrameKept
<1>2. /\ Len(drains) \in 1 .. Len(drains) /\ Drain = drains[Len(drains)] /\ Drain \in Frames
      /\ FrameOk(Drain) /\ \A g \in Queue(Drain) : Unrun(g)
      /\ \A d \in 1 .. Len(drains) : d # Len(drains) => drains[d].running # 0
  BY <1>1, TopFrame
<1>3. Drain.remaining \in Seq(Nat) /\ Drain.still \in Seq(Nat)
  BY <1>2, FrameFields
<1>4. /\ rest \in Seq(Nat) /\ f \in ToSet(Drain.remaining) /\ f \in Nat
      /\ IsInjective(rest) /\ ToSet(rest) = ToSet(Drain.remaining) \ {f}
  BY <1>1, <1>2, <1>3, <1>f, <1>r, OneLess DEF FrameOk
<1>5. f \notin ToSet(Drain.still)
  BY <1>2, <1>4 DEF FrameOk
<1>6. kept \in Seq(Nat) /\ ToSet(kept) = ToSet(Drain.still) \cup {f} /\ IsInjective(kept)
  <2>1. /\ Append(Drain.still, f) \in Seq(Nat)
        /\ ToSet(Append(Drain.still, f)) = ToSet(Drain.still) \cup {f}
        /\ IsInjective(Drain.still) /\ f \notin ToSet(Drain.still) => IsInjective(Append(Drain.still, f))
    BY <1>3, <1>4, OneMore
  <2> QED
    BY <1>2, <1>5, <1>k, <2>1 DEF FrameOk
<1>7. /\ frame \in Frames /\ frame.remaining = rest /\ frame.still = kept
      /\ frame.progress = Drain.progress /\ frame.running = Drain.running
  BY <1>2, <1>4, <1>6, <1>g, FrameKeeps
<1>8. Queue(frame) = Queue(Drain) /\ InHands(frame) = InHands(Drain)
  <2>1. Queue(frame) = ToSet(rest) \cup ToSet(kept)
    BY <1>7 DEF Queue
  <2>2. ToSet(rest) \cup ToSet(kept) = ToSet(Drain.remaining) \cup ToSet(Drain.still)
    BY <1>4, <1>6
  <2> QED
    BY <1>7, <2>1, <2>2 DEF Queue, InHands
<1>9. FrameOk(frame)
  BY <1>2, <1>4, <1>6, <1>7, <1>8 DEF FrameOk
<1>10. /\ drains' \in Seq(Frames) /\ Len(drains') = Len(drains) /\ drains'[Len(drains)] = frame
       /\ \A d \in 1 .. Len(drains) : d # Len(drains) => drains'[d] = drains[d]
  BY <1>1, <1>7, TopSet
<1>11. AsyncTyped'
  BY <1>1, <1>10 DEF AsyncTyped
<1>12. KeptOnce'
  BY <1>1, <1>7, <1>8, <1>9, TopKeepsPlaces
<1>13. Submitted' = Submitted /\ \A g : Unrun(g)' = Unrun(g) /\ Ended(g)' = Ended(g) /\ Waiting(g)' = Waiting(g)
  BY <1>1 DEF Submitted, Unrun, Ended, Waiting
<1>14. RunsInv'
  <2>1. \A d \in 1 .. Len(drains) : \A g \in Queue(drains'[d]) : Unrun(g)
    BY <1>2, <1>8, <1>10 DEF RunsInv
  <2>2. \A d \in 1 .. Len(drains) : drains'[d].running = drains[d].running
    BY <1>2, <1>7, <1>10
  <2> QED
    BY <1>1, <1>10, <1>13, <2>1, <2>2 DEF RunsInv
<1>15. ReportedOnce'
  BY <1>1, <1>13 DEF ReportedOnce
<1>16. NestedInv'
  <2>1. ~Drain.progress => \A g \in ToSet(Drain.still) : Waiting(g)
    BY <1>1, <1>2 DEF NestedInv
  <2>2. ~frame.progress => \A g \in ToSet(frame.still) : Waiting(g)
    BY <1>1, <1>6, <1>7, <2>1
  <2>3. \A d \in 1 .. Len(drains) : drains'[d].running = 0 => d = Len(drains)
    BY <1>2, <1>10
  <2>4. \A d \in 1 .. Len(drains) : d < Len(drains) => drains'[d].running # 0
    BY <1>2, <2>3
  <2>5. \A d \in 1 .. Len(drains) : drains'[d].running = 0 /\ ~drains'[d].progress =>
           \A g \in ToSet(drains'[d].still) : Waiting(g)
    BY <1>10, <2>2, <2>3
  <2> QED
    BY <1>10, <1>13, <2>4, <2>5 DEF NestedInv
<1>17. OnlyTheTop
  BY <1>8, <1>10 DEF OnlyTheTop
<1> QED
  BY <1>11, <1>12, <1>14, <1>15, <1>16, <1>17

\* The next future waits for none: its thunk is called, for the first time.
LEMMA TakeReadyKeeps ==
    ASSUME AsyncInv, TakeNext, ~Waiting(Head(Drain.remaining))
    PROVE  AsyncInv' /\ OnlyTheTop
<1> USE DEF AsyncInv
<1>f. PICK f : f = Head(Drain.remaining)
  OBVIOUS
<1>r. PICK rest : rest = Tail(Drain.remaining)
  OBVIOUS
<1>g. PICK frame : frame = FrameRun(Drain, rest, f)
  OBVIOUS
<1>1. /\ drains # << >> /\ Drain.running = 0 /\ Drain.remaining # << >>
      /\ drains' = SetDrain(frame) /\ runs' = [runs EXCEPT ![f] = @ + 1]
      /\ UNCHANGED <<futures, hb, pending, completed>>
  BY <1>f, <1>r, <1>g DEF TakeNext, FrameRun
<1>2. /\ Len(drains) \in 1 .. Len(drains) /\ Drain = drains[Len(drains)] /\ Drain \in Frames
      /\ FrameOk(Drain) /\ \A g \in Queue(Drain) : Unrun(g)
      /\ Apart(InHands(Drain), ToSet(pending))
      /\ \A d \in 1 .. Len(drains) : d # Len(drains) =>
            drains[d].running # 0 /\ Apart(InHands(Drain), InHands(drains[d]))
  BY <1>1, TopFrame
<1>3. Drain.remaining \in Seq(Nat) /\ Drain.still \in Seq(Nat)
  BY <1>2, FrameFields
<1>4. /\ rest \in Seq(Nat) /\ f \in ToSet(Drain.remaining) /\ f \in Nat
      /\ IsInjective(rest) /\ ToSet(rest) = ToSet(Drain.remaining) \ {f}
  BY <1>1, <1>2, <1>3, <1>f, <1>r, OneLess DEF FrameOk
<1>5. f \notin ToSet(Drain.still) /\ Unrun(f) /\ f # 0
  BY <1>2, <1>4, TypedDrains DEF FrameOk, Queue, Unrun
<1>6. /\ frame \in Frames /\ frame.remaining = rest /\ frame.still = Drain.still
      /\ frame.progress = Drain.progress /\ frame.running = f
  BY <1>2, <1>4, <1>g, FrameRuns
<1>7. Queue(frame) = Queue(Drain) \ {f} /\ InHands(frame) \subseteq InHands(Drain)
  <2>1. Queue(frame) = ToSet(rest) \cup ToSet(Drain.still)
    BY <1>6 DEF Queue
  <2>2. ToSet(rest) \cup ToSet(Drain.still) = (ToSet(Drain.remaining) \cup ToSet(Drain.still)) \ {f}
    BY <1>4, <1>5
  <2> QED
    BY <1>4, <1>6, <2>1, <2>2 DEF Queue, InHands
<1>8. FrameOk(frame)
  BY <1>2, <1>4, <1>6, <1>7 DEF FrameOk
<1>9. /\ drains' \in Seq(Frames) /\ Len(drains') = Len(drains) /\ drains'[Len(drains)] = frame
      /\ \A d \in 1 .. Len(drains) : d # Len(drains) => drains'[d] = drains[d]
  BY <1>1, <1>6, TopSet
<1>10. /\ runs' \in Seq({0, 1}) /\ Len(runs') = Len(runs) /\ f \in Submitted /\ runs'[f] = 1
       /\ \A g \in Submitted : g # f => runs'[g] = runs[g]
  <2>1. runs \in Seq({0, 1}) /\ f \in 1 .. Len(runs) /\ runs[f] = 0
    BY <1>5 DEF AsyncTyped, Unrun, Submitted
  <2>2. runs' = [runs EXCEPT ![f] = 1]
    BY <1>1, <2>1
  <2>3. Submitted = 1 .. Len(runs)
    BY DEF AsyncTyped, Submitted
  <2> QED
    BY <2>1, <2>2, <2>3, ExceptSeq
<1>11. AsyncTyped'
  BY <1>1, <1>9, <1>10 DEF AsyncTyped
<1>12. KeptOnce'
  BY <1>1, <1>6, <1>7, <1>8, TopKeepsPlaces
<1>13. /\ Submitted' = Submitted /\ \A g : Ended(g)' = Ended(g) /\ Waiting(g)' = Waiting(g)
       /\ \A g : g # f /\ Unrun(g) => Unrun(g)'
  BY <1>1, <1>10 DEF Submitted, Unrun, Ended, Waiting
<1>14. f \notin ToSet(pending) /\ \A d \in 1 .. Len(drains) : d # Len(drains) => f \notin InHands(drains[d])
  BY <1>2, <1>4, <1>5 DEF Apart, InHands, Queue
<1>15. RunsInv'
  <2>1. \A d \in 1 .. Len(drains) : \A g \in Queue(drains'[d]) : Unrun(g)'
    <3>1. ASSUME NEW d \in 1 .. Len(drains), NEW g \in Queue(drains'[d])
          PROVE  Unrun(g) /\ g # f
      <4>1. CASE d = Len(drains)
        BY <1>2, <1>7, <1>9, <3>1, <4>1
      <4>2. CASE d # Len(drains)
        BY <1>9, <1>14, <3>1, <4>2 DEF RunsInv, InHands
      <4> QED
        BY <4>1, <4>2
    <3> QED
      BY <1>13, <3>1
  <2>2. \A d \in 1 .. Len(drains) : LET g == drains'[d].running IN
           g # 0 => g \in Submitted /\ runs'[g] = 1 /\ ~Ended(g)
    <3>1. ASSUME NEW d \in 1 .. Len(drains), d # Len(drains), NEW g, g = drains[d].running, g # 0
          PROVE  g \in Submitted /\ runs'[g] = 1 /\ ~Ended(g)
      <4>1. g # f
        BY <1>14, <3>1 DEF InHands
      <4> QED
        BY <1>10, <3>1, <4>1 DEF RunsInv
    <3>2. f \in Submitted /\ runs'[f] = 1 /\ ~Ended(f)
      <4>1. runs[f] = 0
        BY <1>5 DEF Unrun
      <4> QED
        BY <1>10, <4>1 DEF RunsInv
    <3> QED
      BY <1>6, <1>9, <3>1, <3>2
  <2>3. \A g \in ToSet(pending) : Unrun(g)'
    BY <1>13, <1>14 DEF RunsInv
  <2>4. \A g \in Submitted : Ended(g) => runs'[g] = 1
    BY <1>10 DEF RunsInv
  <2> QED
    BY <1>1, <1>9, <1>13, <2>1, <2>2, <2>3, <2>4 DEF RunsInv
<1>16. ReportedOnce'
  BY <1>1, <1>13 DEF ReportedOnce
<1>17. NestedInv'
  <2>1. \A d \in 1 .. Len(drains) : drains'[d].running # 0
    BY <1>2, <1>5, <1>6, <1>9
  <2> QED
    BY <1>9, <2>1 DEF NestedInv
<1>18. OnlyTheTop
  <2>1. Queue(Drain) \subseteq InHands(frame)
    BY <1>6, <1>7 DEF InHands
  <2>2. \A g \in InHands(Drain) : g \in Queue(Drain) \/ g = 0
    BY <1>1 DEF InHands
  <2> QED
    BY <1>7, <1>9, <2>1, <2>2, TypedDrains DEF OnlyTheTop
<1> QED
  BY <1>11, <1>12, <1>15, <1>16, <1>17, <1>18

\* A thunk ends, and its future is reported.
LEMMA ResolveKeeps ==
    ASSUME AsyncInv, NEW result \in {"DONE", "FAILED"}, Resolve(result)
    PROVE  AsyncInv' /\ OnlyTheTop
<1> USE DEF AsyncInv
<1>f. PICK f : f = Drain.running
  OBVIOUS
<1>g. PICK frame : frame = FrameEnd(Drain)
  OBVIOUS
<1>1. /\ drains # << >> /\ f # 0 /\ futures[f] = "PENDING" /\ futures' = [futures EXCEPT ![f] = result]
      /\ completed' = Append(completed, f) /\ drains' = SetDrain(frame)
      /\ UNCHANGED <<hb, pending, runs>>
  BY <1>f, <1>g DEF Resolve, FrameEnd
<1>2. /\ Len(drains) \in 1 .. Len(drains) /\ Drain = drains[Len(drains)] /\ Drain \in Frames
      /\ FrameOk(Drain) /\ \A g \in Queue(Drain) : Unrun(g)
      /\ \A d \in 1 .. Len(drains) : d # Len(drains) =>
            drains[d].running # 0 /\ Apart(InHands(Drain), InHands(drains[d]))
  BY <1>1, TopFrame
<1>3. /\ frame \in Frames /\ frame.remaining = Drain.remaining /\ frame.still = Drain.still
      /\ frame.progress = TRUE /\ frame.running = 0
  BY <1>2, <1>g, FrameEnds
<1>4. Queue(frame) = Queue(Drain) /\ InHands(frame) \subseteq InHands(Drain) \cup {0}
  BY <1>3 DEF Queue, InHands
<1>5. FrameOk(frame)
  <2>1. 0 \notin Queue(Drain)
    BY <1>2, TypedDrains DEF Unrun
  <2> QED
    BY <1>2, <1>3, <1>4, <2>1 DEF FrameOk
<1>6. /\ drains' \in Seq(Frames) /\ Len(drains') = Len(drains) /\ drains'[Len(drains)] = frame
      /\ \A d \in 1 .. Len(drains) : d # Len(drains) => drains'[d] = drains[d]
  BY <1>1, <1>3, TopSet
<1>7. f \in Submitted /\ runs[f] = 1 /\ ~Ended(f) /\ f \in Nat
  BY <1>1, <1>2, <1>f, TypedDrains DEF RunsInv, Submitted
<1>8. /\ futures' \in Seq(FutureStates) /\ Len(futures') = Len(futures) /\ futures'[f] = result
      /\ \A g \in Submitted : g # f => futures'[g] = futures[g]
  <2>1. futures \in Seq(FutureStates) /\ f \in 1 .. Len(futures) /\ result \in FutureStates
    BY <1>7 DEF AsyncTyped, Submitted, FutureStates
  <2> QED
    BY <1>1, <2>1, ExceptSeq DEF Submitted
<1>9. Submitted' = Submitted /\ \A g \in Submitted : Ended(g)' <=> Ended(g) \/ g = f
  BY <1>8 DEF Submitted, Ended
<1>10. /\ completed' \in Seq(Nat) /\ ToSet(completed') = ToSet(completed) \cup {f}
       /\ IsInjective(completed')
  <2>1. /\ Append(completed, f) \in Seq(Nat) /\ ToSet(Append(completed, f)) = ToSet(completed) \cup {f}
        /\ IsInjective(completed) /\ f \notin ToSet(completed) => IsInjective(Append(completed, f))
    BY <1>7, OneMore DEF AsyncTyped
  <2>2. IsInjective(completed) /\ f \notin ToSet(completed)
    BY <1>7 DEF ReportedOnce
  <2> QED
    BY <1>1, <2>1, <2>2
<1>11. AsyncTyped'
  BY <1>1, <1>6, <1>8, <1>10 DEF AsyncTyped
<1>12. KeptOnce'
  BY <1>1, <1>3, <1>4, <1>5, TopKeepsPlaces
<1>13. RunsInv'
  <2>1. \A g : Unrun(g)' = Unrun(g)
    BY <1>1, <1>9 DEF Unrun
  <2>2. \A d \in 1 .. Len(drains) : \A g \in Queue(drains'[d]) : Unrun(g)
    BY <1>2, <1>4, <1>6 DEF RunsInv
  <2>3. ASSUME NEW d \in 1 .. Len(drains), NEW g, g = drains'[d].running, g # 0
        PROVE  g \in Submitted /\ runs[g] = 1 /\ ~Ended(g)'
    <3>1. d # Len(drains) /\ g = drains[d].running
      BY <1>3, <1>6, <2>3
    <3>2. f \in InHands(Drain) /\ g \in InHands(drains[d])
      BY <1>f, <3>1 DEF InHands
    <3>3. g # f
      BY <1>1, <1>2, <3>1, <3>2 DEF Apart
    <3> QED
      BY <1>9, <2>3, <3>1, <3>3 DEF RunsInv
  <2>4. \A g \in Submitted : Ended(g)' => runs[g] = 1
    BY <1>7, <1>9 DEF RunsInv
  <2> QED
    BY <1>1, <1>6, <1>9, <2>1, <2>2, <2>3, <2>4 DEF RunsInv
<1>14. ReportedOnce'
  BY <1>7, <1>9, <1>10 DEF ReportedOnce
<1>15. NestedInv'
  <2>1. \A d \in 1 .. Len(drains) : d < Len(drains) => drains'[d].running # 0
    BY <1>2, <1>6
  <2>2. \A d \in 1 .. Len(drains) : drains'[d].running # 0 \/ drains'[d].progress
    BY <1>2, <1>3, <1>6
  <2> QED
    BY <1>6, <2>1, <2>2 DEF NestedInv
<1>16. OnlyTheTop
  <2>1. \A g \in InHands(Drain) : g \in Queue(Drain) \/ g = f
    BY <1>f DEF InHands
  <2>2. futures'[f] # "PENDING"
    BY <1>8
  <2>3. Queue(Drain) \subseteq InHands(frame)
    BY <1>4 DEF InHands
  <2> QED
    BY <1>4, <1>6, <2>1, <2>2, <2>3 DEF OnlyTheTop
<1> QED
  BY <1>11, <1>12, <1>13, <1>14, <1>15, <1>16

\* A drain is left: what stays of the others, if the pending futures were in its hands.
LEMMA DrainLeaves ==
    ASSUME AsyncInv, drains # << >>, drains' = Front(drains), UNCHANGED <<futures, hb, completed, runs>>,
           pending' \in Seq(Nat), IsInjective(pending'),
           ToSet(pending') \subseteq ToSet(pending) \/ ToSet(pending') \subseteq Queue(Drain)
    PROVE  AsyncInv'
<1> USE DEF AsyncInv
<1>1. /\ drains' \in Seq(Frames) /\ Len(drains') = Len(drains) - 1 /\ Len(drains) \in Nat \ {0}
      /\ \A d \in 1 .. Len(drains) - 1 : drains'[d] = drains[d]
  BY TopGone, TypedDrains
<1>2. /\ \A d \in 1 .. Len(drains) - 1 : d \in 1 .. Len(drains) /\ d # Len(drains)
      /\ Drain = drains[Len(drains)] /\ Len(drains) \in 1 .. Len(drains)
  BY <1>1 DEF Drain
<1>3. Submitted' = Submitted /\ \A g : Unrun(g)' = Unrun(g) /\ Ended(g)' = Ended(g) /\ Waiting(g)' = Waiting(g)
  BY DEF Submitted, Unrun, Ended, Waiting
<1>4. AsyncTyped'
  BY <1>1 DEF AsyncTyped
<1>5. KeptOnce'
  <2>1. \A d \in 1 .. Len(drains) - 1 : Apart(InHands(drains[d]), ToSet(pending'))
    <3>1. \A d \in 1 .. Len(drains) - 1 : /\ Apart(InHands(drains[d]), ToSet(pending))
                                          /\ Apart(InHands(drains[d]), InHands(Drain))
      BY <1>2 DEF KeptOnce
    <3> QED
      BY <3>1 DEF Apart, InHands
  <2>2. \A d \in 1 .. Len(drains) - 1 : FrameOk(drains[d])
    BY <1>2 DEF KeptOnce
  <2>3. \A d, e \in 1 .. Len(drains) - 1 : d # e => Apart(InHands(drains[d]), InHands(drains[e]))
    BY <1>2 DEF KeptOnce
  <2> QED
    BY <1>1, <2>1, <2>2, <2>3 DEF KeptOnce
<1>6. RunsInv'
  <2>1. \A g \in ToSet(pending') : Unrun(g)
    BY <1>2 DEF RunsInv
  <2>2. \A d \in 1 .. Len(drains) - 1 : \A g \in Queue(drains[d]) : Unrun(g)
    BY <1>2 DEF RunsInv
  <2>3. \A d \in 1 .. Len(drains) - 1 : LET g == drains[d].running IN
           g # 0 => g \in Submitted /\ runs[g] = 1 /\ ~Ended(g)
    BY <1>2 DEF RunsInv
  <2>4. \A g \in Submitted : Ended(g) => runs[g] = 1
    BY DEF RunsInv
  <2> QED
    BY <1>1, <1>3, <2>1, <2>2, <2>3, <2>4 DEF RunsInv
<1>7. ReportedOnce'
  BY <1>3 DEF ReportedOnce
<1>8. NestedInv'
  <2>1. \A d \in 1 .. Len(drains) - 1 : drains'[d].running # 0
    BY <1>1, <1>2 DEF NestedInv
  <2> QED
    BY <1>1, <2>1 DEF NestedInv
<1> QED
  BY <1>4, <1>5, <1>6, <1>7, <1>8

LEMMA DrainRaisesKeeps ==
    ASSUME AsyncInv, DrainRaises
    PROVE  AsyncInv'
<1>1. /\ drains # << >> /\ drains' = Front(drains) /\ pending' = pending
      /\ UNCHANGED <<futures, hb, completed, runs>>
  BY DEF DrainRaises
<1>2. pending \in Seq(Nat) /\ IsInjective(pending)
  BY DEF AsyncInv, AsyncTyped, KeptOnce
<1> QED
  BY <1>1, <1>2, DrainLeaves

\* The pass ends the drain, or it goes over what it has kept again.
LEMMA EndOfPassKeeps ==
    ASSUME AsyncInv, EndOfPass
    PROVE  AsyncInv' /\ (~NoProgress => OnlyTheTop)
<1> USE DEF AsyncInv
<1>1. /\ drains # << >> /\ Drain.running = 0 /\ Drain.remaining = << >>
      /\ UNCHANGED <<futures, hb, completed, runs>>
  BY DEF EndOfPass
<1>2. /\ Len(drains) \in 1 .. Len(drains) /\ Drain = drains[Len(drains)] /\ Drain \in Frames
      /\ FrameOk(Drain) /\ \A g \in Queue(Drain) : Unrun(g)
      /\ \A d \in 1 .. Len(drains) : d # Len(drains) => drains[d].running # 0
  BY <1>1, TopFrame
<1>3. Drain.still \in Seq(Nat) /\ IsInjective(Drain.still) /\ ToSet(Drain.still) \subseteq Queue(Drain)
  BY <1>2, FrameFields DEF FrameOk, Queue
<1>4. CASE NoProgress
  <2>1. drains' = Front(drains) /\ pending' = Drain.still
    BY <1>4 DEF EndOfPass
  <2> QED
    BY <1>1, <1>3, <1>4, <2>1, DrainLeaves
<1>5. CASE ~NoProgress
  <2>k. PICK kept : kept = Drain.still
    OBVIOUS
  <2>n. PICK none : none = << >>
    OBVIOUS
  <2>g. PICK frame : frame = FrameAgain(Drain, kept, none)
    OBVIOUS
  <2>1. drains' = SetDrain(frame) /\ pending' = pending
    BY <1>5, <2>k, <2>n, <2>g DEF EndOfPass, FrameAgain
  <2>2. kept \in Seq(Nat) /\ none \in Seq(Nat) /\ ToSet(none) = {} /\ IsInjective(none)
    BY <1>3, <2>k, <2>n DEF ToSet, IsInjective
  <2>3. /\ frame \in Frames /\ frame.remaining = kept /\ frame.still = none
        /\ frame.progress = FALSE /\ frame.running = Drain.running
    <3>1. PICK top \in Frames : top = Drain
      BY <1>2
    <3>2. kept \in Seq(Nat) /\ none \in Seq(Nat)
      BY <2>2
    <3>3. frame = [top EXCEPT !.remaining = kept, !.still = none, !.progress = FALSE]
      BY <2>g, <3>1 DEF FrameAgain
    <3>4. /\ frame \in Frames /\ frame.remaining = kept /\ frame.still = none
          /\ frame.progress = FALSE /\ frame.running = top.running
      BY <3>2, <3>3 DEF Frames
    <3> QED
      BY <3>1, <3>4
  <2>4. Queue(frame) = ToSet(Drain.still) /\ InHands(frame) \subseteq InHands(Drain)
    BY <2>2, <2>3, <2>k DEF Queue, InHands
  <2>5. FrameOk(frame)
    BY <1>2, <1>3, <2>2, <2>3, <2>4, <2>k DEF FrameOk
  <2>6. /\ drains' \in Seq(Frames) /\ Len(drains') = Len(drains) /\ drains'[Len(drains)] = frame
        /\ \A d \in 1 .. Len(drains) : d # Len(drains) => drains'[d] = drains[d]
    BY <1>1, <2>1, <2>3, TopSet
  <2>7. AsyncTyped'
    BY <1>1, <2>1, <2>6 DEF AsyncTyped
  <2>8. KeptOnce'
    BY <1>1, <2>1, <2>3, <2>4, <2>5, TopKeepsPlaces
  <2>9. Submitted' = Submitted /\ \A g : Unrun(g)' = Unrun(g) /\ Ended(g)' = Ended(g)
    BY <1>1 DEF Submitted, Unrun, Ended
  <2>10. RunsInv'
    <3>1. \A d \in 1 .. Len(drains) : \A g \in Queue(drains'[d]) : Unrun(g)
      BY <1>2, <1>3, <2>4, <2>6 DEF RunsInv
    <3>2. \A d \in 1 .. Len(drains) : drains'[d].running = drains[d].running
      BY <1>2, <2>3, <2>6
    <3> QED
      BY <1>1, <2>1, <2>6, <2>9, <3>1, <3>2 DEF RunsInv
  <2>11. ReportedOnce'
    BY <1>1, <2>9 DEF ReportedOnce
  <2>12. NestedInv'
    <3>1. ToSet(frame.still) = {}
      BY <2>2, <2>3
    <3>2. \A d \in 1 .. Len(drains) : d < Len(drains) => drains'[d].running # 0
      BY <1>2, <2>6
    <3>3. \A d \in 1 .. Len(drains) : drains'[d].running = 0 => d = Len(drains)
      BY <1>2, <2>6
    <3> QED
      BY <2>6, <3>1, <3>2, <3>3 DEF NestedInv
  <2>13. OnlyTheTop
    <3>1. Queue(Drain) = ToSet(Drain.still)
      BY <1>1, <2>2, <2>n DEF Queue
    <3>2. \A g \in InHands(Drain) : g \in Queue(Drain) \/ g = 0
      BY <1>1 DEF InHands
    <3> QED
      BY <2>4, <2>6, <3>1, <3>2, TypedDrains DEF OnlyTheTop, InHands
  <2> QED
    BY <2>7, <2>8, <2>10, <2>11, <2>12, <2>13
<1> QED
  BY <1>4, <1>5

LEMMA AsyncStep ==
    ASSUME AsyncInv, [AsyncNext]_asyncVars
    PROVE  AsyncInv'
<1>1. CASE \E after \in SUBSET (1 .. MaxFutures) : Submit(after)
  BY <1>1, SubmitKeeps
<1>2. CASE (\E pair \in Related : AddHappensBefore(pair)) \/ PopCompletion
  BY <1>2, OtherCallsKeep
<1>3. CASE \E f \in Submitted : CancelFuture(f)
  BY <1>3, CancelFutureKeeps
<1>4. CASE StartDrain
  BY <1>4, StartDrainKeeps
<1>5. CASE TakeNext
  BY <1>5, TakeWaitingKeeps, TakeReadyKeeps
<1>6. CASE DrainRaises
  BY <1>6, DrainRaisesKeeps
<1>7. CASE EndOfPass
  BY <1>7, EndOfPassKeeps
<1>8. CASE \E result \in {"DONE", "FAILED"} : Resolve(result)
  BY <1>8, ResolveKeeps
<1>9. CASE UNCHANGED asyncVars
  BY <1>9 DEF asyncVars, AsyncInv, AsyncTyped, KeptOnce, RunsInv, ReportedOnce, NestedInv,
              Submitted, Unrun, Ended, Waiting
<1> QED
  BY <1>1, <1>2, <1>3, <1>4, <1>5, <1>6, <1>7, <1>8, <1>9 DEF AsyncNext

LEMMA AsyncIsSound == AsyncSpec => []AsyncInv
<1>1. AsyncInit => AsyncInv
  <2> SUFFICES ASSUME AsyncInit
               PROVE  AsyncInv
    OBVIOUS
  <2>1. /\ futures = << >> /\ pending = << >> /\ drains = << >> /\ completed = << >> /\ runs = << >>
    BY DEF AsyncInit
  <2>2. Len(<< >>) = 0 /\ ToSet(<< >>) = {} /\ IsInjective(<< >>)
    BY DEF ToSet, IsInjective
  <2>3. Submitted = {}
    BY <2>1, <2>2 DEF Submitted
  <2>4. AsyncTyped
    BY <2>1, EmptySeq DEF AsyncTyped
  <2> QED
    BY <2>1, <2>2, <2>3, <2>4 DEF AsyncInv, KeptOnce, RunsInv, ReportedOnce, NestedInv
<1>2. AsyncInv /\ [AsyncNext]_asyncVars => AsyncInv'
  BY AsyncStep
<1> QED
  BY <1>1, <1>2, PTL DEF AsyncSpec

\* Where the futures wait. A drain inside a thunk looks only at what thunks have submitted.
InPlace(f) == f \in ToSet(pending) \/ \E d \in 1 .. Len(drains) : f \in InHands(drains[d])

PlacesInv ==
    /\ drains # << >> => ToSet(pending) \subseteq inside
    /\ \A d \in 1 .. Len(drains) : d # 1 => Queue(drains[d]) \subseteq inside
    /\ ForgottenForAReason

\* Nothing is forgotten in a step that lets go only of what it has a reason for.
LEMMA NothingElseForgotten ==
    ASSUME AsyncTyped, AsyncTyped', ForgottenForAReason,
           inside \subseteq inside', abandoned \subseteq abandoned',
           \A f \in Submitted' : futures'[f] = "PENDING" =>
              \/ InPlace(f)' \/ f \in inside' \cup abandoned'
              \/ f \in Submitted /\ futures[f] = "PENDING" /\ ~InPlace(f)
    PROVE  ForgottenForAReason'
<1>1. DOMAIN drains = 1 .. Len(drains) /\ DOMAIN drains' = 1 .. Len(drains')
  BY LenProperties DEF AsyncTyped
<1>2. \A f : Held(f) <=> InPlace(f)
  BY <1>1 DEF Held, InPlace, InHands, Queue
<1>3. \A f : Held(f)' <=> InPlace(f)'
  BY <1>1 DEF Held, InPlace, InHands, Queue
<1>4. ASSUME NEW f \in Forgotten'
      PROVE  f \in inside' \cup abandoned'
  <2>1. f \in Submitted' /\ futures'[f] = "PENDING" /\ ~InPlace(f)'
    BY <1>3, <1>4 DEF Forgotten
  <2>2. CASE f \in Submitted /\ futures[f] = "PENDING" /\ ~InPlace(f)
    BY <1>2, <2>2 DEF ForgottenForAReason, Forgotten
  <2> QED
    BY <2>1, <2>2
<1> QED
  BY <1>4 DEF ForgottenForAReason

LEMMA PlacesStep ==
    ASSUME AsyncInv, PlacesInv, [AsyncNext]_asyncVars
    PROVE  PlacesInv'
<1>a. AsyncTyped /\ AsyncTyped' /\ ForgottenForAReason
  BY AsyncStep DEF AsyncInv, PlacesInv
<1>t. /\ Len(drains) \in Nat /\ 0 \notin Submitted
      /\ drains # << >> => Len(drains) \in 1 .. Len(drains) /\ Drain = drains[Len(drains)]
      /\ drains = << >> => Len(drains) = 0
  BY <1>a, TypedDrains, EmptySeq DEF Drain
<1>u. Len(drains') \in Nat /\ (drains' # << >> <=> Len(drains') # 0) /\ (drains # << >> <=> Len(drains) # 0)
  BY <1>a, EmptySeq, LenProperties DEF AsyncTyped
<1>1. CASE \E after \in SUBSET (1 .. MaxFutures) : Submit(after)
  <2> PICK n : n = Len(futures) + 1
    OBVIOUS
  <2>1. /\ futures' = Append(futures, "PENDING") /\ pending' = Append(pending, n)
        /\ UNCHANGED <<drains, abandoned>>
        /\ inside' = inside \cup (IF drains = << >> THEN {} ELSE {n})
    BY <1>1 DEF Submit
  <2>2. /\ pending \in Seq(Nat) /\ n \in Nat /\ futures \in Seq(FutureStates) /\ "PENDING" \in FutureStates
        /\ Len(futures) \in Nat
    BY <1>a, TypedDrains DEF AsyncTyped, FutureStates
  <2>3. ToSet(Append(pending, n)) = ToSet(pending) \cup {n}
    BY <2>2, OneMore
  <2>4. /\ Submitted' = Submitted \cup {n} /\ n \notin Submitted
        /\ \A f \in Submitted : futures'[f] = futures[f]
    BY <2>1, <2>2, AppendProperties DEF Submitted
  <2>5. \A f : InPlace(f) \/ f = n => InPlace(f)'
    BY <2>1, <2>3 DEF InPlace
  <2>6. ForgottenForAReason'
    BY <1>a, <2>1, <2>4, <2>5, NothingElseForgotten
  <2> QED
    BY <2>1, <2>3, <2>6 DEF PlacesInv
<1>2. CASE \E f \in Submitted : CancelFuture(f)
  <2>1. PICK f \in Submitted : CancelFuture(f)
    BY <1>2
  <2>2. /\ futures' = [futures EXCEPT ![f] = "CANCELLED"]
        /\ UNCHANGED <<drains, pending, inside, abandoned>>
    BY <2>1 DEF CancelFuture, historyVars
  <2>3. Submitted' = Submitted /\ \A g \in Submitted : futures'[g] = "PENDING" => futures[g] = "PENDING"
    <3>1. futures \in Seq(FutureStates) /\ f \in 1 .. Len(futures) /\ "CANCELLED" \in FutureStates
      BY <1>a, <2>1 DEF AsyncTyped, Submitted, FutureStates
    <3>2. /\ Len(futures') = Len(futures) /\ futures'[f] = "CANCELLED"
          /\ \A g \in 1 .. Len(futures) : g # f => futures'[g] = futures[g]
      BY <2>2, <3>1, ExceptSeq
    <3> QED
      BY <3>2 DEF Submitted
  <2>4. \A g : InPlace(g)' = InPlace(g)
    BY <2>2 DEF InPlace
  <2>5. ForgottenForAReason'
    BY <1>a, <2>2, <2>3, <2>4, NothingElseForgotten
  <2> QED
    BY <2>2, <2>5 DEF PlacesInv
<1>3. CASE (\E pair \in Related : AddHappensBefore(pair)) \/ PopCompletion \/ UNCHANGED asyncVars
  <2>1. UNCHANGED <<futures, drains, pending, inside, abandoned>>
    BY <1>3 DEF AddHappensBefore, PopCompletion, asyncVars, historyVars
  <2> QED
    BY <2>1 DEF PlacesInv, ForgottenForAReason, Forgotten, Submitted, Held
<1>4. CASE StartDrain
  <2>1. /\ pending' = << >> /\ UNCHANGED <<futures, inside, abandoned>>
    BY <1>4 DEF StartDrain, TakenOver, historyVars
  <2>2. /\ Len(drains') = Len(drains) + 1 /\ Queue(drains'[Len(drains) + 1]) = ToSet(pending)
        /\ \A d \in 1 .. Len(drains) : drains'[d] = drains[d]
    BY <1>4, StartDrainKeeps
  <2>3. ToSet(<< >>) = {} /\ Submitted' = Submitted
    BY <2>1 DEF ToSet, Submitted
  <2>4. \A f : InPlace(f) => InPlace(f)'
    <3>1. \A d \in 1 .. Len(drains) : d \in 1 .. Len(drains')
      BY <1>t, <2>2
    <3>2. Len(drains) + 1 \in 1 .. Len(drains') /\ ToSet(pending) \subseteq InHands(drains'[Len(drains) + 1])
      BY <1>t, <2>2 DEF InHands
    <3> QED
      BY <2>2, <3>1, <3>2 DEF InPlace
  <2>5. ForgottenForAReason'
    BY <1>a, <2>1, <2>3, <2>4, NothingElseForgotten
  <2>6. ASSUME NEW d \in 1 .. Len(drains'), d # 1
        PROVE  Queue(drains'[d]) \subseteq inside'
    <3>1. CASE d = Len(drains) + 1
      BY <1>t, <1>u, <2>1, <2>2, <2>6, <3>1 DEF PlacesInv
    <3>2. CASE d \in 1 .. Len(drains)
      BY <2>1, <2>2, <2>6, <3>2 DEF PlacesInv
    <3> QED
      BY <1>t, <2>2, <3>1, <3>2
  <2> QED
    BY <2>1, <2>3, <2>5, <2>6 DEF PlacesInv
<1>5. CASE TakeNext \/ (\E result \in {"DONE", "FAILED"} : Resolve(result)) \/ (EndOfPass /\ ~NoProgress)
  <2>1. OnlyTheTop /\ drains # << >>
    BY <1>5, TakeWaitingKeeps, TakeReadyKeeps, ResolveKeeps, EndOfPassKeeps DEF TakeNext, Resolve, EndOfPass
  <2>2. UNCHANGED <<pending, inside, abandoned>>
    BY <1>5 DEF TakeNext, Resolve, EndOfPass, historyVars
  <2>3. Submitted' = Submitted /\ \A g \in Submitted : futures'[g] = "PENDING" => futures[g] = "PENDING"
    <3>1. CASE TakeNext \/ EndOfPass
      BY <3>1 DEF TakeNext, EndOfPass, Submitted
    <3>2. CASE \E result \in {"DONE", "FAILED"} : Resolve(result)
      <4>1. PICK result \in {"DONE", "FAILED"} : futures' = [futures EXCEPT ![Drain.running] = result]
        BY <3>2 DEF Resolve
      <4>2. Len(futures') = Len(futures) /\ \A g \in DOMAIN futures : futures'[g] = futures[g] \/ futures'[g] = result
        BY <1>a, <4>1 DEF AsyncTyped
      <4> QED
        BY <1>a, <4>2, TypedDrains DEF Submitted
    <3> QED
      BY <1>5, <3>1, <3>2
  <2>4. ASSUME NEW f \in Submitted, InPlace(f), futures'[f] = "PENDING"
        PROVE  InPlace(f)'
    <3>1. CASE f \in ToSet(pending)
      BY <2>2, <3>1 DEF InPlace
    <3>2. CASE \E d \in 1 .. Len(drains) : d # Len(drains) /\ f \in InHands(drains[d])
      BY <2>1, <3>2 DEF InPlace, OnlyTheTop
    <3>3. CASE f \in InHands(Drain)
      BY <1>t, <2>1, <2>4, <3>3 DEF InPlace, OnlyTheTop
    <3> QED
      BY <1>t, <2>1, <2>4, <3>1, <3>2, <3>3 DEF InPlace
  <2>5. ForgottenForAReason'
    BY <1>a, <2>2, <2>3, <2>4, NothingElseForgotten
  <2>6. \A d \in 1 .. Len(drains') : d # 1 => Queue(drains'[d]) \subseteq inside'
    BY <1>t, <2>1, <2>2 DEF PlacesInv, OnlyTheTop
  <2> QED
    BY <1>t, <1>u, <2>1, <2>2, <2>5, <2>6 DEF PlacesInv
<1>6. CASE DrainRaises \/ (EndOfPass /\ NoProgress)
  <2>1. drains # << >> /\ drains' = Front(drains) /\ UNCHANGED <<futures, inside>> /\ abandoned \subseteq abandoned'
    BY <1>6 DEF DrainRaises, EndOfPass, historyVars
  <2>2. Len(drains') = Len(drains) - 1 /\ \A d \in 1 .. Len(drains) - 1 : drains'[d] = drains[d]
    BY <1>a, <2>1, TopGone
  <2>3. ToSet(pending) \subseteq inside /\ (Len(drains) # 1 => Queue(Drain) \subseteq inside)
    BY <1>t, <2>1 DEF PlacesInv
  <2>4. ToSet(pending') \subseteq ToSet(pending) \/ ToSet(pending') \subseteq Queue(Drain)
    BY <1>6 DEF DrainRaises, EndOfPass, Queue
  <2>5. ASSUME NEW f \in Submitted, InPlace(f), futures[f] = "PENDING"
        PROVE  InPlace(f)' \/ f \in inside' \cup abandoned'
    <3>1. CASE f \in ToSet(pending)
      BY <2>1, <2>3, <3>1
    <3>2. CASE \E d \in 1 .. Len(drains) : d # Len(drains) /\ f \in InHands(drains[d])
      <4>1. PICK d \in 1 .. Len(drains) : d # Len(drains) /\ f \in InHands(drains[d])
        BY <3>2
      <4>2. d \in 1 .. Len(drains) - 1 /\ d \in 1 .. Len(drains') /\ drains'[d] = drains[d]
        BY <1>t, <2>2, <4>1
      <4> QED
        BY <4>1, <4>2 DEF InPlace
    <3>3. CASE f \in InHands(Drain) /\ DrainRaises
      <4>1. f \in Queue(Drain) /\ abandoned' = abandoned \cup Queue(Drain)
        BY <2>5, <3>3 DEF DrainRaises, InHands, Queue
      <4> QED
        BY <4>1
    <3>4. CASE f \in InHands(Drain) /\ EndOfPass /\ NoProgress
      <4>1. ToSet(<< >>) = {}
        BY DEF ToSet
      <4>2. f \in ToSet(pending')
        BY <1>t, <3>4, <4>1 DEF EndOfPass, InHands, Queue
      <4> QED
        BY <4>2 DEF InPlace
    <3> QED
      BY <1>t, <1>6, <2>1, <2>5, <3>1, <3>2, <3>3, <3>4 DEF InPlace
  <2>6. Submitted' = Submitted
    BY <2>1 DEF Submitted
  <2>7. ForgottenForAReason'
    BY <1>a, <2>1, <2>5, <2>6, NothingElseForgotten
  <2>8. drains' # << >> => ToSet(pending') \subseteq inside'
    BY <1>t, <1>u, <2>1, <2>2, <2>3, <2>4
  <2>9. \A d \in 1 .. Len(drains') : d # 1 => Queue(drains'[d]) \subseteq inside'
    BY <1>t, <2>1, <2>2 DEF PlacesInv
  <2> QED
    BY <2>7, <2>8, <2>9 DEF PlacesInv
<1> QED
  BY <1>1, <1>2, <1>3, <1>4, <1>5, <1>6 DEF AsyncNext

LEMMA PlacesAreKept == AsyncSpec => []PlacesInv
<1>1. AsyncInit => PlacesInv
  <2> SUFFICES ASSUME AsyncInit
               PROVE  PlacesInv
    OBVIOUS
  <2>1. futures = << >> /\ drains = << >> /\ Len(<< >>) = 0
    BY DEF AsyncInit
  <2>2. Submitted = {} /\ 1 .. Len(drains) = {}
    BY <2>1 DEF Submitted
  <2> QED
    BY <2>1, <2>2 DEF PlacesInv, ForgottenForAReason, Forgotten
<1>2. AsyncInv /\ PlacesInv /\ [AsyncNext]_asyncVars => PlacesInv'
  BY PlacesStep
<1> QED
  BY <1>1, <1>2, AsyncIsSound, PTL DEF AsyncSpec

\* What a drain puts back when it returns waits still: nothing has run since it looked.
LEMMA ReturnsWhatWaits ==
    ASSUME AsyncInv, AsyncNext
    PROVE  DrainReturns
<1> SUFFICES ASSUME drains # << >>, drains' = Front(drains), pending' = Drain.still,
                    NEW i \in DOMAIN Drain.still
             PROVE  Waiting(Drain.still[i])
  BY DEF DrainReturns
<1>1. /\ Len(drains) \in 1 .. Len(drains) /\ Drain = drains[Len(drains)] /\ Drain \in Frames
      /\ Apart(InHands(Drain), ToSet(pending)) /\ \A g \in Queue(Drain) : Unrun(g)
  BY TopFrame
<1>2. Drain.still[i] \in ToSet(Drain.still) /\ Drain.still[i] \in Queue(Drain)
  BY DEF ToSet, Queue
<1>3. Len(drains') = Len(drains) - 1 /\ Len(drains) \in Nat
  BY TopGone, TypedDrains DEF AsyncInv
<1>4. pending' # pending
  <2>1. Drain.still[i] # 0
    BY <1>1, <1>2, TypedDrains DEF AsyncInv, Unrun
  <2> QED
    BY <1>1, <1>2, <2>1 DEF Apart, InHands
<1>5. CASE EndOfPass /\ NoProgress
  <2>1. Drain.running = 0 /\ (~Drain.progress \/ Drain.still = << >>)
    BY <1>5 DEF EndOfPass, NoProgress
  <2>2. ~Drain.progress
    <3>1. DOMAIN << >> = {}
      OBVIOUS
    <3> QED
      BY <2>1, <3>1
  <2> QED
    BY <1>1, <1>2, <2>1, <2>2 DEF AsyncInv, NestedInv
<1>6. CASE EndOfPass /\ ~NoProgress
  BY <1>4, <1>6 DEF EndOfPass
<1>7. CASE \E after \in SUBSET (1 .. MaxFutures) : Submit(after)
  BY <1>1, <1>3, <1>7 DEF Submit
<1>8. CASE StartDrain
  <2>1. Len(drains') = Len(drains) + 1
    BY <1>8, <1>3, LenProperties DEF StartDrain, AsyncInv, AsyncTyped
  <2> QED
    BY <1>3, <2>1
<1>9. CASE \/ \E pair \in Related : AddHappensBefore(pair)
           \/ \E f \in Submitted : CancelFuture(f)
           \/ \E result \in {"DONE", "FAILED"} : Resolve(result)
           \/ PopCompletion \/ TakeNext \/ DrainRaises
  BY <1>4, <1>9 DEF AddHappensBefore, CancelFuture, Resolve, PopCompletion, TakeNext, DrainRaises
<1> QED
  BY <1>5, <1>6, <1>7, <1>8, <1>9 DEF AsyncNext

\* No thunk runs twice and every future that a drain resolved is reported exactly once,
\* however drains are nested, futures cancelled and edges added in between; a drain that
\* returns puts back only what still waits; and a future that is pending but in nobody's
\* hands was submitted by a thunk or left by a drain that raised (AsyncEngine.drain,
\* completion_queue).
THEOREM ThunksRun == AsyncSpec => ThunksRunOnce
<1>1. AsyncInv => RunsOnce
  <2> SUFFICES ASSUME AsyncInv
               PROVE  RunsOnce
    OBVIOUS
  <2>1. \A f \in Submitted : runs[f] \in {0, 1}
    BY ElementOfSeq DEF AsyncInv, AsyncTyped, Submitted
  <2>2. ToSet(completed) = {f \in Submitted : futures[f] \in {"DONE", "FAILED"}}
    BY DEF AsyncInv, ReportedOnce, Ended
  <2> QED
    BY <2>1, <2>2 DEF AsyncInv, ReportedOnce, RunsOnce
<1>2. AsyncInv /\ [AsyncNext]_asyncVars => [DrainReturns]_asyncVars
  <2> SUFFICES ASSUME AsyncInv, [AsyncNext]_asyncVars
               PROVE  [DrainReturns]_asyncVars
    OBVIOUS
  <2>1. CASE AsyncNext
    <3>1. DrainReturns
      BY <2>1, ReturnsWhatWaits
    <3> QED
      BY <3>1
  <2>2. CASE asyncVars' = asyncVars
    BY <2>2
  <2> QED
    BY <2>1, <2>2
<1>3. PlacesInv => ForgottenForAReason
  BY DEF PlacesInv
<1>4. RunsOnce' /\ ForgottenForAReason' /\ [DrainReturns]_asyncVars =>
         [RunsOnce' /\ DrainReturns /\ ForgottenForAReason']_asyncVars
  OBVIOUS
<1> QED
  BY <1>1, <1>2, <1>3, <1>4, AsyncIsSound, PlacesAreKept, PTL DEF AsyncSpec, ThunksRunOnce


-----------------------------------------------------------------------------
(* The timer wheel.                                                          *)

WheelSpec == WheelInit /\ [][WheelNext]_wheelVars

AdvanceFrames == [left : Nat, due : SUBSET Nat, callback : BOOLEAN]

WheelTyped ==
    /\ now \in Nat /\ fireTick \in Seq(Nat) /\ delay \in Seq(Nat) /\ Len(delay) = Len(fireTick)
    /\ wheel \in [0 .. Slots - 1 -> SUBSET Timers]
    /\ firedTimers \in Seq(Nat) /\ advances \in Seq(AdvanceFrames) /\ raisers \subseteq Timers

\* A timer whose tick is ahead is in the slot that will be searched for it.
Ahead == \A t \in Timers : fireTick[t] > now => t \in wheel[SlotOf(fireTick[t])]

\* A timer due is in the hands of one advance; one that calls has a timer to call.
HandsSound ==
    /\ \A i \in DOMAIN advances : \A t \in advances[i].due :
          t \in Timers /\ fireTick[t] <= now /\ delay[t] > 0
    /\ \A i \in DOMAIN advances : \A t, u \in advances[i].due : fireTick[t] = fireTick[u]
    /\ \A i \in DOMAIN advances : advances[i].callback => advances[i].due # {}
    /\ \A i, j \in DOMAIN advances : i # j => advances[i].due \cap advances[j].due = {}

FiredSound ==
    /\ IsInjective(firedTimers) /\ ToSet(firedTimers) \cap raisers = {}
    /\ \A t \in CalledBack : t \in Timers /\ fireTick[t] <= now /\ delay[t] > 0 /\ ~InHand(t)

PassedIsCalled ==
    \A t \in Timers : delay[t] > 0 /\ fireTick[t] <= now => t \in CalledBack \/ InHand(t) \/ LeftBehind(t)

\* A timer of delay 0 is in its slot, and its tick is not ahead.
ZeroStays ==
    \A t \in Timers : delay[t] = 0 => fireTick[t] <= now /\ t \in wheel[SlotOf(fireTick[t])]

WheelInv ==
    WheelTyped /\ Ahead /\ HandsSound /\ FiredSound /\ PassedIsCalled /\ ZeroStays

LEMMA SlotIn == \A x \in Nat : SlotOf(x) \in 0 .. Slots - 1
  BY WheelAssumption DEF SlotOf

LEMMA TimersTyped ==
    ASSUME WheelTyped
    PROVE  /\ Len(fireTick) \in Nat /\ Timers = 1 .. Len(fireTick) /\ Timers \subseteq Nat
           /\ \A t \in Timers : fireTick[t] \in Nat /\ delay[t] \in Nat
           /\ Len(advances) \in Nat /\ DOMAIN advances = 1 .. Len(advances)
           /\ \A i \in DOMAIN advances : /\ advances[i] \in AdvanceFrames
                                         /\ advances[i].left \in Nat /\ advances[i].due \in SUBSET Nat
                                         /\ advances[i].callback \in BOOLEAN
           /\ advances # << >> => Len(advances) \in DOMAIN advances /\ ThisAdvance \in AdvanceFrames
<1>1. Len(fireTick) \in Nat /\ Timers = 1 .. Len(fireTick)
  BY LenProperties DEF WheelTyped, Timers
<1>2. \A t \in Timers : fireTick[t] \in Nat /\ delay[t] \in Nat
  BY <1>1, ElementOfSeq DEF WheelTyped
<1>3. Len(advances) \in Nat /\ DOMAIN advances = 1 .. Len(advances)
  BY LenProperties DEF WheelTyped
<1>4. \A i \in DOMAIN advances : advances[i] \in AdvanceFrames
  BY <1>3, ElementOfSeq DEF WheelTyped
<1>5. \A f \in AdvanceFrames : f.left \in Nat /\ f.due \in SUBSET Nat /\ f.callback \in BOOLEAN
  BY DEF AdvanceFrames
<1>6. advances # << >> => Len(advances) \in DOMAIN advances
  BY <1>3, EmptySeq DEF WheelTyped
<1> QED
  BY <1>1, <1>2, <1>3, <1>4, <1>5, <1>6 DEF ThisAdvance

\* Another frame for the advance on top.
LEMMA AdvanceSet ==
    ASSUME WheelTyped, advances # << >>, NEW f \in AdvanceFrames, advances' = SetAdvance(f)
    PROVE  /\ advances' \in Seq(AdvanceFrames) /\ DOMAIN advances' = DOMAIN advances
           /\ \A i \in DOMAIN advances : advances'[i] = IF i = Len(advances) THEN f ELSE advances[i]
<1>1. advances \in Seq(AdvanceFrames) /\ Len(advances) >= 1
  BY EmptySeq DEF WheelTyped
<1>2. advances' = [advances EXCEPT ![Len(advances)] = f]
  BY DEF SetAdvance
<1>3. /\ advances' \in Seq(AdvanceFrames) /\ Len(advances') = Len(advances)
      /\ \A i \in 1 .. Len(advances) : advances'[i] = IF i = Len(advances) THEN f ELSE advances[i]
  BY <1>1, <1>2, LastReplaced
<1> QED
  BY <1>1, <1>3, LenProperties

\* The frames that a tick, a call and the end of a call leave.
FrameTicked(f, n, S) == [f EXCEPT !.left = n, !.due = S]
FrameCalls(f) == [f EXCEPT !.callback = TRUE]
FrameCalled(f, S) == [f EXCEPT !.due = S, !.callback = FALSE]

LEMMA TickedIs ==
    ASSUME NEW f \in AdvanceFrames, NEW n \in Nat, NEW S \in SUBSET Nat
    PROVE  /\ FrameTicked(f, n, S) \in AdvanceFrames /\ FrameTicked(f, n, S).due = S
           /\ FrameTicked(f, n, S).callback = f.callback
  BY DEF AdvanceFrames, FrameTicked

LEMMA CallsIs ==
    ASSUME NEW f \in AdvanceFrames
    PROVE  FrameCalls(f) \in AdvanceFrames /\ FrameCalls(f).due = f.due /\ FrameCalls(f).callback = TRUE
  BY DEF AdvanceFrames, FrameCalls

LEMMA CalledIs ==
    ASSUME NEW f \in AdvanceFrames, NEW S \in SUBSET Nat
    PROVE  /\ FrameCalled(f, S) \in AdvanceFrames /\ FrameCalled(f, S).due = S
           /\ FrameCalled(f, S).callback = FALSE
  BY DEF AdvanceFrames, FrameCalled

LEMMA NextIsDue ==
    ASSUME WheelInv, advances # << >>, ThisAdvance.due # {}
    PROVE  NextDue \in ThisAdvance.due /\ \A u \in ThisAdvance.due : NextDue <= u
<1>1. ThisAdvance.due \in SUBSET Nat
  BY TimersTyped DEF WheelInv, ThisAdvance
<1>2. \E t \in ThisAdvance.due : \A u \in ThisAdvance.due : t <= u
  BY <1>1, LeastExists
<1> QED
  BY <1>2 DEF NextDue

LEMMA ScheduleKeeps ==
    ASSUME WheelInv, NEW d \in 0 .. Slots, Schedule(d)
    PROVE  WheelInv'
<1>x. PICK x : x = now + d
  OBVIOUS
<1>n. PICK n : n = Len(fireTick) + 1
  OBVIOUS
<1>1. /\ x \in Nat /\ n \in Nat /\ d \in Nat /\ now \in Nat /\ Len(fireTick) \in Nat
  BY <1>x, <1>n, WheelAssumption, TimersTyped DEF WheelInv, WheelTyped
<1>2. /\ fireTick' = Append(fireTick, x) /\ delay' = Append(delay, d)
      /\ wheel' = [wheel EXCEPT ![SlotOf(x)] = @ \cup {n}]
      /\ UNCHANGED <<now, firedTimers, advances, raisers>>
  BY <1>x, <1>n DEF Schedule
<1>3. /\ fireTick' \in Seq(Nat) /\ Len(fireTick') = n /\ fireTick'[n] = x
      /\ \A t \in 1 .. Len(fireTick) : fireTick'[t] = fireTick[t]
  <2>1. /\ Append(fireTick, x) \in Seq(Nat) /\ Len(Append(fireTick, x)) = Len(fireTick) + 1
        /\ Append(fireTick, x)[Len(fireTick) + 1] = x
        /\ \A t \in 1 .. Len(fireTick) : Append(fireTick, x)[t] = fireTick[t]
    BY <1>1, AppendProperties DEF WheelInv, WheelTyped
  <2> QED
    BY <1>n, <1>2, <2>1
<1>4. /\ delay' \in Seq(Nat) /\ Len(delay') = n /\ delay'[n] = d
      /\ \A t \in 1 .. Len(fireTick) : delay'[t] = delay[t]
  <2>1. /\ Append(delay, d) \in Seq(Nat) /\ Len(Append(delay, d)) = Len(delay) + 1
        /\ Append(delay, d)[Len(delay) + 1] = d
        /\ \A t \in 1 .. Len(delay) : Append(delay, d)[t] = delay[t]
    BY <1>1, AppendProperties DEF WheelInv, WheelTyped
  <2>2. Len(delay) = Len(fireTick)
    BY DEF WheelInv, WheelTyped
  <2> QED
    BY <1>n, <1>2, <2>1, <2>2
<1>5. Timers' = Timers \cup {n} /\ n \notin Timers /\ Timers = 1 .. Len(fireTick)
  BY <1>1, <1>n, <1>3 DEF Timers
<1>6. SlotOf(x) \in 0 .. Slots - 1
  BY <1>1, SlotIn
<1>7. /\ wheel' \in [0 .. Slots - 1 -> SUBSET (Timers \cup {n})] /\ n \in wheel'[SlotOf(x)]
      /\ \A s \in 0 .. Slots - 1 : wheel[s] \subseteq wheel'[s]
  <2>1. wheel \in [0 .. Slots - 1 -> SUBSET Timers]
    BY DEF WheelInv, WheelTyped
  <2> QED
    BY <1>2, <1>6, <2>1
<1>8. WheelTyped'
  BY <1>1, <1>2, <1>3, <1>4, <1>5, <1>7 DEF WheelInv, WheelTyped
<1>9. Ahead'
  <2> SUFFICES ASSUME NEW t \in Timers', fireTick'[t] > now
               PROVE  t \in wheel'[SlotOf(fireTick'[t])]
    BY <1>2 DEF Ahead, SlotOf
  <2>1. CASE t = n
    BY <1>3, <1>7, <2>1
  <2>2. CASE t \in Timers
    <3>1. fireTick'[t] = fireTick[t] /\ fireTick[t] \in Nat
      BY <1>3, <1>5, <2>2, TimersTyped DEF WheelInv
    <3>2. t \in wheel[SlotOf(fireTick[t])] /\ SlotOf(fireTick[t]) \in 0 .. Slots - 1
      BY <2>2, <3>1, SlotIn DEF WheelInv, Ahead
    <3> QED
      BY <1>7, <3>1, <3>2
  <2> QED
    BY <1>5, <2>1, <2>2
<1>10. \A t \in Timers : fireTick'[t] = fireTick[t] /\ delay'[t] = delay[t] /\ t \in Timers'
  BY <1>3, <1>4, <1>5
<1>11. /\ \A t : InHand(t)' <=> InHand(t)
       /\ CalledBack' = CalledBack
       /\ \A t \in Timers : LeftBehind(t) => LeftBehind(t)'
  <2>1. raisers \subseteq Timers
    BY DEF WheelInv, WheelTyped
  <2> QED
    BY <1>2, <1>10, <2>1 DEF InHand, CalledBack, LeftBehind
<1>12. HandsSound'
  <2>1. \A i \in DOMAIN advances : \A t \in advances[i].due :
           t \in Timers /\ fireTick[t] <= now /\ delay[t] > 0
    BY DEF WheelInv, HandsSound
  <2>2. \A i \in DOMAIN advances : \A t \in advances[i].due :
           t \in Timers' /\ fireTick'[t] <= now /\ delay'[t] > 0
    BY <1>10, <2>1
  <2>3. \A i \in DOMAIN advances : \A t, u \in advances[i].due : fireTick'[t] = fireTick'[u]
    BY <1>10, <2>1 DEF WheelInv, HandsSound
  <2>4. /\ \A i \in DOMAIN advances : advances[i].callback => advances[i].due # {}
        /\ \A i, j \in DOMAIN advances : i # j => advances[i].due \cap advances[j].due = {}
    BY DEF WheelInv, HandsSound
  <2>5. advances' = advances /\ now' = now
    BY <1>2
  <2> QED
    BY <2>2, <2>3, <2>4, <2>5, Zenon DEF HandsSound
<1>13. FiredSound'
  BY <1>2, <1>10, <1>11 DEF WheelInv, FiredSound
<1>15. ZeroStays'
  <2> SUFFICES ASSUME NEW t \in Timers', delay'[t] = 0
               PROVE  fireTick'[t] <= now /\ t \in wheel'[SlotOf(fireTick'[t])]
    BY <1>2 DEF ZeroStays, SlotOf
  <2>1. CASE t = n
    BY <1>1, <1>x, <1>3, <1>4, <1>7, <2>1
  <2>2. CASE t \in Timers
    <3>1. /\ fireTick'[t] = fireTick[t] /\ delay[t] = 0 /\ fireTick[t] \in Nat
      BY <1>10, <2>2, TimersTyped DEF WheelInv
    <3>2. /\ fireTick[t] <= now /\ t \in wheel[SlotOf(fireTick[t])]
          /\ SlotOf(fireTick[t]) \in 0 .. Slots - 1
      BY <2>2, <3>1, SlotIn DEF WheelInv, ZeroStays
    <3> QED
      BY <1>7, <3>1, <3>2
  <2> QED
    BY <1>5, <2>1, <2>2
<1>14. PassedIsCalled'
  <2> SUFFICES ASSUME NEW t \in Timers', delay'[t] > 0, fireTick'[t] <= now
               PROVE  t \in CalledBack \/ InHand(t) \/ LeftBehind(t)'
    BY <1>2, <1>11 DEF PassedIsCalled
  <2>1. t # n
    BY <1>1, <1>x, <1>3, <1>4
  <2>2. t \in Timers /\ delay[t] > 0 /\ fireTick[t] <= now
    BY <1>5, <1>10, <2>1
  <2> QED
    BY <1>11, <2>2 DEF WheelInv, PassedIsCalled
<1> QED
  BY <1>8, <1>9, <1>12, <1>13, <1>14, <1>15 DEF WheelInv

\* An advance begins with nothing in its hands.
LEMMA StartAdvanceKeeps ==
    ASSUME WheelInv, NEW ticks \in 0 .. 2, StartAdvance(ticks)
    PROVE  WheelInv'
<1>f. PICK f : f = [left |-> ticks, due |-> {}, callback |-> FALSE]
  OBVIOUS
<1>1. f \in AdvanceFrames /\ f.due = {} /\ f.callback = FALSE
  BY <1>f DEF AdvanceFrames
<1>2. advances' = Append(advances, f) /\ UNCHANGED <<now, fireTick, wheel, firedTimers, delay, raisers>>
  BY <1>f DEF StartAdvance
<1>n. PICK n : n = Len(advances) + 1
  OBVIOUS
<1>3. /\ advances' \in Seq(AdvanceFrames) /\ DOMAIN advances' = DOMAIN advances \cup {n} /\ n \notin DOMAIN advances
      /\ advances'[n] = f /\ \A i \in DOMAIN advances : advances'[i] = advances[i]
  <2>1. /\ Append(advances, f) \in Seq(AdvanceFrames) /\ Len(Append(advances, f)) = Len(advances) + 1
        /\ Append(advances, f)[Len(advances) + 1] = f
        /\ \A i \in 1 .. Len(advances) : Append(advances, f)[i] = advances[i]
    BY <1>1, AppendProperties DEF WheelInv, WheelTyped
  <2>2. Len(advances) \in Nat /\ DOMAIN advances = 1 .. Len(advances)
    BY TimersTyped DEF WheelInv
  <2>3. DOMAIN advances' = 1 .. Len(advances')
    BY <1>2, <2>1, LenProperties
  <2> QED
    BY <1>n, <1>2, <2>1, <2>2, <2>3
<1>4. /\ Timers' = Timers /\ CalledBack' = CalledBack
      /\ \A t : (InHand(t)' <=> InHand(t)) /\ (LeftBehind(t)' <=> LeftBehind(t))
  BY <1>1, <1>2, <1>3 DEF Timers, InHand, CalledBack, LeftBehind
<1>5. WheelTyped' /\ Ahead'
  BY <1>2, <1>3, <1>4 DEF WheelInv, WheelTyped, Ahead, SlotOf
<1>6. HandsSound'
  <2>1. \A i \in DOMAIN advances' : i = n \/ (i \in DOMAIN advances /\ advances'[i] = advances[i])
    BY <1>3
  <2> QED
    BY <1>1, <1>2, <1>3, <1>4, <2>1 DEF WheelInv, HandsSound
<1>7. FiredSound' /\ PassedIsCalled' /\ ZeroStays'
  BY <1>2, <1>4 DEF WheelInv, FiredSound, PassedIsCalled, ZeroStays, SlotOf
<1> QED
  BY <1>5, <1>6, <1>7 DEF WheelInv

LEMMA TickKeeps ==
    ASSUME WheelInv, Tick
    PROVE  WheelInv'
<1>m. PICK m : m = now + 1
  OBVIOUS
<1>D. PICK D : D = Due(m)
  OBVIOUS
<1>n. PICK n : n = ThisAdvance.left - 1
  OBVIOUS
<1>f. PICK f : f = FrameTicked(ThisAdvance, n, D)
  OBVIOUS
<1>1. /\ advances # << >> /\ ~ThisAdvance.callback /\ ThisAdvance.due = {} /\ ThisAdvance.left > 0
      /\ now' = m /\ UNCHANGED <<fireTick, wheel, firedTimers, delay, raisers>>
  BY <1>m DEF Tick
<1>2. advances' = SetAdvance(f)
  BY <1>m, <1>D, <1>n, <1>f DEF Tick, FrameTicked
<1>3. /\ now \in Nat /\ m \in Nat /\ m > now /\ Len(advances) \in DOMAIN advances
      /\ ThisAdvance \in AdvanceFrames /\ ThisAdvance.left \in Nat /\ n \in Nat
  BY <1>1, <1>m, <1>n, TimersTyped DEF WheelInv, WheelTyped, ThisAdvance
<1>4. SlotOf(m) \in 0 .. Slots - 1
  BY <1>3, SlotIn
<1>5. D \subseteq Timers /\ D \in SUBSET Nat /\ \A t \in D : fireTick[t] = m /\ delay[t] > 0
  <2>1. wheel[SlotOf(m)] \subseteq Timers
    BY <1>4 DEF WheelInv, WheelTyped
  <2>2. Timers \subseteq Nat /\ \A t \in Timers : delay[t] \in Nat /\ (delay[t] = 0 => fireTick[t] <= now)
    BY TimersTyped DEF WheelInv, ZeroStays
  <2>3. D \subseteq Timers /\ \A t \in D : fireTick[t] = m
    BY <1>D, <2>1 DEF Due
  <2>4. \A t \in D : delay[t] > 0
    BY <1>3, <2>2, <2>3
  <2> QED
    BY <2>2, <2>3, <2>4
<1>6. \A t \in Timers : fireTick[t] = m => t \in D
  BY <1>D, <1>3 DEF WheelInv, Ahead, Due
<1>7. f \in AdvanceFrames /\ f.due = D /\ f.callback = ThisAdvance.callback
  <2>1. /\ FrameTicked(ThisAdvance, n, D) \in AdvanceFrames /\ FrameTicked(ThisAdvance, n, D).due = D
        /\ FrameTicked(ThisAdvance, n, D).callback = ThisAdvance.callback
    BY <1>3, <1>5, TickedIs
  <2> QED
    BY <1>f, <2>1
<1>8. /\ advances' \in Seq(AdvanceFrames) /\ DOMAIN advances' = DOMAIN advances
      /\ \A i \in DOMAIN advances : advances'[i] = IF i = Len(advances) THEN f ELSE advances[i]
  BY <1>1, <1>2, <1>7, AdvanceSet DEF WheelInv
<1>9. \A i \in DOMAIN advances :
         \/ i = Len(advances) /\ advances'[i].due = D /\ advances[i].due = {} /\ ~advances'[i].callback
         \/ i # Len(advances) /\ advances'[i] = advances[i]
  BY <1>1, <1>7, <1>8 DEF ThisAdvance
<1>10. \A t : InHand(t)' <=> InHand(t) \/ t \in D
  BY <1>3, <1>8, <1>9 DEF InHand
<1>11. /\ Timers' = Timers /\ CalledBack' = CalledBack /\ \A t \in Timers : fireTick[t] \in Nat
       /\ \A t : LeftBehind(t)' <=> LeftBehind(t)
  BY <1>1, TimersTyped DEF Timers, WheelInv, CalledBack, LeftBehind
<1>12. WheelTyped'
  BY <1>1, <1>3, <1>8, <1>11 DEF WheelInv, WheelTyped
<1>13. Ahead'
  BY <1>1, <1>3, <1>11 DEF WheelInv, Ahead, SlotOf
<1>14. HandsSound'
  <2>1. \A i \in DOMAIN advances : \A t \in advances[i].due :
           t \in Timers /\ fireTick[t] <= now /\ delay[t] > 0
    BY DEF WheelInv, HandsSound
  <2>2. \A i \in DOMAIN advances : \A t \in advances'[i].due :
           t \in Timers /\ fireTick[t] <= m /\ delay[t] > 0
    <3> SUFFICES ASSUME NEW i \in DOMAIN advances, NEW t \in advances'[i].due
                 PROVE  t \in Timers /\ fireTick[t] <= m /\ delay[t] > 0
      OBVIOUS
    <3>1. t \in D \/ t \in advances[i].due
      BY <1>9
    <3>2. CASE t \in D
      BY <1>3, <1>5, <3>2
    <3>3. CASE t \in advances[i].due
      <4>1. t \in Timers /\ fireTick[t] <= now /\ fireTick[t] \in Nat /\ delay[t] > 0
        BY <1>11, <2>1, <3>3
      <4> QED
        BY <1>3, <4>1
    <3> QED
      BY <3>1, <3>2, <3>3
  <2>3. \A i \in DOMAIN advances : advances'[i].callback => advances'[i].due # {}
    BY <1>9 DEF WheelInv, HandsSound
  <2>4. \A i \in DOMAIN advances : advances[i].due \cap D = {}
    <3> SUFFICES ASSUME NEW i \in DOMAIN advances, NEW t \in D, t \in advances[i].due
                 PROVE  FALSE
      OBVIOUS
    <3> QED
      BY <1>3, <1>5, <2>1
  <2>5. \A i, j \in DOMAIN advances : i # j => advances'[i].due \cap advances'[j].due = {}
    <3> SUFFICES ASSUME NEW i \in DOMAIN advances, NEW j \in DOMAIN advances, i # j
                 PROVE  advances'[i].due \cap advances'[j].due = {}
      OBVIOUS
    <3>1. advances[i].due \cap advances[j].due = {}
      BY DEF WheelInv, HandsSound
    <3> QED
      BY <1>9, <2>4, <3>1
  <2>6. \A i \in DOMAIN advances : \A t, u \in advances'[i].due : fireTick[t] = fireTick[u]
    <3> SUFFICES ASSUME NEW i \in DOMAIN advances, NEW t \in advances'[i].due, NEW u \in advances'[i].due
                 PROVE  fireTick[t] = fireTick[u]
      OBVIOUS
    <3>1. CASE advances'[i].due = D
      <4>1. t \in D /\ u \in D
        BY <3>1
      <4>2. fireTick[t] = m /\ fireTick[u] = m
        BY <1>5, <4>1
      <4> QED
        BY <4>2
    <3>2. CASE advances'[i] = advances[i]
      <4>1. t \in advances[i].due /\ u \in advances[i].due
        BY <3>2
      <4> QED
        BY <4>1 DEF WheelInv, HandsSound
    <3> QED
      BY <1>9, <3>1, <3>2
  <2> QED
    BY <1>1, <1>8, <1>11, <2>2, <2>3, <2>5, <2>6 DEF HandsSound
<1>15. FiredSound'
  <2> SUFFICES ASSUME NEW t \in CalledBack
               PROVE  t \in Timers /\ fireTick[t] <= m /\ delay[t] > 0 /\ ~(InHand(t) \/ t \in D)
    BY <1>1, <1>10, <1>11 DEF WheelInv, FiredSound
  <2>1. t \in Timers /\ fireTick[t] <= now /\ delay[t] > 0 /\ ~InHand(t)
    BY DEF WheelInv, FiredSound
  <2> QED
    BY <1>3, <1>5, <1>11, <2>1
<1>16. PassedIsCalled'
  <2> SUFFICES ASSUME NEW t \in Timers, delay[t] > 0, fireTick[t] <= m
               PROVE  t \in CalledBack \/ InHand(t) \/ t \in D \/ LeftBehind(t)
    BY <1>1, <1>10, <1>11 DEF PassedIsCalled
  <2>1. fireTick[t] = m \/ fireTick[t] <= now
    BY <1>3, <1>11, <1>m
  <2> QED
    BY <1>6, <2>1 DEF WheelInv, PassedIsCalled
<1>17. ZeroStays'
  <2> SUFFICES ASSUME NEW t \in Timers, delay[t] = 0
               PROVE  fireTick[t] <= m /\ t \in wheel[SlotOf(fireTick[t])]
    BY <1>1, <1>11 DEF ZeroStays, SlotOf
  <2>1. fireTick[t] <= now /\ t \in wheel[SlotOf(fireTick[t])]
    BY DEF WheelInv, ZeroStays
  <2> QED
    BY <1>3, <1>11, <2>1
<1> QED
  BY <1>12, <1>13, <1>14, <1>15, <1>16, <1>17 DEF WheelInv

LEMMA CallKeeps ==
    ASSUME WheelInv, Call
    PROVE  WheelInv'
<1>x. PICK x : x = NextDue
  OBVIOUS
<1>f. PICK f : f = FrameCalls(ThisAdvance)
  OBVIOUS
<1>1. /\ advances # << >> /\ ThisAdvance.due # {} /\ UNCHANGED <<now, fireTick, firedTimers, delay, raisers>>
      /\ wheel' = [wheel EXCEPT ![SlotOf(fireTick[x])] = @ \ {x}]
  BY <1>x DEF Call
<1>2. advances' = SetAdvance(f)
  BY <1>f DEF Call, FrameCalls
<1>3. Len(advances) \in DOMAIN advances /\ ThisAdvance \in AdvanceFrames
  BY <1>1, TimersTyped DEF WheelInv
<1>4. x \in ThisAdvance.due /\ x \in Timers /\ fireTick[x] <= now /\ delay[x] > 0
  BY <1>1, <1>3, <1>x, NextIsDue DEF WheelInv, HandsSound, ThisAdvance
<1>5. f \in AdvanceFrames /\ f.due = ThisAdvance.due /\ f.callback = TRUE
  BY <1>3, <1>f, CallsIs
<1>6. /\ advances' \in Seq(AdvanceFrames) /\ DOMAIN advances' = DOMAIN advances
      /\ \A i \in DOMAIN advances : advances'[i] = IF i = Len(advances) THEN f ELSE advances[i]
  BY <1>1, <1>2, <1>5, AdvanceSet DEF WheelInv
<1>7. \A i \in DOMAIN advances : /\ advances'[i].due = advances[i].due
                                 /\ i # Len(advances) => advances'[i] = advances[i]
  BY <1>5, <1>6 DEF ThisAdvance
<1>8. /\ Timers' = Timers /\ CalledBack' = CalledBack
      /\ \A t : (InHand(t)' <=> InHand(t)) /\ (LeftBehind(t)' <=> LeftBehind(t))
  BY <1>1, <1>6, <1>7 DEF Timers, InHand, CalledBack, LeftBehind
<1>9. /\ wheel' \in [0 .. Slots - 1 -> SUBSET Timers]
      /\ \A s \in 0 .. Slots - 1 : \A t \in wheel[s] : t # x => t \in wheel'[s]
  <2>1. wheel \in [0 .. Slots - 1 -> SUBSET Timers]
    BY DEF WheelInv, WheelTyped
  <2> QED
    BY <1>1, <2>1
<1>10. WheelTyped'
  BY <1>1, <1>6, <1>8, <1>9 DEF WheelInv, WheelTyped
<1>11. Ahead'
  <2> SUFFICES ASSUME NEW t \in Timers, fireTick[t] > now
               PROVE  t \in wheel'[SlotOf(fireTick[t])]
    BY <1>1, <1>8 DEF Ahead, SlotOf
  <2>1. fireTick[t] \in Nat /\ fireTick[x] \in Nat /\ now \in Nat
    BY <1>4, TimersTyped DEF WheelInv, WheelTyped
  <2>2. t # x
    BY <1>4, <2>1
  <2>3. t \in wheel[SlotOf(fireTick[t])] /\ SlotOf(fireTick[t]) \in 0 .. Slots - 1
    BY <2>1, SlotIn DEF WheelInv, Ahead
  <2> QED
    BY <1>9, <2>2, <2>3
<1>12. HandsSound'
  <2>1. \A i \in DOMAIN advances : advances'[i].callback => advances'[i].due # {}
    BY <1>1, <1>5, <1>6, <1>7 DEF WheelInv, HandsSound, ThisAdvance
  <2> QED
    BY <1>1, <1>6, <1>7, <1>8, <2>1 DEF WheelInv, HandsSound
<1>13. FiredSound' /\ PassedIsCalled'
  BY <1>1, <1>8 DEF WheelInv, FiredSound, PassedIsCalled
<1>14. ZeroStays'
  <2> SUFFICES ASSUME NEW t \in Timers, delay[t] = 0
               PROVE  fireTick[t] <= now /\ t \in wheel'[SlotOf(fireTick[t])]
    BY <1>1, <1>8 DEF ZeroStays, SlotOf
  <2>1. /\ fireTick[t] <= now /\ t \in wheel[SlotOf(fireTick[t])] /\ t # x
        /\ SlotOf(fireTick[t]) \in 0 .. Slots - 1
    <3>1. fireTick[t] \in Nat /\ delay[x] > 0 /\ ~(0 > 0)
      BY <1>4, TimersTyped DEF WheelInv
    <3>2. fireTick[t] <= now /\ t \in wheel[SlotOf(fireTick[t])]
      BY DEF WheelInv, ZeroStays
    <3>3. t # x
      BY <3>1
    <3> QED
      BY <3>1, <3>2, <3>3, SlotIn
  <2> QED
    BY <1>9, <2>1
<1> QED
  BY <1>10, <1>11, <1>12, <1>13, <1>14 DEF WheelInv

LEMMA CallbackReturnsKeeps ==
    ASSUME WheelInv, CallbackReturns
    PROVE  WheelInv'
<1>x. PICK x : x = NextDue
  OBVIOUS
<1>D. PICK D : D = ThisAdvance.due \ {x}
  OBVIOUS
<1>f. PICK f : f = FrameCalled(ThisAdvance, D)
  OBVIOUS
<1>1. /\ advances # << >> /\ ThisAdvance.callback /\ UNCHANGED <<now, fireTick, wheel, delay, raisers>>
      /\ firedTimers' = Append(firedTimers, x)
  BY <1>x DEF CallbackReturns
<1>2. advances' = SetAdvance(f)
  BY <1>x, <1>D, <1>f DEF CallbackReturns, FrameCalled
<1>3. /\ Len(advances) \in DOMAIN advances /\ ThisAdvance \in AdvanceFrames
      /\ ThisAdvance.due \in SUBSET Nat /\ D \in SUBSET Nat
  BY <1>1, <1>D, TimersTyped DEF WheelInv, ThisAdvance
<1>4. /\ x \in ThisAdvance.due /\ x \in Timers /\ x \in Nat /\ fireTick[x] <= now /\ InHand(x)
      /\ delay[x] > 0
      /\ \A i \in DOMAIN advances : i # Len(advances) => x \notin advances[i].due
  <2>1. ThisAdvance.due # {}
    BY <1>1, <1>3 DEF WheelInv, HandsSound, ThisAdvance
  <2>2. x \in ThisAdvance.due
    BY <1>1, <1>x, <2>1, NextIsDue
  <2> QED
    BY <1>3, <2>2 DEF WheelInv, HandsSound, ThisAdvance, InHand
<1>5. f \in AdvanceFrames /\ f.due = D /\ f.callback = FALSE
  <2>1. /\ FrameCalled(ThisAdvance, D) \in AdvanceFrames /\ FrameCalled(ThisAdvance, D).due = D
        /\ FrameCalled(ThisAdvance, D).callback = FALSE
    BY <1>3, CalledIs
  <2> QED
    BY <1>f, <2>1
<1>6. /\ advances' \in Seq(AdvanceFrames) /\ DOMAIN advances' = DOMAIN advances
      /\ \A i \in DOMAIN advances : advances'[i] = IF i = Len(advances) THEN f ELSE advances[i]
  BY <1>1, <1>2, <1>5, AdvanceSet DEF WheelInv
<1>7. \A i \in DOMAIN advances :
         \/ i = Len(advances) /\ advances'[i].due = advances[i].due \ {x} /\ ~advances'[i].callback
         \/ i # Len(advances) /\ advances'[i] = advances[i]
  BY <1>D, <1>5, <1>6 DEF ThisAdvance
<1>8. /\ Timers' = Timers /\ \A t : InHand(t)' <=> InHand(t) /\ t # x
      /\ \A t : LeftBehind(t)' <=> LeftBehind(t)
  BY <1>1, <1>3, <1>4, <1>6, <1>7 DEF Timers, InHand, LeftBehind
<1>9. x \notin ToSet(firedTimers) /\ x \notin raisers /\ firedTimers \in Seq(Nat) /\ IsInjective(firedTimers)
  BY <1>4 DEF WheelInv, WheelTyped, FiredSound, CalledBack
<1>10. firedTimers' \in Seq(Nat) /\ ToSet(firedTimers') = ToSet(firedTimers) \cup {x} /\ IsInjective(firedTimers')
  <2>1. /\ Append(firedTimers, x) \in Seq(Nat) /\ ToSet(Append(firedTimers, x)) = ToSet(firedTimers) \cup {x}
        /\ IsInjective(firedTimers) /\ x \notin ToSet(firedTimers) => IsInjective(Append(firedTimers, x))
    BY <1>4, <1>9, OneMore
  <2> QED
    BY <1>1, <1>9, <2>1
<1>11. WheelTyped' /\ Ahead'
  BY <1>1, <1>6, <1>8, <1>10 DEF WheelInv, WheelTyped, Ahead, SlotOf
<1>12. HandsSound'
  <2>1. \A i \in DOMAIN advances : advances'[i].due \subseteq advances[i].due
    BY <1>7
  <2>2. \A i \in DOMAIN advances : advances'[i].callback => advances'[i].due # {}
    BY <1>7 DEF WheelInv, HandsSound
  <2>3. \A i, j \in DOMAIN advances : i # j => advances'[i].due \cap advances'[j].due = {}
    <3> SUFFICES ASSUME NEW i \in DOMAIN advances, NEW j \in DOMAIN advances, i # j
                 PROVE  advances'[i].due \cap advances'[j].due = {}
      OBVIOUS
    <3>1. advances[i].due \cap advances[j].due = {}
      BY DEF WheelInv, HandsSound
    <3> QED
      BY <2>1, <3>1
  <2> QED
    BY <1>1, <1>6, <1>8, <2>1, <2>2, <2>3 DEF WheelInv, HandsSound
<1>15. CalledBack' = CalledBack \cup {x}
  BY <1>1, <1>10 DEF CalledBack
<1>13. FiredSound'
  BY <1>1, <1>4, <1>8, <1>9, <1>10, <1>15 DEF WheelInv, FiredSound
<1>14. PassedIsCalled' /\ ZeroStays'
  BY <1>1, <1>8, <1>15 DEF WheelInv, PassedIsCalled, ZeroStays, SlotOf
<1> QED
  BY <1>11, <1>12, <1>13, <1>14 DEF WheelInv

\* A frame taken off.
LEMMA AdvancePopped ==
    ASSUME WheelTyped, advances # << >>, advances' = Front(advances)
    PROVE  /\ advances' \in Seq(AdvanceFrames) /\ DOMAIN advances' = DOMAIN advances \ {Len(advances)}
           /\ \A i \in DOMAIN advances' : advances'[i] = advances[i]
<1>2. /\ Len(advances) \in Nat \ {0} /\ DOMAIN advances = 1 .. Len(advances)
      /\ advances \in Seq(AdvanceFrames)
  BY TimersTyped DEF WheelTyped
<1>3. /\ SubSeq(advances, 1, Len(advances) - 1) \in Seq(AdvanceFrames)
      /\ Len(SubSeq(advances, 1, Len(advances) - 1)) = Len(advances) - 1
      /\ \A i \in 1 .. Len(advances) - 1 : SubSeq(advances, 1, Len(advances) - 1)[i] = advances[i]
  BY <1>2, FrontIs
<1>4. /\ advances' \in Seq(AdvanceFrames) /\ DOMAIN advances' = 1 .. Len(advances) - 1
      /\ \A i \in 1 .. Len(advances) - 1 : advances'[i] = advances[i]
  BY <1>3, LenProperties DEF Front
<1> QED
  BY <1>2, <1>4

\* A callback that raises takes its advance with it: the others of its tick are behind it.
LEMMA CallbackRaisesKeeps ==
    ASSUME WheelInv, CallbackRaises
    PROVE  WheelInv'
<1>x. PICK x : x = NextDue
  OBVIOUS
<1>1. /\ advances # << >> /\ ThisAdvance.callback /\ advances' = Front(advances)
      /\ raisers' = raisers \cup {x} /\ UNCHANGED <<now, fireTick, wheel, firedTimers, delay>>
  BY <1>x DEF CallbackRaises
<1>2. /\ Len(advances) \in DOMAIN advances /\ ThisAdvance.due \in SUBSET Nat
      /\ ThisAdvance = advances[Len(advances)]
  BY <1>1, TimersTyped DEF WheelInv, ThisAdvance
<1>3. /\ advances' \in Seq(AdvanceFrames) /\ DOMAIN advances' = DOMAIN advances \ {Len(advances)}
      /\ \A i \in DOMAIN advances' : advances'[i] = advances[i]
  BY <1>1, AdvancePopped DEF WheelInv
<1>4. /\ x \in ThisAdvance.due /\ x \in Timers /\ fireTick[x] <= now /\ delay[x] > 0 /\ InHand(x)
      /\ \A t \in ThisAdvance.due : x <= t /\ fireTick[t] = fireTick[x]
  <2>1. ThisAdvance.due # {}
    BY <1>1, <1>2 DEF WheelInv, HandsSound
  <2>2. x \in ThisAdvance.due /\ \A t \in ThisAdvance.due : x <= t
    BY <1>1, <1>x, <2>1, NextIsDue
  <2> QED
    BY <1>2, <2>2 DEF WheelInv, HandsSound, InHand
<1>5. /\ Timers' = Timers /\ CalledBack' = CalledBack \cup {x}
      /\ \A t : LeftBehind(t) => LeftBehind(t)'
      /\ \A t : InHand(t)' => InHand(t)
      /\ \A t : InHand(t) => InHand(t)' \/ t \in ThisAdvance.due
  BY <1>1, <1>2, <1>3 DEF Timers, CalledBack, LeftBehind, InHand
<1>6. ~InHand(x)'
  BY <1>2, <1>3, <1>4 DEF InHand, WheelInv, HandsSound
<1>7. WheelTyped' /\ Ahead' /\ ZeroStays'
  BY <1>1, <1>3, <1>4, <1>5 DEF WheelInv, WheelTyped, Ahead, ZeroStays, SlotOf
<1>8. HandsSound'
  BY <1>1, <1>3, <1>5 DEF WheelInv, HandsSound
<1>9. FiredSound'
  <2>1. x \notin CalledBack
    BY <1>4 DEF WheelInv, FiredSound
  <2> QED
    BY <1>1, <1>4, <1>5, <1>6, <2>1 DEF WheelInv, FiredSound, CalledBack
<1>10. PassedIsCalled'
  <2> SUFFICES ASSUME NEW t \in Timers, delay[t] > 0, fireTick[t] <= now
               PROVE  t \in CalledBack' \/ InHand(t)' \/ LeftBehind(t)'
    BY <1>1, <1>5 DEF PassedIsCalled
  <2>1. CASE t \in ThisAdvance.due /\ t # x
    <3>1. x < t /\ fireTick[t] = fireTick[x]
      BY <1>2, <1>4, <2>1
    <3> QED
      BY <1>1, <3>1 DEF LeftBehind
  <2>2. CASE t = x
    BY <1>5, <2>2
  <2>3. CASE t \notin ThisAdvance.due
    BY <1>5, <2>3 DEF WheelInv, PassedIsCalled
  <2> QED
    BY <2>1, <2>2, <2>3
<1> QED
  BY <1>7, <1>8, <1>9, <1>10 DEF WheelInv

LEMMA AdvanceReturnsKeeps ==
    ASSUME WheelInv, AdvanceReturns
    PROVE  WheelInv'
<1>1. /\ advances # << >> /\ ThisAdvance.due = {} /\ advances' = Front(advances)
      /\ UNCHANGED <<now, fireTick, wheel, firedTimers, delay, raisers>>
  BY DEF AdvanceReturns
<1>5. /\ advances' \in Seq(AdvanceFrames) /\ DOMAIN advances' = DOMAIN advances \ {Len(advances)}
      /\ \A i \in DOMAIN advances' : advances'[i] = advances[i]
  BY <1>1, AdvancePopped DEF WheelInv
<1>6. /\ Timers' = Timers /\ CalledBack' = CalledBack
      /\ \A t : (InHand(t)' <=> InHand(t)) /\ (LeftBehind(t)' <=> LeftBehind(t))
  BY <1>1, <1>5 DEF Timers, InHand, ThisAdvance, CalledBack, LeftBehind
<1>7. WheelTyped' /\ Ahead' /\ ZeroStays'
  BY <1>1, <1>5, <1>6 DEF WheelInv, WheelTyped, Ahead, ZeroStays, SlotOf
<1>8. HandsSound'
  BY <1>1, <1>5, <1>6 DEF WheelInv, HandsSound
<1>9. FiredSound' /\ PassedIsCalled'
  BY <1>1, <1>6 DEF WheelInv, FiredSound, PassedIsCalled
<1> QED
  BY <1>7, <1>8, <1>9 DEF WheelInv

LEMMA WheelIsSound == WheelSpec => []WheelInv
<1>1. WheelInit => WheelInv
  <2> SUFFICES ASSUME WheelInit
               PROVE  WheelInv
    OBVIOUS
  <2>1. /\ now = 0 /\ fireTick = << >> /\ delay = << >> /\ firedTimers = << >> /\ advances = << >>
        /\ wheel = [s \in 0 .. Slots - 1 |-> {}] /\ raisers = {}
    BY DEF WheelInit
  <2>2. Len(<< >>) = 0 /\ DOMAIN << >> = {} /\ ToSet(<< >>) = {} /\ IsInjective(<< >>)
    BY DEF ToSet, IsInjective
  <2>3. Timers = {}
    BY <2>1, <2>2 DEF Timers
  <2>4. WheelTyped
    BY <2>1, <2>3, EmptySeq DEF WheelTyped
  <2> QED
    BY <2>1, <2>2, <2>3, <2>4 DEF WheelInv, Ahead, HandsSound, FiredSound, PassedIsCalled, ZeroStays, CalledBack
<1>2. WheelInv /\ [WheelNext]_wheelVars => WheelInv'
  <2> SUFFICES ASSUME WheelInv, [WheelNext]_wheelVars
               PROVE  WheelInv'
    OBVIOUS
  <2>1. CASE \E d \in 0 .. Slots : Schedule(d)
    BY <2>1, ScheduleKeeps
  <2>2. CASE \E ticks \in 0 .. 2 : StartAdvance(ticks)
    BY <2>2, StartAdvanceKeeps
  <2>3. CASE UNCHANGED wheelVars
    <3>1. UNCHANGED <<Timers, CalledBack>>
      BY <2>3 DEF wheelVars, Timers, CalledBack
    <3>2. \A t : (InHand(t)' <=> InHand(t)) /\ (LeftBehind(t)' <=> LeftBehind(t))
      BY <2>3 DEF wheelVars, InHand, LeftBehind
    <3>3. WheelTyped' /\ Ahead' /\ HandsSound' /\ ZeroStays'
      BY <2>3, <3>1 DEF wheelVars, WheelInv, WheelTyped, Ahead, HandsSound, ZeroStays, SlotOf
    <3>4. FiredSound' /\ PassedIsCalled'
      BY <2>3, <3>1, <3>2 DEF wheelVars, WheelInv, FiredSound, PassedIsCalled
    <3> QED
      BY <3>3, <3>4 DEF WheelInv
  <2> QED
    BY <2>1, <2>2, <2>3, TickKeeps, CallKeeps, CallbackReturnsKeeps, CallbackRaisesKeeps,
       AdvanceReturnsKeeps DEF WheelNext
<1> QED
  BY <1>1, <1>2, PTL DEF WheelSpec

\* A timer's callback is called once at most and not before its tick; only a timer behind
\* one of its tick that raised, and a timer of delay 0, is left uncalled by its tick, however
\* callbacks schedule timers, advance the wheel and raise (TimerWheel.schedule, advance).
THEOREM TimersAreCalled == WheelSpec => []TimersFireOnce
<1>1. WheelInv => TimersFireOnce
  BY DEF WheelInv, FiredSound, PassedIsCalled, ZeroStays, TimersFireOnce
<1> QED
  BY <1>1, WheelIsSound, PTL
-----------------------------------------------------------------------------
(* The dataflow runtime: when a run stops by itself.                         *)

\* The nodes that the round has passed without a firing are still held, and a run that
\* stopped by itself is not running.
FlowInv ==
    /\ RunQuiesces /\ (quiet => phase = "idle")
    /\ phase = "round" /\ ~fired => \A n \in NodeIds \ upcoming : ~Fires(n)

\* The passing of the deadlines makes no node fire.
LEMMA FiresNoMore ==
  ASSUME NEW n, queue' = queue, closed' = closed, live' = live, failed' = failed,
         late' = late \/ late' = TRUE, Fires(n)'
  PROVE  Fires(n)
<1>1. DeadlineOk(n)
  <2>1. DeadlineOk(n)'
    BY DEF Fires
  <2> QED
    BY <2>1 DEF DeadlineOk
<1>2. InputsAvailable(n) /\ OwnershipOk(n) /\ n \notin failed /\ BackpressureOk(n)
  BY DEF Fires, InputsAvailable, OwnershipOk, Peeked, BackpressureOk
<1> QED
  BY <1>1, <1>2 DEF Fires

\* A run that stops by itself has tried every node after the last firing
\* (DataflowRuntime.run).
THEOREM RunsQuiesce == DataflowSpec => []RunQuiesces
<1>1. DataflowInit => FlowInv
  BY DEF DataflowInit, FlowInv, RunQuiesces
<1>2. FlowInv /\ [DataflowNext]_dataflowVars => FlowInv'
  <2> SUFFICES ASSUME FlowInv, [DataflowNext]_dataflowVars
               PROVE  FlowInv'
    OBVIOUS
  <2>1. CASE Surroundings
    BY <2>1 DEF FlowInv, Surroundings, RunQuiesces
  <2>2. CASE DeadlinesPass \/ UNCHANGED dataflowVars
    <3>1. /\ queue' = queue /\ closed' = closed /\ live' = live /\ failed' = failed
          /\ late' = late \/ late' = TRUE
          /\ phase' = phase /\ upcoming' = upcoming /\ fired' = fired /\ quiet' = quiet
      BY <2>2 DEF DeadlinesPass, dataflowVars
    <3>2. \A n : Fires(n)' => Fires(n)
      BY <3>1, FiresNoMore
    <3> QED
      BY <3>1, <3>2 DEF FlowInv, RunQuiesces
  <2>3. CASE StartRounds
    BY <2>3 DEF FlowInv, StartRounds, RunQuiesces
  <2>4. CASE Hold
    <3>1. PICK n \in NodeIds : ~Fires(n) /\ upcoming' = upcoming \ {n}
      BY <2>4 DEF Hold
    <3>2. /\ queue' = queue /\ closed' = closed /\ live' = live /\ failed' = failed /\ late' = late
          /\ phase = "round" /\ phase' = phase /\ fired' = fired /\ quiet' = quiet
      BY <2>4 DEF Hold
    <3>3. \A m : Fires(m)' => Fires(m)
      BY <3>2, FiresNoMore
    <3> QED
      BY <3>1, <3>2, <3>3 DEF FlowInv, RunQuiesces
  <2>5. CASE EndRound
    <3>1. /\ queue' = queue /\ closed' = closed /\ live' = live /\ failed' = failed /\ late' = late
          /\ phase = "round" /\ upcoming = {} /\ upcoming' = NodeIds
      BY <2>5 DEF EndRound
    <3>2. \A m : Fires(m)' => Fires(m)
      BY <3>1, FiresNoMore
    <3>3. quiet' => ~fired /\ phase' = "idle"
      BY <2>5, <3>1 DEF EndRound, Again, FlowInv
    <3> QED
      BY <3>1, <3>2, <3>3 DEF FlowInv, RunQuiesces
  <2>6. CASE Fired
    BY <2>6 DEF FlowInv, Fired, RunQuiesces
  <2>7. CASE TakeRefused \/ FunctionRaises \/ SendRefused
    BY <2>7 DEF FlowInv, TakeRefused, FunctionRaises, SendRefused, Escape, RunQuiesces
  <2>8. CASE Fire \/ TakeToken \/ EnterFunction \/ FunctionReturns \/ SendResult
    BY <2>8 DEF FlowInv, Fire, TakeToken, EnterFunction, FunctionReturns, SendResult, RunQuiesces
  <2> QED
    BY <2>1, <2>2, <2>3, <2>4, <2>5, <2>6, <2>7, <2>8 DEF DataflowNext
<1>3. FlowInv => RunQuiesces
  BY DEF FlowInv
<1> QED
  BY <1>1, <1>2, <1>3, PTL DEF DataflowSpec
-----------------------------------------------------------------------------
(* The dataflow runtime: quantum payloads are not copied.                    *)

\* No node names a channel twice among its inputs. The firing rule looks at the heads of
\* the inputs only, and a node that takes two tokens from one channel takes the second of
\* them unseen (DataflowRuntime.evaluate).
NoRepeatedInput ==
    \A n \in NodeIds : \A i, j \in DOMAIN Nodes[n].inputs :
       Nodes[n].inputs[i] = Nodes[n].inputs[j] => i = j

Tokens == Quantum \union Classical
FlowTyped ==
    /\ queue \in [Channels -> Seq(Tokens)] /\ hand \in Seq(Tokens)
    /\ outgoing \in Seq(Channels \X Tokens)
    /\ phase \in {"idle", "round", "taking", "inside", "sending"}
    /\ phase \in {"taking", "inside", "sending"} => node \in NodeIds
    /\ phase # "sending" => outgoing = <<>>
    /\ phase \notin {"taking", "inside"} => hand = <<>>

\* Two places of a channel, two tokens taken and two results are different payloads.
PlacesApart ==
    \A c, d \in Channels : \A i \in 1 .. Len(queue[c]), j \in 1 .. Len(queue[d]) :
       queue[c][i] = queue[d][j] /\ queue[c][i] \in Quantum => c = d /\ i = j
HandApart ==
    \A k \in 1 .. Len(hand) : hand[k] \in Quantum =>
       /\ \A l \in 1 .. Len(hand) : hand[l] = hand[k] => l = k
       /\ \A c \in Channels : \A i \in 1 .. Len(queue[c]) : queue[c][i] # hand[k]
ResultsApart ==
    \A k \in 1 .. Len(outgoing) : outgoing[k][2] \in Quantum =>
       /\ \A l \in 1 .. Len(outgoing) : outgoing[l][2] = outgoing[k][2] => l = k
       /\ \A c \in Channels : \A i \in 1 .. Len(queue[c]) : queue[c][i] # outgoing[k][2]

\* A node that takes, or has taken, a payload has one output at most.
HeadsGuarded ==
    phase = "taking" =>
       /\ Len(hand) <= Len(Nodes[node].inputs)
       /\ \A i \in DOMAIN Nodes[node].inputs :
             LET c == Nodes[node].inputs[i]
             IN  i > Len(hand) /\ queue[c] # <<>> /\ Head(queue[c]) \in Quantum
                    => Len(Nodes[node].outputs) <= 1
HandGuarded ==
    phase \in {"taking", "inside"} =>
       \A k \in 1 .. Len(hand) : hand[k] \in Quantum => Len(Nodes[node].outputs) <= 1

PayloadInv == FlowTyped /\ PlacesApart /\ HandApart /\ ResultsApart /\ HeadsGuarded /\ HandGuarded

\* What a step does to a channel.
LEMMA AppendedAt ==
  ASSUME NEW S, NEW s \in Seq(S), NEW x \in S
  PROVE  /\ Append(s, x) \in Seq(S) /\ Len(Append(s, x)) = Len(s) + 1
         /\ \A i \in 1 .. Len(s) + 1 : Append(s, x)[i] = IF i = Len(s) + 1 THEN x ELSE s[i]
BY AppendProperties

LEMMA TailAt ==
  ASSUME NEW S, NEW s \in Seq(S), s # <<>>
  PROVE  /\ Tail(s) \in Seq(S) /\ Len(Tail(s)) = Len(s) - 1 /\ Len(s) >= 1
         /\ Head(s) \in S /\ Head(s) = s[1]
         /\ \A i \in 1 .. Len(s) - 1 : Tail(s)[i] = s[i + 1]
BY HeadTailProperties

\* A token that is in no channel is put at the end of one.
LEMMA PutApart ==
  ASSUME NEW c \in Channels, NEW t \in Tokens,
         queue \in [Channels -> Seq(Tokens)], PlacesApart,
         queue' = [queue EXCEPT ![c] = Append(@, t)],
         t \in Quantum => \A d \in Channels : \A i \in 1 .. Len(queue[d]) : queue[d][i] # t
  PROVE  /\ queue' \in [Channels -> Seq(Tokens)] /\ PlacesApart'
         /\ \A d \in Channels : \A i \in 1 .. Len(queue'[d]) :
               queue'[d][i] = t \/ (i \in 1 .. Len(queue[d]) /\ queue'[d][i] = queue[d][i])
<1>1. queue[c] \in Seq(Tokens)
  OBVIOUS
<1>2. /\ Append(queue[c], t) \in Seq(Tokens) /\ Len(Append(queue[c], t)) = Len(queue[c]) + 1
      /\ \A i \in 1 .. Len(queue[c]) + 1 :
            Append(queue[c], t)[i] = IF i = Len(queue[c]) + 1 THEN t ELSE queue[c][i]
  BY <1>1, AppendedAt
<1>3. \A d \in Channels : queue'[d] = IF d = c THEN Append(queue[c], t) ELSE queue[d]
  OBVIOUS
<1>4. queue' \in [Channels -> Seq(Tokens)]
  BY <1>2
<1>5. \A d \in Channels : Len(queue[d]) \in Nat
  OBVIOUS
<1>6. ASSUME NEW d \in Channels, NEW i \in 1 .. Len(queue'[d])
      PROVE  \/ d = c /\ i = Len(queue[c]) + 1 /\ queue'[d][i] = t
             \/ i \in 1 .. Len(queue[d]) /\ queue'[d][i] = queue[d][i]
  BY <1>2, <1>3, <1>5
<1>7. ASSUME NEW d \in Channels, NEW e \in Channels, NEW i \in 1 .. Len(queue'[d]),
             NEW j \in 1 .. Len(queue'[e]), queue'[d][i] = queue'[e][j], queue'[d][i] \in Quantum
      PROVE  d = e /\ i = j
  BY <1>6, <1>7 DEF PlacesApart
<1> QED
  BY <1>4, <1>6, <1>7 DEF PlacesApart

\* The first token of a channel is taken away.
LEMMA TakeApart ==
  ASSUME NEW c \in Channels, queue[c] # <<>>,
         queue \in [Channels -> Seq(Tokens)], PlacesApart,
         queue' = [queue EXCEPT ![c] = Tail(@)]
  PROVE  /\ queue' \in [Channels -> Seq(Tokens)] /\ PlacesApart'
         /\ Head(queue[c]) \in Tokens
         /\ \A d \in Channels : \A i \in 1 .. Len(queue'[d]) :
               /\ \E j \in 1 .. Len(queue[d]) : queue'[d][i] = queue[d][j]
               /\ Head(queue[c]) \in Quantum => queue'[d][i] # Head(queue[c])
<1>1. queue[c] \in Seq(Tokens)
  OBVIOUS
<1>2. /\ Tail(queue[c]) \in Seq(Tokens) /\ Len(Tail(queue[c])) = Len(queue[c]) - 1
      /\ Len(queue[c]) >= 1 /\ Head(queue[c]) \in Tokens /\ Head(queue[c]) = queue[c][1]
      /\ \A i \in 1 .. Len(queue[c]) - 1 : Tail(queue[c])[i] = queue[c][i + 1]
  BY <1>1, TailAt
<1>3. \A d \in Channels : queue'[d] = IF d = c THEN Tail(queue[c]) ELSE queue[d]
  OBVIOUS
<1>4. queue' \in [Channels -> Seq(Tokens)]
  BY <1>2
<1>5. \A d \in Channels : Len(queue[d]) \in Nat
  OBVIOUS
<1>6. ASSUME NEW d \in Channels, NEW i \in 1 .. Len(queue'[d])
      PROVE  LET j == IF d = c THEN i + 1 ELSE i
             IN  j \in 1 .. Len(queue[d]) /\ queue'[d][i] = queue[d][j]
  BY <1>2, <1>3, <1>5
<1>7. ASSUME NEW d \in Channels, NEW e \in Channels, NEW i \in 1 .. Len(queue'[d]),
             NEW j \in 1 .. Len(queue'[e]), queue'[d][i] = queue'[e][j], queue'[d][i] \in Quantum
      PROVE  d = e /\ i = j
  BY <1>6, <1>7 DEF PlacesApart
<1>8. ASSUME NEW d \in Channels, NEW i \in 1 .. Len(queue'[d]),
             Head(queue[c]) \in Quantum, queue'[d][i] = Head(queue[c])
      PROVE  FALSE
  <2>1. 1 \in 1 .. Len(queue[c])
    BY <1>2, <1>5
  <2> QED
    BY <1>2, <1>6, <1>8, <2>1 DEF PlacesApart
<1>9. PlacesApart'
  BY <1>7 DEF PlacesApart
<1>10. ASSUME NEW d \in Channels, NEW i \in 1 .. Len(queue'[d])
       PROVE  \E j \in 1 .. Len(queue[d]) : queue'[d][i] = queue[d][j]
  BY <1>6
<1> QED
  BY <1>2, <1>4, <1>8, <1>9, <1>10

\* Nothing is taken and nothing waits to be sent: an exception, or the end of a firing.
LEMMA EmptyHands ==
  ASSUME PayloadInv, queue' = queue, hand' = <<>>, outgoing' = <<>>,
         phase' \in {"idle", "round"}
  PROVE  PayloadInv'
<1>1. FlowTyped'
  BY DEF PayloadInv, FlowTyped
<1>2. PlacesApart'
  BY DEF PayloadInv, PlacesApart
<1>3. Len(hand') = 0 /\ Len(outgoing') = 0
  OBVIOUS
<1>4. HandApart' /\ ResultsApart'
  BY <1>3 DEF HandApart, ResultsApart
<1>5. HeadsGuarded' /\ HandGuarded'
  BY DEF HeadsGuarded, HandGuarded
<1> QED
  BY <1>1, <1>2, <1>4, <1>5 DEF PayloadInv

LEMMA SurroundingsKeepPayloads ==
  ASSUME PayloadInv, Surroundings
  PROVE  PayloadInv'
<1>1. /\ phase \in {"idle", "inside"} /\ phase' = phase /\ node' = node /\ hand' = hand
      /\ outgoing' = outgoing /\ outgoing = <<>>
  BY DEF Surroundings, PayloadInv, FlowTyped
<1>2. /\ queue \in [Channels -> Seq(Tokens)] /\ PlacesApart /\ HandApart
  BY DEF PayloadInv, FlowTyped
<1>3. SUFFICES queue' \in [Channels -> Seq(Tokens)] /\ PlacesApart' /\ HandApart'
  BY <1>1 DEF PayloadInv, FlowTyped, ResultsApart, HeadsGuarded, HandGuarded
<1>4. CASE queue' = queue
  BY <1>1, <1>2, <1>4 DEF PlacesApart, HandApart
<1>5. ASSUME NEW c \in Channels, NEW t \in Quantum \union Classical, Feed(c, t)
      PROVE  queue' \in [Channels -> Seq(Tokens)] /\ PlacesApart' /\ HandApart'
  <2>1. queue' = [queue EXCEPT ![c] = Append(@, t)] /\ t \notin Quantum \intersect InFlight
    BY <1>5 DEF Feed
  <2>2. t \in Quantum => \A d \in Channels : \A i \in 1 .. Len(queue[d]) : queue[d][i] # t
    <3> SUFFICES ASSUME NEW d \in Channels, NEW i \in 1 .. Len(queue[d]), queue[d][i] = t
                 PROVE  t \in InFlight
      BY <2>1
    <3>1. queue[d] \in Seq(Tokens)
      BY <1>2
    <3>2. t \in ToSet(queue[d])
      BY <3>1 DEF ToSet
    <3> QED
      BY <3>2 DEF InFlight
  <2>3. t \in Quantum => \A k \in 1 .. Len(hand) : hand[k] # t
    <3> SUFFICES ASSUME NEW k \in 1 .. Len(hand), hand[k] = t
                 PROVE  t \in InFlight
      BY <2>1
    <3>1. hand \in Seq(Tokens)
      BY DEF PayloadInv, FlowTyped
    <3>2. t \in ToSet(hand)
      BY <3>1 DEF ToSet
    <3> QED
      BY <3>2 DEF InFlight
  <2>4. t \in Tokens
    BY DEF Tokens
  <2>5. /\ queue' \in [Channels -> Seq(Tokens)] /\ PlacesApart'
        /\ \A d \in Channels : \A i \in 1 .. Len(queue'[d]) :
              queue'[d][i] = t \/ (i \in 1 .. Len(queue[d]) /\ queue'[d][i] = queue[d][i])
    BY <1>2, <2>1, <2>2, <2>4, PutApart
  <2>6. HandApart'
    <3> SUFFICES ASSUME NEW k \in 1 .. Len(hand), hand[k] \in Quantum
                 PROVE  /\ \A l \in 1 .. Len(hand) : hand[l] = hand[k] => l = k
                        /\ \A d \in Channels : \A i \in 1 .. Len(queue'[d]) : queue'[d][i] # hand[k]
      BY <1>1 DEF HandApart
    <3>1. /\ \A l \in 1 .. Len(hand) : hand[l] = hand[k] => l = k
          /\ \A d \in Channels : \A i \in 1 .. Len(queue[d]) : queue[d][i] # hand[k]
      BY <1>2 DEF HandApart
    <3> QED
      BY <2>3, <2>5, <3>1
  <2> QED
    BY <2>5, <2>6
<1>6. ASSUME NEW c \in Channels, TakeFrom(c)
      PROVE  queue' \in [Channels -> Seq(Tokens)] /\ PlacesApart' /\ HandApart'
  <2>1. queue[c] # <<>> /\ queue' = [queue EXCEPT ![c] = Tail(@)]
    BY <1>6 DEF TakeFrom
  <2>2. /\ queue' \in [Channels -> Seq(Tokens)] /\ PlacesApart'
        /\ \A d \in Channels : \A i \in 1 .. Len(queue'[d]) :
              /\ \E j \in 1 .. Len(queue[d]) : queue'[d][i] = queue[d][j]
              /\ Head(queue[c]) \in Quantum => queue'[d][i] # Head(queue[c])
    BY <1>2, <2>1, TakeApart
  <2>3. HandApart'
    <3> SUFFICES ASSUME NEW k \in 1 .. Len(hand), hand[k] \in Quantum
                 PROVE  /\ \A l \in 1 .. Len(hand) : hand[l] = hand[k] => l = k
                        /\ \A d \in Channels : \A i \in 1 .. Len(queue'[d]) : queue'[d][i] # hand[k]
      BY <1>1 DEF HandApart
    <3>1. /\ \A l \in 1 .. Len(hand) : hand[l] = hand[k] => l = k
          /\ \A d \in Channels : \A i \in 1 .. Len(queue[d]) : queue[d][i] # hand[k]
      BY <1>2 DEF HandApart
    <3> QED
      BY <2>2, <3>1
  <2> QED
    BY <2>2, <2>3
<1>7. ASSUME NEW c \in Channels, Close(c)
      PROVE  queue' = queue
  BY <1>7 DEF Close
<1>8. ASSUME NEW p \in Quantum, Consume(p)
      PROVE  queue' = queue
  BY <1>8 DEF Consume
<1>9. ASSUME NEW n \in NodeIds, FailWorker(n)
      PROVE  queue' = queue
  BY <1>9 DEF FailWorker
<1> QED
  BY <1>4, <1>5, <1>6, <1>7, <1>8, <1>9 DEF Surroundings

LEMMA FireKeepsPayloads ==
  ASSUME PayloadInv, Fire, DataflowAssumption
  PROVE  PayloadInv'
<1>1. PICK n \in NodeIds : Fires(n) /\ node' = n
  BY DEF Fire
<1>2. /\ queue' = queue /\ hand' = <<>> /\ outgoing' = outgoing
      /\ phase = "round" /\ phase' = "taking"
  BY DEF Fire
<1>0. Nodes[n].inputs \in Seq(Channels)
  BY <1>1 DEF DataflowAssumption, NodeIds
<1>3. FlowTyped' /\ PlacesApart' /\ HandApart' /\ ResultsApart' /\ HandGuarded'
  BY <1>1, <1>2 DEF PayloadInv, FlowTyped, PlacesApart, HandApart, ResultsApart, HandGuarded
<1>4. HeadsGuarded'
  <2> SUFFICES ASSUME NEW i \in DOMAIN Nodes[n].inputs, queue[Nodes[n].inputs[i]] # <<>>,
                      Head(queue[Nodes[n].inputs[i]]) \in Quantum
               PROVE  Len(Nodes[n].outputs) <= 1
    BY <1>0, <1>1, <1>2 DEF HeadsGuarded
  <2>1. Nodes[n].inputs[i] \in ToSet(Nodes[n].inputs)
    BY DEF ToSet
  <2>2. Head(queue[Nodes[n].inputs[i]]) \in Peeked(n)
    BY <2>1 DEF Peeked
  <2> QED
    BY <1>1, <2>2 DEF Fires, OwnershipOk
<1> QED
  BY <1>3, <1>4 DEF PayloadInv

LEMMA TakeTokenKeepsPayloads ==
  ASSUME PayloadInv, TakeToken, DataflowAssumption, NoRepeatedInput
  PROVE  PayloadInv'
<1>1. /\ phase = "taking" /\ phase' = phase /\ node' = node /\ outgoing' = outgoing
      /\ ~AllTaken /\ Receivable(NextInput)
  BY DEF TakeToken
<1>2. /\ node \in NodeIds /\ hand \in Seq(Tokens) /\ outgoing = <<>>
      /\ queue \in [Channels -> Seq(Tokens)] /\ PlacesApart /\ HandApart
  BY <1>1 DEF PayloadInv, FlowTyped
<1>3. PICK inputs \in Seq(Channels) : inputs = Nodes[node].inputs
  BY <1>2 DEF DataflowAssumption, NodeIds
<1>4. PICK outs \in Seq(Channels) : outs = Nodes[node].outputs
  BY <1>2 DEF DataflowAssumption, NodeIds
<1>5. PICK k \in Nat : k = Len(hand) + 1
  BY <1>2
<1>6. k \in 1 .. Len(inputs) /\ Len(hand) = k - 1
  BY <1>1, <1>2, <1>3, <1>5 DEF AllTaken, PayloadInv, HeadsGuarded
<1>7. PICK c \in Channels : c = inputs[k]
  BY <1>6
<1>8. NextInput = c
  BY <1>3, <1>5, <1>7 DEF NextInput
<1>9. queue[c] # <<>>
  BY <1>1, <1>8 DEF Receivable
<1>10. PICK t \in Tokens : t = Head(queue[c])
  BY <1>2, <1>9, TailAt
<1>11. queue' = [queue EXCEPT ![c] = Tail(@)] /\ hand' = Append(hand, t)
  BY <1>8, <1>10 DEF TakeToken
<1>12. /\ queue' \in [Channels -> Seq(Tokens)] /\ PlacesApart'
       /\ \A d \in Channels : \A i \in 1 .. Len(queue'[d]) :
             /\ \E j \in 1 .. Len(queue[d]) : queue'[d][i] = queue[d][j]
             /\ t \in Quantum => queue'[d][i] # t
  <2>1. /\ queue' \in [Channels -> Seq(Tokens)] /\ PlacesApart'
        /\ \A d \in Channels : \A i \in 1 .. Len(queue'[d]) :
              /\ \E j \in 1 .. Len(queue[d]) : queue'[d][i] = queue[d][j]
              /\ Head(queue[c]) \in Quantum => queue'[d][i] # Head(queue[c])
    BY <1>2, <1>9, <1>11, TakeApart
  <2> QED
    BY <1>10, <2>1
<1>13. /\ hand' \in Seq(Tokens) /\ Len(hand') = k
       /\ \A m \in 1 .. k : hand'[m] = IF m = k THEN t ELSE hand[m]
  BY <1>2, <1>5, <1>11, AppendedAt
<1>14. t = queue[c][1] /\ 1 \in 1 .. Len(queue[c])
  BY <1>2, <1>9, <1>10, TailAt
<1>15. ASSUME NEW m \in 1 .. k - 1, hand[m] \in Quantum
       PROVE  hand[m] # t
  BY <1>2, <1>6, <1>14, <1>15 DEF HandApart
<1>16. HandApart'
  <2> SUFFICES ASSUME NEW m \in 1 .. k, hand'[m] \in Quantum
               PROVE  /\ \A l \in 1 .. k : hand'[l] = hand'[m] => l = m
                      /\ \A d \in Channels : \A i \in 1 .. Len(queue'[d]) : queue'[d][i] # hand'[m]
    BY <1>13 DEF HandApart
  <2>1. CASE m = k
    <3>1. hand'[m] = t /\ t \in Quantum
      BY <2>1, <1>13
    <3>2. \A l \in 1 .. k : l # k => hand'[l] # t
      <4> SUFFICES ASSUME NEW l \in 1 .. k, l # k, hand'[l] = t
                   PROVE  FALSE
        OBVIOUS
      <4>1. l \in 1 .. k - 1 /\ hand[l] = t
        BY <1>13
      <4> QED
        BY <4>1, <3>1, <1>15
    <3>3. \A d \in Channels : \A i \in 1 .. Len(queue'[d]) : queue'[d][i] # t
      BY <3>1, <1>12
    <3> QED
      BY <3>1, <3>2, <3>3, <2>1
  <2>2. CASE m # k
    <3>1. m \in 1 .. k - 1 /\ hand'[m] = hand[m]
      BY <2>2, <1>13
    <3>2. \A l \in 1 .. k - 1 : hand[l] = hand[m] => l = m
      BY <3>1, <1>2, <1>6 DEF HandApart
    <3>3. \A d \in Channels : \A i \in 1 .. Len(queue[d]) : queue[d][i] # hand[m]
      BY <3>1, <1>2, <1>6 DEF HandApart
    <3>4. \A l \in 1 .. k : hand'[l] = hand'[m] => l = m
      <4> SUFFICES ASSUME NEW l \in 1 .. k, hand'[l] = hand'[m]
                   PROVE  l = m
        OBVIOUS
      <4>1. l # k
        BY <3>1, <1>13, <1>15
      <4>2. l \in 1 .. k - 1 /\ hand'[l] = hand[l]
        BY <4>1, <1>13
      <4> QED
        BY <4>2, <3>1, <3>2
    <3> QED
      <4>1. \A d \in Channels : \A i \in 1 .. Len(queue'[d]) : queue'[d][i] # hand[m]
        BY <3>3, <1>12
      <4> QED
        BY <4>1, <3>1, <3>4
  <2> QED
    BY <2>1, <2>2
<1>17. HeadsGuarded'
  <2> SUFFICES ASSUME NEW i \in 1 .. Len(inputs), i > k, queue'[inputs[i]] # <<>>,
                      Head(queue'[inputs[i]]) \in Quantum
               PROVE  Len(outs) <= 1
    <3>1. node' = node /\ DOMAIN inputs = 1 .. Len(inputs) /\ Len(hand') = k /\ k <= Len(inputs)
      BY <1>1, <1>6, <1>13
    <3> QED
      BY <1>3, <1>4, <3>1 DEF HeadsGuarded
  <2>1. inputs[i] \in Channels /\ inputs[i] # c
    BY <1>2, <1>3, <1>6, <1>7 DEF NoRepeatedInput
  <2>2. queue'[inputs[i]] = queue[inputs[i]]
    BY <2>1, <1>2, <1>11
  <2> QED
    BY <2>2, <1>1, <1>3, <1>4, <1>6 DEF PayloadInv, HeadsGuarded
<1>18. HandGuarded'
  <2> SUFFICES ASSUME NEW m \in 1 .. k, hand'[m] \in Quantum
               PROVE  Len(outs) <= 1
    BY <1>1, <1>4, <1>13 DEF HandGuarded
  <2>1. CASE m = k
    <3>1. Head(queue[inputs[k]]) \in Quantum /\ queue[inputs[k]] # <<>>
      BY <2>1, <1>7, <1>9, <1>10, <1>13
    <3> QED
      BY <3>1, <1>1, <1>3, <1>4, <1>6 DEF PayloadInv, HeadsGuarded
  <2>2. CASE m # k
    <3>1. m \in 1 .. Len(hand) /\ hand[m] \in Quantum
      BY <2>2, <1>6, <1>13
    <3> QED
      BY <3>1, <1>1, <1>4 DEF PayloadInv, HandGuarded
  <2> QED
    BY <2>1, <2>2
<1>19. ResultsApart'
  BY <1>1, <1>2 DEF ResultsApart
<1>20. FlowTyped'
  BY <1>1, <1>2, <1>12, <1>13 DEF FlowTyped
<1> QED
  BY <1>12, <1>16, <1>17, <1>18, <1>19, <1>20 DEF PayloadInv

LEMMA FunctionReturnsKeepsPayloads ==
  ASSUME PayloadInv, FunctionReturns, DataflowAssumption
  PROVE  PayloadInv'
<1>1. /\ phase = "inside" /\ phase' = "sending" /\ node' = node /\ hand' = <<>> /\ queue' = queue
  BY DEF FunctionReturns
<1>2. /\ node \in NodeIds /\ hand \in Seq(Tokens)
      /\ queue \in [Channels -> Seq(Tokens)] /\ PlacesApart /\ HandApart
  BY <1>1 DEF PayloadInv, FlowTyped
<1>3. PICK outs \in Seq(Channels) : outs = Nodes[node].outputs
  BY <1>2 DEF DataflowAssumption, NodeIds
<1>4. PICK r \in Results(node) : outgoing' = [k \in 1 .. Len(r) |-> <<outs[k], r[k]>>]
  BY <1>3 DEF FunctionReturns
<1>5. PICK n \in 0 .. Len(outs) : r \in [1 .. n -> ToSet(hand) \union Classical]
  BY <1>3 DEF Results
<1>6. n \in Nat /\ n <= Len(outs) /\ Len(r) = n /\ ToSet(hand) \subseteq Tokens
  <2>1. n \in Nat /\ n <= Len(outs)
    BY <1>5
  <2>2. \A k \in 1 .. Len(hand) : hand[k] \in Tokens
    BY <1>2
  <2>3. ToSet(hand) \subseteq Tokens
    BY <2>2, <1>2 DEF ToSet
  <2> QED
    BY <1>5, <2>1, <2>3
<1>7. /\ outgoing' = [k \in 1 .. n |-> <<outs[k], r[k]>>]
      /\ \A k \in 1 .. n : outs[k] \in Channels /\ r[k] \in ToSet(hand) \union Classical
  BY <1>4, <1>5, <1>6
<1>8. \A k \in 1 .. n : r[k] \in Tokens
  BY <1>6, <1>7 DEF Tokens
<1>9. outgoing' \in Seq(Channels \X Tokens) /\ Len(outgoing') = n
  BY <1>6, <1>7, <1>8
<1>10. \A k \in 1 .. n : outgoing'[k][2] = r[k]
  BY <1>7
<1>11. ASSUME NEW k \in 1 .. n, r[k] \in Quantum
       PROVE  /\ n = 1
              /\ \A c \in Channels : \A i \in 1 .. Len(queue[c]) : queue[c][i] # r[k]
  <2>1. r[k] \notin Classical
    BY <1>11 DEF DataflowAssumption
  <2>2. PICK m \in 1 .. Len(hand) : hand[m] = r[k]
    <3>1. r[k] \in ToSet(hand)
      BY <1>7, <2>1
    <3>2. DOMAIN hand = 1 .. Len(hand)
      BY <1>2
    <3> QED
      BY <3>1, <3>2 DEF ToSet
  <2>3. Len(outs) <= 1
    BY <1>1, <1>3, <1>11, <2>2 DEF PayloadInv, HandGuarded
  <2>4. n = 1
    BY <1>6, <2>3
  <2> QED
    BY <1>2, <1>11, <2>2, <2>4 DEF HandApart
<1>12. ResultsApart'
  <2> SUFFICES ASSUME NEW k \in 1 .. n, r[k] \in Quantum
               PROVE  /\ \A l \in 1 .. n : r[l] = r[k] => l = k
                      /\ \A c \in Channels : \A i \in 1 .. Len(queue[c]) : queue[c][i] # r[k]
    BY <1>1, <1>9, <1>10 DEF ResultsApart
  <2> QED
    BY <1>11
<1>13. FlowTyped'
  BY <1>1, <1>2, <1>9 DEF FlowTyped
<1>14. HandApart' /\ PlacesApart' /\ HeadsGuarded' /\ HandGuarded'
  <2>1. HandApart' /\ HeadsGuarded' /\ HandGuarded'
    BY <1>1 DEF HandApart, HeadsGuarded, HandGuarded
  <2>2. PlacesApart'
    BY <1>1, <1>2 DEF PlacesApart
  <2> QED
    BY <2>1, <2>2
<1> QED
  BY <1>12, <1>13, <1>14 DEF PayloadInv

LEMMA SendKeepsPayloads ==
  ASSUME PayloadInv, SendResult
  PROVE  PayloadInv'
<1>1. /\ phase = "sending" /\ phase' = phase /\ node' = node /\ hand' = hand
      /\ outgoing # <<>> /\ outgoing' = Tail(outgoing)
  BY DEF SendResult
<1>2. /\ outgoing \in Seq(Channels \X Tokens) /\ node \in NodeIds /\ hand = <<>>
      /\ queue \in [Channels -> Seq(Tokens)] /\ PlacesApart /\ ResultsApart
  BY <1>1 DEF PayloadInv, FlowTyped
<1>3. PICK c \in Channels : c = Head(outgoing)[1]
  BY <1>1, <1>2, TailAt
<1>4. PICK t \in Tokens : t = Head(outgoing)[2]
  BY <1>1, <1>2, TailAt
<1>5. queue' = [queue EXCEPT ![c] = Append(@, t)]
  BY <1>3, <1>4 DEF SendResult
<1>6. /\ outgoing' \in Seq(Channels \X Tokens) /\ Len(outgoing') = Len(outgoing) - 1
      /\ Len(outgoing) >= 1 /\ Head(outgoing) = outgoing[1]
      /\ \A k \in 1 .. Len(outgoing) - 1 : outgoing'[k] = outgoing[k + 1]
  BY <1>1, <1>2, TailAt
<1>7. t = outgoing[1][2] /\ 1 \in 1 .. Len(outgoing)
  BY <1>2, <1>4, <1>6
<1>8. t \in Quantum => \A d \in Channels : \A i \in 1 .. Len(queue[d]) : queue[d][i] # t
  BY <1>2, <1>7 DEF ResultsApart
<1>9. /\ queue' \in [Channels -> Seq(Tokens)] /\ PlacesApart'
      /\ \A d \in Channels : \A i \in 1 .. Len(queue'[d]) :
            queue'[d][i] = t \/ (i \in 1 .. Len(queue[d]) /\ queue'[d][i] = queue[d][i])
  BY <1>2, <1>5, <1>8, PutApart
<1>10. ResultsApart'
  <2> SUFFICES ASSUME NEW k \in 1 .. Len(outgoing'), outgoing'[k][2] \in Quantum
               PROVE  /\ \A l \in 1 .. Len(outgoing') : outgoing'[l][2] = outgoing'[k][2] => l = k
                      /\ \A d \in Channels : \A i \in 1 .. Len(queue'[d]) :
                            queue'[d][i] # outgoing'[k][2]
    BY DEF ResultsApart
  <2>1. Len(outgoing) \in Nat
    BY <1>2
  <2>2. \A l \in 1 .. Len(outgoing') :
           l + 1 \in 1 .. Len(outgoing) /\ outgoing'[l] = outgoing[l + 1]
    BY <2>1, <1>6
  <2>3. outgoing[k + 1][2] \in Quantum /\ k + 1 \in 1 .. Len(outgoing)
        /\ outgoing'[k][2] = outgoing[k + 1][2]
    BY <2>2
  <2>4. /\ \A l \in 1 .. Len(outgoing) : outgoing[l][2] = outgoing[k + 1][2] => l = k + 1
        /\ \A d \in Channels : \A i \in 1 .. Len(queue[d]) : queue[d][i] # outgoing[k + 1][2]
    BY <2>3, <1>2 DEF ResultsApart
  <2>5. \A l \in 1 .. Len(outgoing') : outgoing'[l][2] = outgoing'[k][2] => l = k
    BY <2>2, <2>3, <2>4
  <2>6. t # outgoing[k + 1][2]
    BY <2>3, <2>4, <1>7
  <2>7. \A d \in Channels : \A i \in 1 .. Len(queue'[d]) : queue'[d][i] # outgoing[k + 1][2]
    BY <2>4, <2>6, <1>9
  <2> QED
    BY <2>3, <2>5, <2>7
<1>11. FlowTyped'
  BY <1>1, <1>2, <1>6, <1>9 DEF FlowTyped
<1>12. HandApart' /\ HeadsGuarded' /\ HandGuarded'
  BY <1>1, <1>2 DEF HandApart, HeadsGuarded, HandGuarded
<1> QED
  BY <1>9, <1>10, <1>11, <1>12 DEF PayloadInv

\* However the functions fork and the rounds break off, a quantum payload is in one channel
\* at most (DataflowRuntime.evaluate and step), as long as no node repeats an input.
THEOREM PayloadsAreNotCopied ==
  ASSUME NoRepeatedInput
  PROVE  DataflowSpec => []NoPayloadTwice
<1>1. DataflowInit => PayloadInv
  BY DEF DataflowInit, PayloadInv, FlowTyped, PlacesApart, HandApart, ResultsApart,
         HeadsGuarded, HandGuarded
<1>2. PayloadInv /\ [DataflowNext]_dataflowVars => PayloadInv'
  <2> SUFFICES ASSUME PayloadInv, [DataflowNext]_dataflowVars
               PROVE  PayloadInv'
    OBVIOUS
  <2>1. CASE Surroundings
    BY <2>1, SurroundingsKeepPayloads
  <2>2. CASE DeadlinesPass \/ Hold \/ UNCHANGED dataflowVars
    <3>1. UNCHANGED <<queue, hand, outgoing, phase, node>>
      BY <2>2 DEF DeadlinesPass, Hold, dataflowVars
    <3> QED
      BY <3>1 DEF PayloadInv, FlowTyped, PlacesApart, HandApart, ResultsApart, HeadsGuarded,
                  HandGuarded
  <2>3. CASE StartRounds \/ EndRound \/ Fired \/ TakeRefused \/ FunctionRaises \/ SendRefused
    <3>1. /\ queue' = queue /\ hand' = <<>> /\ outgoing' = <<>> /\ phase' \in {"idle", "round"}
      BY <2>3 DEF StartRounds, EndRound, Fired, TakeRefused, FunctionRaises, SendRefused, Escape,
                  PayloadInv, FlowTyped
    <3> QED
      BY <3>1, EmptyHands
  <2>4. CASE Fire
    BY <2>4, FireKeepsPayloads, DataflowAssumption
  <2>5. CASE TakeToken
    BY <2>5, TakeTokenKeepsPayloads, DataflowAssumption
  <2>6. CASE EnterFunction
    <3>1. /\ UNCHANGED <<queue, hand, outgoing, node>>
          /\ phase = "taking" /\ phase' = "inside"
      BY <2>6 DEF EnterFunction
    <3>2. FlowTyped'
      BY <3>1 DEF PayloadInv, FlowTyped
    <3>3. PlacesApart' /\ HandApart' /\ ResultsApart'
      BY <3>1 DEF PayloadInv, PlacesApart, HandApart, ResultsApart
    <3>4. HeadsGuarded' /\ HandGuarded'
      BY <3>1 DEF PayloadInv, HeadsGuarded, HandGuarded
    <3> QED
      BY <3>2, <3>3, <3>4 DEF PayloadInv
  <2>7. CASE FunctionReturns
    BY <2>7, FunctionReturnsKeepsPayloads, DataflowAssumption
  <2>8. CASE SendResult
    BY <2>8, SendKeepsPayloads
  <2> QED
    BY <2>1, <2>2, <2>3, <2>4, <2>5, <2>6, <2>7, <2>8 DEF DataflowNext
<1>3. PayloadInv => NoPayloadTwice
  <2> SUFFICES ASSUME PayloadInv, NEW t \in Quantum
               PROVE  Cardinality(Copies(t)) <= 1
    BY DEF NoPayloadTwice
  <2>1. \A x \in Copies(t), y \in Copies(t) : x = y
    BY DEF Copies, Spots, PayloadInv, PlacesApart
  <2>2. CASE Copies(t) = {}
    BY <2>2, FS_EmptySet
  <2>3. CASE Copies(t) # {}
    <3>1. PICK x : Copies(t) = {x}
      BY <2>1, <2>3
    <3>2. Cardinality({x}) = 1
      BY FS_Singleton
    <3> QED
      BY <3>1, <3>2
  <2> QED
    BY <2>2, <2>3
<1> QED
  BY <1>1, <1>2, <1>3, PTL DEF DataflowSpec
\* Both promises of the dataflow runtime, for any graph in which no node repeats an input
\* (DataflowRuntime.run, evaluate, step).
THEOREM RunsAreSafe ==
  ASSUME NoRepeatedInput
  PROVE  DataflowSpec => []DataflowIsSafe
<1>1. NoPayloadTwice /\ RunQuiesces => DataflowIsSafe
  BY DEF DataflowIsSafe
<1> QED
  BY <1>1, PayloadsAreNotCopied, RunsQuiesce, PTL

-----------------------------------------------------------------------------
(* Adaptation.                                                               *)

\* The bounds of a quotient, from those of a product.
LEMMA QuotientBounds ==
    ASSUME NEW s \in Nat, NEW q \in Nat \ {0}, NEW low \in Nat, NEW high \in Nat,
           low * q <= s, s <= high * q
    PROVE  s \div q \in Nat /\ low <= s \div q /\ s \div q <= high
<1> DEFINE d == s \div q
<1>1. d \in Nat /\ d * q <= s /\ s < (d + 1) * q
  OBVIOUS
<1> HIDE DEF d
<1>2. low <= d
  <2> SUFFICES ASSUME ~(low <= d)
               PROVE  FALSE
    OBVIOUS
  <2>1. d + 1 <= low
    BY <1>1
  <2>2. (d + 1) * q <= low * q
    BY <1>1, <2>1
  <2> QED
    BY <1>1, <2>2
<1>3. d <= high
  <2> SUFFICES ASSUME ~(d <= high)
               PROVE  FALSE
    OBVIOUS
  <2>1. high + 1 <= d
    BY <1>1
  <2>2. (high + 1) * q <= d * q
    BY <1>1, <2>1
  <2>3. (high + 1) * q = high * q + q
    OBVIOUS
  <2> QED
    BY <1>1, <2>2, <2>3
<1> QED
  BY <1>1, <1>2, <1>3 DEF d

\* A weighted average, rounded down, is between the bounds of what it averages.
LEMMA AverageBetween ==
    ASSUME NEW p \in Nat, NEW q \in Nat \ {0}, p <= q, NEW x \in Nat, NEW y \in Nat,
           NEW low \in Nat, NEW high \in Nat,
           low <= x, low <= y, x <= high, y <= high
    PROVE  /\ (p * x + (q - p) * y) \div q \in Nat
           /\ low <= (p * x + (q - p) * y) \div q
           /\ (p * x + (q - p) * y) \div q <= high
<1> DEFINE r == q - p
           s == p * x + r * y
<1>1. r \in Nat /\ q = p + r
  OBVIOUS
<1> HIDE DEF r
<1>2. p * low <= p * x /\ p * x <= p * high /\ r * low <= r * y /\ r * y <= r * high
  BY <1>1
<1>3. low * q = p * low + r * low /\ high * q = p * high + r * high
  BY <1>1
<1>4. p * x \in Nat /\ r * y \in Nat /\ p * low \in Nat /\ r * low \in Nat
      /\ p * high \in Nat /\ r * high \in Nat
  BY <1>1
<1>5. s \in Nat /\ low * q <= s /\ s <= high * q
  BY <1>2, <1>3, <1>4
<1> HIDE DEF s
<1>6. s \div q \in Nat /\ low <= s \div q /\ s \div q <= high
  BY <1>5, QuotientBounds
<1> QED
  BY <1>6 DEF s, r

SpeedsTyped ==
    /\ ema \in [Seen -> Nat] /\ Seen \subseteq Watched
    /\ speeds \in [Watched -> SUBSET Nat]

StragglerInv == SpeedsTyped /\ SpeedsAreAverages

\* An observation keeps the averages between the values seen, whatever the weight.
LEMMA ObserveKeeps ==
    ASSUME StragglerInv, NEW w \in Watched, NEW v \in Speeds, ObserveThroughput(w, v)
    PROVE  StragglerInv'
<1> DEFINE new == IF w \in Seen THEN Weighed(w, v) \div Alpha[2] ELSE v
<1>1. /\ ema' = [k \in Seen \cup {w} |-> IF k = w THEN new ELSE ema[k]]
      /\ speeds' = [speeds EXCEPT ![w] = @ \cup {v}]
  BY DEF ObserveThroughput
<1>2. v \in Nat /\ Alpha[1] \in Nat /\ Alpha[2] \in Nat \ {0} /\ Alpha[1] <= Alpha[2]
  BY AdaptationAssumption
<1>3. /\ \A k \in Seen : ema[k] \in Nat /\ k \in Watched
      /\ speeds[w] \subseteq Nat /\ DOMAIN speeds = Watched
  BY DEF StragglerInv, SpeedsTyped, Seen
<1>4. new \in Nat /\ \E low, high \in speeds[w] \cup {v} : low <= new /\ new <= high
  <2>1. CASE w \notin Seen
    BY <2>1, <1>2
  <2>2. CASE w \in Seen
    <3>1. PICK a \in speeds[w], b \in speeds[w] : a <= ema[w] /\ ema[w] <= b
      BY <2>2 DEF StragglerInv, SpeedsAreAverages
    <3>2. a \in Nat /\ b \in Nat /\ ema[w] \in Nat
      BY <2>2, <1>3, <3>1
    <3>3. PICK low \in {a, v} : low <= a /\ low <= v
      BY <3>2, <1>2
    <3>4. PICK high \in {b, v} : b <= high /\ v <= high
      BY <3>2, <1>2
    <3>5. low \in Nat /\ high \in Nat /\ low <= ema[w] /\ ema[w] <= high /\ low <= v /\ v <= high
      BY <3>1, <3>2, <3>3, <3>4, <1>2
    <3>6. /\ Weighed(w, v) \div Alpha[2] \in Nat
          /\ low <= Weighed(w, v) \div Alpha[2] /\ Weighed(w, v) \div Alpha[2] <= high
      BY <3>2, <3>5, <1>2, AverageBetween DEF Weighed
    <3>7. low \in speeds[w] \cup {v} /\ high \in speeds[w] \cup {v}
      BY <3>1, <3>3, <3>4
    <3> QED
      BY <2>2, <3>6, <3>7
  <2> QED
    BY <2>1, <2>2
<1> HIDE DEF new
<1>5. Seen' = Seen \cup {w} /\ \A k \in Seen' : ema'[k] = IF k = w THEN new ELSE ema[k]
  BY <1>1 DEF Seen
<1>6. speeds'[w] = speeds[w] \cup {v} /\ \A k \in Watched \ {w} : speeds'[k] = speeds[k]
  BY <1>1, <1>3
<1>7. SpeedsTyped'
  <2>1. ema' \in [Seen' -> Nat]
    BY <1>1, <1>3, <1>4, <1>5
  <2>2. Seen' \subseteq Watched
    BY <1>3, <1>5
  <2>3. speeds' \in [Watched -> SUBSET Nat]
    BY <1>1, <1>2 DEF StragglerInv, SpeedsTyped
  <2> QED
    BY <2>1, <2>2, <2>3 DEF SpeedsTyped
<1>8. SpeedsAreAverages'
  <2> SUFFICES ASSUME NEW k \in Seen'
               PROVE  \E low, high \in speeds'[k] : low <= ema'[k] /\ ema'[k] <= high
    BY DEF SpeedsAreAverages
  <2>1. CASE k = w
    BY <2>1, <1>4, <1>5, <1>6
  <2>2. CASE k # w
    <3>1. k \in Seen /\ ema'[k] = ema[k] /\ speeds'[k] = speeds[k]
      BY <2>2, <1>3, <1>5, <1>6
    <3> QED
      BY <3>1 DEF StragglerInv, SpeedsAreAverages
  <2> QED
    BY <2>1, <2>2
<1> QED
  BY <1>7, <1>8 DEF StragglerInv

LEMMA AveragesAreSound == StragglerSpec => []SpeedsAreAverages
<1>1. StragglerInit => StragglerInv
  <2> SUFFICES ASSUME StragglerInit
               PROVE  StragglerInv
    OBVIOUS
  <2>1. Seen = {} /\ ema = << >> /\ speeds = [w \in Watched |-> {}]
    BY DEF StragglerInit, Seen
  <2> QED
    BY <2>1 DEF StragglerInv, SpeedsTyped, SpeedsAreAverages
<1>2. StragglerInv /\ [StragglerNext]_stragglerVars => StragglerInv'
  <2> SUFFICES ASSUME StragglerInv, [StragglerNext]_stragglerVars
               PROVE  StragglerInv'
    OBVIOUS
  <2>1. CASE \E w \in Watched, v \in Speeds : ObserveThroughput(w, v)
    BY <2>1, ObserveKeeps
  <2>2. CASE UNCHANGED <<ema, speeds>>
    BY <2>2 DEF StragglerInv, SpeedsTyped, SpeedsAreAverages, Seen
  <2> QED
    BY <2>1, <2>2 DEF StragglerNext, ObserveDuration, ObserveQueueDelay, ObserveHeartbeat,
                      DetectStraggler, stragglerVars
<1>3. StragglerInv => SpeedsAreAverages
  BY DEF StragglerInv
<1> QED
  BY <1>1, <1>2, <1>3, PTL DEF StragglerSpec

\* The rounded quotient is the least number that reaches x in steps of y.
LEMMA RoundedUpIsLeast ==
    ASSUME NEW x \in Nat, NEW y \in Nat \ {0}
    PROVE  /\ RoundedUp(x, y) \in Nat
           /\ \A g \in Nat : x <= g * y <=> RoundedUp(x, y) <= g
<1> DEFINE s == x + y - 1
           d == s \div y
<1>1. s \in Nat /\ x = s + 1 - y
  OBVIOUS
<1> HIDE DEF s
<1>2. d \in Nat /\ d * y <= s /\ s < (d + 1) * y
  BY <1>1
<1> HIDE DEF d
<1>3. (d + 1) * y = d * y + y
  BY <1>2
<1> SUFFICES ASSUME NEW g \in Nat
             PROVE  x <= g * y <=> d <= g
  BY <1>2 DEF RoundedUp, d, s
<1>4. CASE d <= g
  <2>1. d * y <= g * y /\ d * y \in Nat /\ g * y \in Nat
    BY <1>2, <1>4
  <2> QED
    BY <1>1, <1>2, <1>3, <1>4, <2>1
<1>5. CASE g + 1 <= d
  <2>1. (g + 1) * y <= d * y /\ d * y \in Nat /\ g * y \in Nat
    BY <1>2, <1>5
  <2>2. (g + 1) * y = g * y + y
    OBVIOUS
  <2> QED
    BY <1>1, <1>2, <1>5, <2>1, <2>2
<1> QED
  BY <1>2, <1>4, <1>5

\* A grain meets the target exactly from that number on.
LEMMA MeetsFrom ==
    ASSUME NEW o \in Nat, NEW c \in Nat \ {0}, NEW g \in Nat
    PROVE  Meets(g, o, c) <=> RoundedUp(o * (TargetPart[2] - TargetPart[1]), TargetPart[1] * c) <= g
<1> DEFINE p == TargetPart[1]
           r == TargetPart[2] - TargetPart[1]
<1>1. p \in Nat \ {0} /\ r \in Nat /\ TargetPart[2] = p + r
  BY AdaptationAssumption
<1> HIDE DEF p, r
<1>2. o * r \in Nat /\ p * c \in Nat \ {0} /\ g * c \in Nat /\ o * p \in Nat /\ g * (p * c) \in Nat
  BY <1>1
<1>3. o * (p + r) = o * p + o * r
  BY <1>1
<1>4. p * (o + g * c) = o * p + g * (p * c)
  BY <1>1
<1>5. Meets(g, o, c) <=> o * r <= g * (p * c)
  BY <1>1, <1>2, <1>3, <1>4 DEF Meets, p
<1> QED
  BY <1>2, <1>5, RoundedUpIsLeast DEF p, r

\* The grain that is chosen is the least of its bounds that meets the target, if one does.
LEMMA ChosenIsLeast ==
    ASSUME NEW o \in Overheads, NEW c \in Costs, ChooseGrain(o, c)
    PROVE  GrainIsLeast'
<1> DEFINE up == RoundedUp(o * (TargetPart[2] - TargetPart[1]), TargetPart[1] * c)
<1>1. o \in Nat /\ c \in Nat \ {0} /\ MinGrain \in Nat /\ MaxGrain \in Nat
  BY AdaptationAssumption
<1>2. up \in Nat
  <2>1. o * (TargetPart[2] - TargetPart[1]) \in Nat /\ TargetPart[1] * c \in Nat \ {0}
    BY <1>1, AdaptationAssumption
  <2> QED
    BY <2>1, RoundedUpIsLeast
<1>3. \A g \in Nat : Meets(g, o, c) <=> up <= g
  BY <1>1, MeetsFrom
<1>4. decision' = [grain |-> Smaller(MaxGrain, Larger(MinGrain, up)), overhead |-> o, cost |-> c]
  BY DEF ChooseGrain, Grain
<1> HIDE DEF up
<1> DEFINE d == Smaller(MaxGrain, Larger(MinGrain, up))
<1>5. d \in Nat /\ (d < MaxGrain => up <= d) /\ \A g \in MinGrain .. d - 1 : g \in Nat /\ ~(up <= g)
  BY <1>1, <1>2 DEF Smaller, Larger
<1>6. decision'.grain = d /\ decision'.overhead = o /\ decision'.cost = c
  BY <1>4
<1> HIDE DEF d
<1> QED
  BY <1>3, <1>5, <1>6 DEF GrainIsLeast, Meets

LEMMA GrainsAreSound == GrainSpec => []GrainIsLeast
<1>1. GrainInit => GrainIsLeast
  <2> SUFFICES ASSUME GrainInit
               PROVE  GrainIsLeast
    OBVIOUS
  <2>1. decision.grain = MinGrain /\ decision.overhead = 0 /\ decision.cost = 0
    BY DEF GrainInit
  <2>2. /\ MinGrain \in Nat /\ TargetPart[1] \in Nat /\ TargetPart[2] \in Nat
    BY AdaptationAssumption
  <2>3. MinGrain .. MinGrain - 1 = {}
    BY <2>2
  <2>4. Meets(MinGrain, 0, 0)
    BY <2>2 DEF Meets
  <2> QED
    BY <2>1, <2>3, <2>4 DEF GrainIsLeast
<1>2. GrainIsLeast /\ [GrainNext]_grainVars => GrainIsLeast'
  <2> SUFFICES ASSUME GrainIsLeast, [GrainNext]_grainVars
               PROVE  GrainIsLeast'
    OBVIOUS
  <2>1. CASE \E o \in Overheads, c \in Costs : ChooseGrain(o, c)
    BY <2>1, ChosenIsLeast
  <2>2. CASE UNCHANGED decision
    BY <2>2 DEF GrainIsLeast, Meets
  <2> QED
    BY <2>1, <2>2 DEF GrainNext, Adapt, grainVars
<1> QED
  BY <1>1, <1>2, PTL DEF GrainSpec

GuardTyped == time \in Nat /\ adaptations \in Seq([at : Nat, token : BOOLEAN])

\* The adaptations of the window that ends with the i-th.
WindowOf(records, i) == {j \in 1 .. i : records[j].at > records[i].at - Window}

GuardInv ==
    /\ GuardTyped
    /\ thrashing <=> \E i \in DOMAIN adaptations : TooMany(Cardinality(WindowOf(adaptations, i)))

\* The guard counts the new record with those of its window, and changes no older count.
LEMMA AdjustKeeps ==
    ASSUME GuardInv, Adjust
    PROVE  GuardInv'
<1> DEFINE n == Len(adaptations)
           tick == time + 1
           many == Cardinality(Recent(tick)) + 1
           r == [at |-> tick, token |-> TooMany(many)]
<1>1. /\ time' = tick /\ adaptations' = Append(adaptations, r)
      /\ thrashing' = (thrashing \/ TooMany(many))
  BY DEF Adjust
<1>2. n \in Nat /\ tick \in Nat /\ Window \in Nat \ {0} /\ \A j \in 1 .. n : adaptations[j].at \in Nat
  <2> DEFINE Records == [at : Nat, token : BOOLEAN]
  <2>1. \A j \in 1 .. n : adaptations[j].at \in Nat
    <3>1. adaptations \in Seq(Records)
      BY DEF GuardInv, GuardTyped
    <3>2. \A x \in Records : x.at \in Nat
      OBVIOUS
    <3> HIDE DEF Records
    <3>3. \A j \in 1 .. n : adaptations[j] \in Records
      BY <3>1
    <3> QED
      BY <3>2, <3>3
  <2>2. n \in Nat /\ time \in Nat
    BY DEF GuardInv, GuardTyped
  <2> QED
    BY <2>1, <2>2, AdaptationAssumption
<1>3. /\ DOMAIN adaptations = 1 .. n /\ DOMAIN adaptations' = 1 .. n + 1
      /\ \A j \in 1 .. n : adaptations'[j] = adaptations[j]
      /\ adaptations'[n + 1] = r
  BY <1>1 DEF GuardInv, GuardTyped
<1>4. \A i \in 1 .. n : WindowOf(adaptations', i) = WindowOf(adaptations, i)
  BY <1>2, <1>3 DEF WindowOf
<1>5. WindowOf(adaptations', n + 1) = Recent(tick) \cup {n + 1}
  <2>1. r.at = tick
    OBVIOUS
  <2>2. 1 .. n + 1 = (1 .. n) \cup {n + 1}
    BY <1>2
  <2>3. tick > tick - Window
    BY <1>2
  <2> QED
    BY <1>2, <1>3, <2>1, <2>2, <2>3 DEF WindowOf, Recent
<1>6. Cardinality(WindowOf(adaptations', n + 1)) = many
  <2>1. Recent(tick) \subseteq 1 .. n /\ n + 1 \notin Recent(tick)
    BY <1>2, <1>3 DEF Recent
  <2>2. IsFiniteSet(Recent(tick))
    <3>1. IsFiniteSet(1 .. n)
      BY <1>2, FS_Interval
    <3> QED
      BY <2>1, <3>1, FS_Subset
  <2> QED
    BY <1>5, <2>1, <2>2, FS_AddElement
<1> HIDE DEF many
<1>7. TooMany(many) \in BOOLEAN
  BY DEF TooMany
<1>8. GuardTyped'
  <2>1. r \in [at : Nat, token : BOOLEAN]
    BY <1>2, <1>7
  <2> HIDE DEF r
  <2> QED
    BY <1>1, <1>2, <2>1 DEF GuardInv, GuardTyped
<1>9. /\ \A i \in 1 .. n : Cardinality(WindowOf(adaptations', i)) = Cardinality(WindowOf(adaptations, i))
      /\ 1 .. n + 1 = (1 .. n) \cup {n + 1}
  BY <1>2, <1>4
<1>10. thrashing' <=> \E i \in DOMAIN adaptations' : TooMany(Cardinality(WindowOf(adaptations', i)))
  BY <1>1, <1>3, <1>6, <1>9 DEF GuardInv
<1> QED
  BY <1>8, <1>10 DEF GuardInv, TooMany

LEMMA GuardIsSound == GuardSpec => []ThrashIsExact
<1>1. GuardInit => GuardInv
  BY DEF GuardInit, GuardInv, GuardTyped
<1>2. GuardInv /\ [GuardNext]_guardVars => GuardInv'
  <2> SUFFICES ASSUME GuardInv, [GuardNext]_guardVars
               PROVE  GuardInv'
    OBVIOUS
  <2>1. CASE Adjust
    BY <2>1, AdjustKeeps
  <2>2. CASE \E t \in 1 .. MaxTicks : Elapse(t)
    <3>1. time' \in Nat /\ UNCHANGED <<adaptations, thrashing>>
      BY <2>2 DEF Elapse, GuardInv, GuardTyped
    <3> QED
      BY <3>1 DEF GuardInv, GuardTyped
  <2>3. CASE UNCHANGED guardVars
    BY <2>3 DEF GuardInv, GuardTyped, guardVars
  <2> QED
    BY <2>1, <2>2, <2>3 DEF GuardNext
<1>3. GuardInv => ThrashIsExact
  BY DEF GuardInv, ThrashIsExact, WindowOf
<1> QED
  BY <1>1, <1>2, <1>3, PTL DEF GuardSpec

\* What fabric.py adapts goes by what was observed, for every weight, window, rate and
\* target: averages stay between the values seen, the grain is the least that meets its
\* target, and the guard counts exactly the adaptations of its window
\* (observe_throughput, choose_grain, _guard).
THEOREM AdaptationKeepsToObservations ==
    StragglerSpec /\ GrainSpec /\ GuardSpec => []AdaptationIsSound
<1>1. SpeedsAreAverages /\ GrainIsLeast /\ ThrashIsExact => AdaptationIsSound
  BY DEF AdaptationIsSound
<1> QED
  BY <1>1, AveragesAreSound, GrainsAreSound, GuardIsSound, PTL

-----------------------------------------------------------------------------
(* The deadlock detector.                                                    *)

\* Every set of numbers can be put in order: the next one is the least.
Rising(q, n, S) == q \in [1 .. n -> S] /\ \A i, j \in 1 .. n : i < j => q[i] < q[j]

\* A finite set of numbers can be put in order.
LEMMA RisingExists ==
    ASSUME NEW S \in SUBSET Nat, IsFiniteSet(S)
    PROVE  \E q : Rising(q, Cardinality(S), S)
<1> DEFINE Sized(n) == {T \in SUBSET Nat : IsFiniteSet(T) /\ Cardinality(T) = n}
           Bad == {n \in Nat : \E T \in Sized(n) : ~\E q : Rising(q, n, T)}
<1> SUFFICES ASSUME Bad # {} PROVE FALSE
  <2>1. Cardinality(S) \in Nat /\ S \in Sized(Cardinality(S))
    BY FS_CardinalityType
  <2> QED
    BY <2>1
<1>1. PICK n \in Bad : \A y \in Bad : n <= y
  <2>1. Bad \in SUBSET Nat
    OBVIOUS
  <2> HIDE DEF Bad
  <2> QED
    BY <2>1, LeastExists
<1>2. PICK T \in Sized(n) : ~\E q : Rising(q, n, T)
  BY <1>1
<1>3. n \in Nat /\ T \in SUBSET Nat /\ IsFiniteSet(T) /\ Cardinality(T) = n
  BY <1>1, <1>2
<1>4. T # {}
  <2> SUFFICES ASSUME T = {} PROVE FALSE
    OBVIOUS
  <2>1. n = 0
    BY <1>3, FS_EmptySet
  <2>2. Rising([i \in 1 .. 0 |-> 0], n, T)
    BY <2>1 DEF Rising
  <2> QED
    BY <2>2, <1>2
<1>5. PICK x \in T : \A y \in T : x <= y
  BY <1>3, <1>4, LeastExists
<1>6. IsFiniteSet(T \ {x}) /\ Cardinality(T \ {x}) = n - 1 /\ n # 0
  BY <1>3, <1>4, FS_RemoveElement, FS_EmptySet
<1>7. n - 1 \in Nat /\ n - 1 \notin Bad /\ T \ {x} \in Sized(n - 1)
  <2>1. n - 1 \in Nat /\ ~(n <= n - 1)
    BY <1>3, <1>6
  <2>2. n - 1 \notin Bad
    BY <2>1, <1>1
  <2>3. T \ {x} \in SUBSET Nat
    BY <1>3
  <2> QED
    BY <2>1, <2>2, <2>3, <1>6
<1>8. PICK q : Rising(q, n - 1, T \ {x})
  BY <1>7
<1> HIDE DEF Bad, Sized
<1> DEFINE r == [i \in 1 .. n |-> IF i = 1 THEN x ELSE q[i - 1]]
<1>9. ASSUME NEW i \in 1 .. n, i # 1
      PROVE  i - 1 \in 1 .. n - 1 /\ r[i] = q[i - 1] /\ r[i] \in T /\ x < r[i]
  <2>1. i - 1 \in 1 .. n - 1 /\ r[i] = q[i - 1]
    BY <1>3, <1>9
  <2>2. q[i - 1] \in T \ {x}
    BY <1>8, <2>1 DEF Rising
  <2>3. x \in Nat /\ q[i - 1] \in Nat /\ x <= q[i - 1] /\ x # q[i - 1]
    BY <1>3, <1>5, <2>2
  <2> QED
    BY <2>1, <2>2, <2>3
<1>10. r[1] = x
  BY <1>3, <1>6
<1>11. r \in [1 .. n -> T]
  BY <1>9, <1>5
<1>12. ASSUME NEW i \in 1 .. n, NEW j \in 1 .. n, i < j
       PROVE  r[i] < r[j]
  <2>1. j # 1
    BY <1>3, <1>12
  <2>2. CASE i = 1
    BY <2>1, <2>2, <1>9, <1>10
  <2>3. CASE i # 1
    <3>1. i - 1 \in 1 .. n - 1 /\ j - 1 \in 1 .. n - 1 /\ r[i] = q[i - 1] /\ r[j] = q[j - 1]
      BY <2>1, <2>3, <1>9
    <3>2. i - 1 < j - 1
      BY <1>12
    <3> QED
      BY <3>1, <3>2, <1>8 DEF Rising
  <2> QED
    BY <2>2, <2>3
<1>13. Rising(r, n, T)
  BY <1>11, <1>12 DEF Rising
<1> QED
  BY <1>13, <1>2

\* A set in order is all of it, each member once.
LEMMA RankedIsWhole ==
    ASSUME NEW S \in SUBSET Nat, IsFiniteSet(S)
    PROVE  /\ Cardinality(S) \in Nat
           /\ Ranked(S) \in [1 .. Cardinality(S) -> S]
           /\ \A i, j \in 1 .. Cardinality(S) : Ranked(S)[i] = Ranked(S)[j] => i = j
           /\ \A x \in S : \E i \in 1 .. Cardinality(S) : Ranked(S)[i] = x
<1> DEFINE n == Cardinality(S)
           q == Ranked(S)
<1>1. n \in Nat
  BY FS_CardinalityType
<1>2. q \in [1 .. n -> S] /\ \A i, j \in 1 .. n : i < j => q[i] < q[j]
  <2>1. PICK r : Rising(r, n, S)
    BY RisingExists
  <2>2. r \in [1 .. n -> S] /\ \A i, j \in DOMAIN r : i < j => r[i] < r[j]
    BY <2>1 DEF Rising
  <2>3. q \in [1 .. n -> S] /\ \A i, j \in DOMAIN q : i < j => q[i] < q[j]
    BY <2>2 DEF Ranked
  <2> QED
    BY <2>3
<1> HIDE DEF n, q
<1>3. ASSUME NEW i \in 1 .. n, NEW j \in 1 .. n, q[i] = q[j]
      PROVE  i = j
  <2>1. q[i] \in Nat /\ q[j] \in Nat
    BY <1>2
  <2>2. ~(i < j) /\ ~(j < i)
    BY <2>1, <1>2, <1>3
  <2> QED
    BY <1>1, <2>2
<1>4. q \in Injection(1 .. n, S)
  BY <1>2, <1>3 DEF Injection, IsInjective
<1>5. Cardinality(1 .. n) = n
  BY <1>1, FS_Interval
<1>6. q \in Surjection(1 .. n, S)
  BY <1>4, <1>5, FS_Injection DEF n
<1>7. \A x \in S : \E i \in 1 .. n : q[i] = x
  BY <1>6 DEF Surjection
<1> QED
  BY <1>1, <1>2, <1>3, <1>7 DEF n, q

\* A search begins at its start and takes one turn after the other.
Beginning(start) == [queue |-> <<start>>, trail |-> [m \in {start} |-> <<start>>], found |-> <<>>]
SearchStep(f, k, start) == IF k = 0 THEN Beginning(start) ELSE Turn(f[k - 1], start)
Searched(f, n, start) == f = [k \in 0 .. n |-> SearchStep(f, k, start)]

\* A recursion over turns has a value: the least length without one does not exist.
LEMMA SearchedExists ==
    ASSUME NEW start, NEW n \in Nat
    PROVE  \E f : Searched(f, n, start)
<1> DEFINE Bad == {m \in Nat : ~\E f : Searched(f, m, start)}
<1> SUFFICES ASSUME Bad # {} PROVE FALSE
  OBVIOUS
<1>1. PICK m \in Bad : \A y \in Bad : m <= y
  <2>1. Bad \in SUBSET Nat
    OBVIOUS
  <2> HIDE DEF Bad
  <2> QED
    BY <2>1, LeastExists
<1>2. m \in Nat /\ ~\E f : Searched(f, m, start)
  BY <1>1
<1>3. CASE m = 0
  <2>1. Searched([k \in 0 .. 0 |-> Beginning(start)], 0, start)
    BY DEF Searched, SearchStep
  <2> QED
    BY <1>2, <1>3, <2>1
<1>4. CASE m # 0
  <2>1. m - 1 \in Nat /\ m - 1 \notin Bad
    BY <1>1, <1>2, <1>4
  <2>2. PICK f : Searched(f, m - 1, start)
    BY <2>1
  <2> DEFINE g == [k \in 0 .. m |-> IF k = m THEN SearchStep(f, m, start) ELSE f[k]]
  <2>3. ASSUME NEW k \in 0 .. m
        PROVE  g[k] = SearchStep(g, k, start)
    <3>1. CASE k = 0
      BY <2>2, <3>1, <1>2, <1>4 DEF Searched, SearchStep
    <3>2. CASE k # 0
      <4>1. k - 1 \in 0 .. m /\ k - 1 # m /\ g[k - 1] = f[k - 1]
        BY <1>2, <3>2
      <4>2. SearchStep(g, k, start) = SearchStep(f, k, start)
        BY <4>1, <3>2 DEF SearchStep
      <4>3. CASE k = m
        BY <4>2, <4>3
      <4>4. CASE k # m
        <5>1. k \in 0 .. m - 1
          BY <4>4, <1>2
        <5>2. f[k] = SearchStep(f, k, start)
          BY <2>2, <5>1 DEF Searched
        <5> QED
          BY <4>2, <4>4, <5>2
      <4> QED
        BY <4>3, <4>4
    <3> QED
      BY <3>1, <3>2
  <2>4. g = [k \in 0 .. m |-> g[k]]
    OBVIOUS
  <2>5. [k \in 0 .. m |-> g[k]] = [k \in 0 .. m |-> SearchStep(g, k, start)]
    BY <2>3
  <2>6. Searched(g, m, start)
    BY <2>4, <2>5 DEF Searched
  <2> QED
    BY <2>6, <1>2
<1> QED
  BY <1>3, <1>4

\* The names are finitely many numbers.
LEMMA NamesCounted ==
    /\ Names \subseteq Nat /\ IsFiniteSet(Names) /\ Cardinality(Names) \in Nat
<1>1. Names \subseteq Nat /\ IsFiniteSet(Names)
  BY DetectorAssumption DEF Names
<1> QED
  BY <1>1, FS_CardinalityType

\* The search begins at its start, and every value of it is a turn of the one before.
LEMMA SearchTurns ==
    ASSUME NEW start
    PROVE  /\ Search(start)[0] = Beginning(start)
           /\ \A k \in 1 .. Cardinality(Names) : Search(start)[k] = Turn(Search(start)[k - 1], start)
<1> DEFINE n == Cardinality(Names)
<1>1. n \in Nat
  BY NamesCounted
<1>2. Searched(Search(start), n, start)
  <2>1. \E f : f = [k \in 0 .. n |-> SearchStep(f, k, start)]
    BY <1>1, SearchedExists DEF Searched
  <2>2. Search(start) = CHOOSE f : f = [k \in 0 .. n |-> SearchStep(f, k, start)]
    BY DEF Search, SearchStep, Beginning
  <2> QED
    BY <2>1, <2>2 DEF Searched
<1> HIDE DEF n
<1>3. \A k \in 0 .. n : Search(start)[k] = SearchStep(Search(start), k, start)
  BY <1>2 DEF Searched
<1>4. 0 \in 0 .. n /\ \A k \in 1 .. n : k \in 0 .. n /\ k # 0
  BY <1>1
<1> QED
  BY <1>3, <1>4 DEF SearchStep, n

-----------------------------------------------------------------------------
\* Every node reached has a way from the start, of distinct nodes.
WaysSound(t, start) ==
    /\ start \in DOMAIN t /\ DOMAIN t \subseteq Names /\ t[start] = <<start>>
    /\ \A m \in DOMAIN t :
          /\ t[m] \in Seq(DOMAIN t) /\ Len(t[m]) >= 1
          /\ t[m][1] = start /\ t[m][Len(t[m])] = m
          /\ \A i \in 1 .. Len(t[m]) - 1 : <<t[m][i], t[m][i + 1]>> \in edges
          /\ \A i, j \in 1 .. Len(t[m]) : t[m][i] = t[m][j] => i = j

\* The queue holds nodes reached, each once, the nearer before the farther and
\* the last no more than one step farther than the first.
QueueSound(q, t) ==
    /\ q \in Seq(DOMAIN t)
    /\ \A i, j \in 1 .. Len(q) : q[i] = q[j] => i = j
    /\ \A i, j \in 1 .. Len(q) : i <= j => /\ Len(t[q[i]]) <= Len(t[q[j]])
                                           /\ Len(t[q[j]]) <= Len(t[q[i]]) + 1

\* What has left the queue leads to nodes reached only, one step farther at most,
\* not back to the start, and is no farther than what waits.
Past(q, t) == {m \in DOMAIN t : \A i \in 1 .. Len(q) : q[i] # m}
PastSound(q, t, start) ==
    \A n \in Past(q, t) :
       /\ start \notin Blockers(n) /\ Blockers(n) \subseteq DOMAIN t
       /\ \A m \in Blockers(n) : Len(t[m]) <= Len(t[n]) + 1
       /\ \A i \in 1 .. Len(q) : Len(t[n]) <= Len(t[q[i]])

\* A turn that reaches the fresh blockers of n.
Spread(t, n) ==
    [m \in DOMAIN t \union (Blockers(n) \ DOMAIN t) |->
        IF m \in Blockers(n) \ DOMAIN t THEN Append(t[n], m) ELSE t[m]]
Requeued(q, t) == Tail(q) \o Ranked(Blockers(q[1]) \ DOMAIN t)

\* What a node waits for is a name.
LEMMA BlockersAreNames ==
    ASSUME NEW n
    PROVE  Blockers(n) \subseteq Names /\ \A m \in Blockers(n) : <<n, m>> \in edges
  BY DEF Blockers

\* What a turn at n makes of the ways: the old ones stay, the fresh ones are one step longer.
Grown(t, n) ==
    /\ DOMAIN Spread(t, n) = DOMAIN t \union Blockers(n)
    /\ \A m \in DOMAIN t : Len(Spread(t, n)[m]) = Len(t[m]) /\ Len(t[m]) \in Nat
    /\ \A m \in Blockers(n) \ DOMAIN t : Len(Spread(t, n)[m]) = Len(t[n]) + 1

\* A way that is lengthened by a node it has not visited.
LEMMA WaysGrow ==
    ASSUME NEW start, NEW t, NEW n \in DOMAIN t, WaysSound(t, start)
    PROVE  WaysSound(Spread(t, n), start) /\ Grown(t, n)
<1> DEFINE u == Spread(t, n)
           fresh == Blockers(n) \ DOMAIN t
<1>1. DOMAIN u = DOMAIN t \union Blockers(n)
  BY DEF Spread
<1>2. \A m \in DOMAIN t : u[m] = t[m] /\ Len(t[m]) \in Nat
  BY DEF Spread, WaysSound
<1>3. \A m \in fresh : m \notin DOMAIN t /\ u[m] = Append(t[n], m) /\ <<n, m>> \in edges
  BY DEF Spread, Blockers
<1>4. start \in DOMAIN t /\ t[start] = <<start>> /\ DOMAIN u \subseteq Names
  BY <1>1, BlockersAreNames DEF WaysSound
<1>5. \A m : m \in DOMAIN u <=> m \in DOMAIN t \/ m \in fresh
  BY <1>1
<1> HIDE DEF u, fresh
<1> DEFINE Way(p, D, m) ==
              /\ p \in Seq(D) /\ Len(p) >= 1 /\ p[1] = start /\ p[Len(p)] = m
              /\ \A i \in 1 .. Len(p) - 1 : <<p[i], p[i + 1]>> \in edges
              /\ \A i, j \in 1 .. Len(p) : p[i] = p[j] => i = j
<1>6. \A m \in DOMAIN t : Way(t[m], DOMAIN t, m)
  BY DEF WaysSound
<1>7. ASSUME NEW m \in DOMAIN t
      PROVE  Way(u[m], DOMAIN u, m)
  <2>1. t[m] \in Seq(DOMAIN u)
    BY <1>5, <1>6
  <2> QED
    BY <1>2, <1>6, <2>1
<1>8. ASSUME NEW m \in fresh
      PROVE  Way(u[m], DOMAIN u, m) /\ Len(u[m]) = Len(t[n]) + 1
  <2> DEFINE p == t[n]
             r == u[m]
             l == Len(t[n])
  <2>1. /\ p \in Seq(DOMAIN t) /\ l = Len(p) /\ l \in Nat /\ l >= 1 /\ p[1] = start /\ p[l] = n
        /\ \A i \in 1 .. l - 1 : <<p[i], p[i + 1]>> \in edges
        /\ \A i, j \in 1 .. l : p[i] = p[j] => i = j
    BY <1>6
  <2>2. r = Append(p, m) /\ m \notin DOMAIN t /\ <<n, m>> \in edges
    BY <1>3
  <2> HIDE DEF p, r, l, Way
  <2>3. Len(r) = l + 1 /\ r[l + 1] = m /\ \A i \in 1 .. l : r[i] = p[i] /\ p[i] \in DOMAIN t
    BY <2>1, <2>2
  <2>4. r \in Seq(DOMAIN u)
    <3>1. p \in Seq(DOMAIN u)
      BY <1>5, <2>1
    <3>2. m \in DOMAIN u
      BY <1>5
    <3> QED
      BY <3>1, <3>2, <2>2
  <2>5. ASSUME NEW i \in 1 .. l
        PROVE  <<r[i], r[i + 1]>> \in edges
    <3>1. CASE i = l
      BY <3>1, <2>1, <2>2, <2>3
    <3>2. CASE i # l
      <4>1. i \in 1 .. l - 1 /\ i + 1 \in 1 .. l
        BY <3>2, <2>1
      <4> QED
        BY <4>1, <2>1, <2>3
    <3> QED
      BY <3>1, <3>2
  <2>6. ASSUME NEW i \in 1 .. l + 1, NEW j \in 1 .. l + 1, r[i] = r[j]
        PROVE  i = j
    <3>1. \A k \in 1 .. l + 1 : k = l + 1 \/ k \in 1 .. l
      BY <2>1
    <3>2. \A k \in 1 .. l : r[k] # m
      BY <2>2, <2>3
    <3> QED
      BY <3>1, <3>2, <2>1, <2>3, <2>6
  <2>7. l + 1 >= 1 /\ r[1] = start /\ l + 1 - 1 = l
    BY <2>1, <2>3
  <2> QED
    BY <2>3, <2>4, <2>5, <2>6, <2>7 DEF Way, r, l
<1>9. \A m \in DOMAIN u : Way(u[m], DOMAIN u, m)
  BY <1>5, <1>7, <1>8
<1>10. start \in DOMAIN u /\ DOMAIN u \subseteq Names /\ u[start] = <<start>>
  BY <1>2, <1>4, <1>5
<1>11. WaysSound(u, start)
  BY <1>9, <1>10 DEF WaysSound
<1>12. \A m \in DOMAIN t : Len(u[m]) = Len(t[m]) /\ Len(t[m]) \in Nat
  BY <1>2
<1>13. \A m \in fresh : Len(u[m]) = Len(t[n]) + 1
  BY <1>8
<1> QED
  BY <1>1, <1>11, <1>12, <1>13 DEF u, fresh, Grown

\* The queue after a turn: what was behind the first, then what is fresh.
LEMMA RequeuedIs ==
    ASSUME NEW t, NEW q \in Seq(DOMAIN t), q # <<>>
    PROVE  LET fresh == Blockers(q[1]) \ DOMAIN t
               v == Requeued(q, t)
           IN  /\ Len(q) \in Nat /\ Len(q) >= 1
               /\ v \in Seq(DOMAIN t \union fresh) /\ Len(v) \in Nat
               /\ \A i \in 1 .. Len(v) : \/ i < Len(q) /\ i + 1 \in 1 .. Len(q) /\ v[i] = q[i + 1]
                                         \/ i >= Len(q) /\ v[i] \in fresh
               /\ \A i, j \in 1 .. Len(v) : i >= Len(q) /\ j >= Len(q) /\ v[i] = v[j] => i = j
               /\ \A i \in 2 .. Len(q) : i - 1 \in 1 .. Len(v) /\ v[i - 1] = q[i]
               /\ \A m \in fresh : \E i \in 1 .. Len(v) : v[i] = m
<1> DEFINE fresh == Blockers(q[1]) \ DOMAIN t
           v == Requeued(q, t)
           r == Ranked(fresh)
           c == Cardinality(fresh)
           l == Len(q)
<1>1. fresh \in SUBSET Nat /\ IsFiniteSet(fresh)
  <2>1. fresh \in SUBSET Names
    BY BlockersAreNames
  <2> QED
    BY <2>1, NamesCounted, FS_Subset
<1>2. /\ c \in Nat /\ r \in [1 .. c -> fresh]
      /\ \A i, j \in 1 .. c : r[i] = r[j] => i = j
      /\ \A x \in fresh : \E i \in 1 .. c : r[i] = x
  BY <1>1, RankedIsWhole
<1>3. l \in Nat /\ l >= 1 /\ Tail(q) \in Seq(DOMAIN t) /\ Len(Tail(q)) = l - 1
      /\ \A i \in 1 .. l - 1 : Tail(q)[i] = q[i + 1]
  OBVIOUS
<1>4. v = Tail(q) \o r
  BY DEF Requeued
<1> HIDE DEF fresh, v, r, c, l
<1>5. r \in Seq(fresh) /\ Len(r) = c
  <2>1. r \in Seq(fresh)
    BY <1>2
  <2>2. DOMAIN r = 1 .. c
    BY <1>2
  <2> QED
    BY <1>2, <2>1, <2>2
<1>6. /\ v \in Seq(DOMAIN t \union fresh) /\ Len(v) = l - 1 + c
      /\ \A i \in 1 .. l - 1 + c : v[i] = IF i <= l - 1 THEN Tail(q)[i] ELSE r[i - (l - 1)]
  <2>1. Tail(q) \in Seq(DOMAIN t \union fresh) /\ r \in Seq(DOMAIN t \union fresh)
    BY <1>3, <1>5
  <2> QED
    BY <2>1, <1>3, <1>4, <1>5
<1>7. ASSUME NEW i \in 1 .. l - 1 + c
      PROVE  \/ i < l /\ i + 1 \in 1 .. l /\ v[i] = q[i + 1]
             \/ i >= l /\ v[i] \in fresh /\ v[i] = r[i - (l - 1)] /\ i - (l - 1) \in 1 .. c
  <2>1. CASE i < l
    <3>1. i \in 1 .. l - 1 /\ i + 1 \in 1 .. l /\ i <= l - 1
      BY <2>1, <1>3, <1>2
    <3> QED
      BY <3>1, <2>1, <1>3, <1>6
  <2>2. CASE ~(i < l)
    <3>1. i >= l /\ i - (l - 1) \in 1 .. c /\ ~(i <= l - 1)
      BY <2>2, <1>3, <1>2
    <3>2. v[i] = r[i - (l - 1)]
      BY <3>1, <1>6
    <3> QED
      BY <3>1, <3>2, <1>2
  <2> QED
    BY <2>1, <2>2
<1>8. ASSUME NEW i \in 1 .. l - 1 + c, NEW j \in 1 .. l - 1 + c, i >= l, j >= l, v[i] = v[j]
      PROVE  i = j
  <2>1. /\ v[i] = r[i - (l - 1)] /\ i - (l - 1) \in 1 .. c
        /\ v[j] = r[j - (l - 1)] /\ j - (l - 1) \in 1 .. c
    BY <1>7, <1>8, <1>3
  <2>2. i - (l - 1) = j - (l - 1)
    BY <2>1, <1>2, <1>8
  <2> QED
    BY <2>2, <1>3, <1>2
<1>9. ASSUME NEW i \in 2 .. l
      PROVE  i - 1 \in 1 .. l - 1 + c /\ v[i - 1] = q[i]
  <2>1. i - 1 \in 1 .. l - 1 /\ i - 1 \in 1 .. l - 1 + c /\ i - 1 <= l - 1 /\ i - 1 + 1 = i
    BY <1>3, <1>2
  <2>2. v[i - 1] = Tail(q)[i - 1] /\ Tail(q)[i - 1] = q[i - 1 + 1]
    BY <2>1, <1>3, <1>6
  <2> QED
    BY <2>1, <2>2
<1>10. ASSUME NEW m \in fresh
       PROVE  \E i \in 1 .. l - 1 + c : v[i] = m
  <2>1. PICK i \in 1 .. c : r[i] = m
    BY <1>2
  <2>2. l - 1 + i \in 1 .. l - 1 + c /\ ~(l - 1 + i <= l - 1) /\ l - 1 + i - (l - 1) = i
    BY <1>3, <1>2
  <2> DEFINE j == l - 1 + i
  <2>3. j \in 1 .. l - 1 + c /\ ~(j <= l - 1) /\ j - (l - 1) = i
    BY <2>2, <1>2, <1>3
  <2> HIDE DEF j
  <2>4. j \in 1 .. l - 1 + c /\ v[j] = m
    BY <2>1, <2>3, <1>6
  <2> QED
    BY <2>4
<1>11. l - 1 + c \in Nat
  BY <1>2, <1>3
<1> QED
  BY <1>3, <1>6, <1>7, <1>8, <1>9, <1>10, <1>11 DEF fresh, v, l

\* A turn that does not come back to the start keeps the queue and what has left it sound.
LEMMA TurnKeepsQueue ==
    ASSUME NEW start, NEW t, NEW q, q # <<>>, WaysSound(t, start), QueueSound(q, t),
           PastSound(q, t, start), start \notin Blockers(q[1])
    PROVE  LET u == Spread(t, q[1])
               v == Requeued(q, t)
           IN  /\ WaysSound(u, start) /\ QueueSound(v, u) /\ PastSound(v, u, start)
               /\ Past(v, u) = Past(q, t) \union {q[1]} /\ q[1] \notin Past(q, t)
<1> DEFINE n == q[1]
<1> HIDE DEF n
<1> DEFINE u == Spread(t, n)
           v == Requeued(q, t)
           fresh == Blockers(n) \ DOMAIN t
           l == Len(q)
<1>1. /\ q \in Seq(DOMAIN t) /\ l \in Nat /\ l >= 1 /\ 1 \in 1 .. l /\ n \in DOMAIN t
      /\ \A i \in 1 .. l : q[i] \in DOMAIN t
  BY DEF QueueSound, n
<1>2. /\ WaysSound(u, start) /\ DOMAIN u = DOMAIN t \union Blockers(n)
      /\ \A m \in DOMAIN t : Len(u[m]) = Len(t[m]) /\ Len(t[m]) \in Nat
      /\ \A m \in fresh : Len(u[m]) = Len(t[n]) + 1
  <2>1. n \in DOMAIN t /\ WaysSound(t, start)
    BY <1>1
  <2>2. WaysSound(Spread(t, n), start) /\ Grown(t, n)
    BY <2>1, WaysGrow
  <2> QED
    BY <2>2 DEF u, fresh, Grown
<1>3. /\ v \in Seq(DOMAIN t \union fresh) /\ Len(v) \in Nat
      /\ \A i \in 1 .. Len(v) : \/ i < l /\ i + 1 \in 1 .. l /\ v[i] = q[i + 1]
                                \/ i >= l /\ v[i] \in fresh
      /\ \A i, j \in 1 .. Len(v) : i >= l /\ j >= l /\ v[i] = v[j] => i = j
      /\ \A i \in 2 .. l : i - 1 \in 1 .. Len(v) /\ v[i - 1] = q[i]
      /\ \A m \in fresh : \E i \in 1 .. Len(v) : v[i] = m
  BY <1>1, RequeuedIs DEF n
<1>4. /\ \A i, j \in 1 .. l : q[i] = q[j] => i = j
      /\ \A i, j \in 1 .. l : i <= j => Len(t[q[i]]) <= Len(t[q[j]]) /\ Len(t[q[j]]) <= Len(t[q[i]]) + 1
  BY DEF QueueSound
<1>5. fresh \intersect DOMAIN t = {} /\ DOMAIN t \union fresh = DOMAIN u
      /\ \A m \in Blockers(n) : m \in DOMAIN t \/ m \in fresh
  BY <1>2
<1>6. \A m : m \in Past(q, t) <=> m \in DOMAIN t /\ \A i \in 1 .. l : q[i] # m
  BY DEF Past
<1>7. \A m : m \in Past(v, u) <=> m \in DOMAIN u /\ \A i \in 1 .. Len(v) : v[i] # m
  BY DEF Past
<1>8. \A m \in Past(q, t) :
         /\ start \notin Blockers(m) /\ Blockers(m) \subseteq DOMAIN t
         /\ \A b \in Blockers(m) : Len(t[b]) <= Len(t[m]) + 1
         /\ \A i \in 1 .. l : Len(t[m]) <= Len(t[q[i]])
  BY DEF PastSound
<1>9. start \notin Blockers(n)
  BY DEF n
<1> HIDE DEF u, v, fresh, l
<1>10. n = q[1]
  BY DEF n
<1>11. ASSUME NEW i \in 1 .. l
       PROVE  /\ Len(t[q[i]]) \in Nat /\ Len(t[n]) \in Nat /\ Len(u[q[i]]) = Len(t[q[i]])
              /\ Len(t[n]) <= Len(t[q[i]]) /\ Len(t[q[i]]) <= Len(t[n]) + 1
  <2>1. 1 <= i
    OBVIOUS
  <2> QED
    BY <2>1, <1>1, <1>2, <1>4, <1>10
<1>12. ASSUME NEW i \in 1 .. Len(v)
       PROVE  /\ Len(u[v[i]]) \in Nat /\ Len(t[n]) \in Nat
              /\ Len(t[n]) <= Len(u[v[i]]) /\ Len(u[v[i]]) <= Len(t[n]) + 1
  <2>1. CASE i < l /\ i + 1 \in 1 .. l /\ v[i] = q[i + 1]
    BY <2>1, <1>11
  <2>2. CASE i >= l /\ v[i] \in fresh
    <3>1. Len(u[v[i]]) = Len(t[n]) + 1 /\ Len(t[n]) \in Nat
      BY <2>2, <1>1, <1>2
    <3> QED
      BY <3>1
  <2> QED
    BY <2>1, <2>2, <1>3
<1>13. QueueSound(v, u)
  <2>1. v \in Seq(DOMAIN u)
    BY <1>3, <1>5
  <2>2. ASSUME NEW i \in 1 .. Len(v), NEW j \in 1 .. Len(v), v[i] = v[j]
        PROVE  i = j
    <3>1. \/ i < l /\ i + 1 \in 1 .. l /\ v[i] = q[i + 1]
          \/ i >= l /\ v[i] \in fresh
      BY <1>3
    <3>2. \/ j < l /\ j + 1 \in 1 .. l /\ v[j] = q[j + 1]
          \/ j >= l /\ v[j] \in fresh
      BY <1>3
    <3>3. CASE i < l /\ i + 1 \in 1 .. l /\ v[i] = q[i + 1]
      <4>1. v[i] \in DOMAIN t /\ v[i] \notin fresh
        BY <3>3, <1>1, <1>5
      <4>2. j + 1 \in 1 .. l /\ v[j] = q[j + 1]
        BY <3>2, <4>1, <2>2
      <4>3. i + 1 = j + 1
        BY <4>2, <3>3, <1>4, <2>2
      <4> QED
        BY <4>3, <1>3
    <3>4. CASE i >= l /\ v[i] \in fresh
      <4>1. v[j] \notin DOMAIN t
        BY <3>4, <1>5, <2>2
      <4>2. j >= l
        BY <4>1, <3>2, <1>1
      <4> QED
        BY <4>2, <3>4, <1>3, <2>2
    <3> QED
      BY <3>1, <3>3, <3>4
  <2>3. ASSUME NEW i \in 1 .. Len(v), NEW j \in 1 .. Len(v), i <= j
        PROVE  Len(u[v[i]]) <= Len(u[v[j]]) /\ Len(u[v[j]]) <= Len(u[v[i]]) + 1
    <3>1. Len(u[v[j]]) <= Len(u[v[i]]) + 1
      BY <1>12
    <3>2. CASE j < l /\ j + 1 \in 1 .. l /\ v[j] = q[j + 1]
      <4>1. i < l
        BY <3>2, <2>3, <1>1, <1>3
      <4>2. i + 1 \in 1 .. l /\ v[i] = q[i + 1]
        BY <4>1, <1>1, <1>3
      <4>3. i + 1 <= j + 1
        BY <2>3
      <4>4. Len(t[q[i + 1]]) <= Len(t[q[j + 1]])
        BY <4>2, <4>3, <3>2, <1>4
      <4> QED
        BY <3>1, <3>2, <4>2, <4>4, <1>11
    <3>3. CASE j >= l /\ v[j] \in fresh
      BY <3>1, <3>3, <1>2, <1>12
    <3> QED
      BY <3>2, <3>3, <1>3
  <2> QED
    BY <2>1, <2>2, <2>3 DEF QueueSound
<1>14. ASSUME NEW m
       PROVE  m \in Past(v, u) <=> m \in Past(q, t) \/ m = n
  <2>1. CASE m \notin DOMAIN u
    BY <2>1, <1>1, <1>2, <1>6, <1>7
  <2>2. CASE m \in fresh
    <3>1. m \notin DOMAIN t /\ m \in DOMAIN u /\ m # n
      BY <2>2, <1>1, <1>5
    <3>2. \E i \in 1 .. Len(v) : v[i] = m
      BY <2>2, <1>3
    <3> QED
      BY <3>1, <3>2, <1>6, <1>7
  <2>3. CASE m \in DOMAIN t
    <3>1. (\E i \in 1 .. Len(v) : v[i] = m) <=> (\E i \in 2 .. l : q[i] = m)
      <4>1. ASSUME NEW i \in 1 .. Len(v), v[i] = m
            PROVE  \E j \in 2 .. l : q[j] = m
        <5>1. i + 1 \in 1 .. l /\ v[i] = q[i + 1]
          BY <4>1, <2>3, <1>3, <1>5
        <5>2. i + 1 \in 2 .. l
          BY <5>1, <1>3
        <5> QED
          BY <5>1, <5>2, <4>1
      <4>2. ASSUME NEW i \in 2 .. l, q[i] = m
            PROVE  \E j \in 1 .. Len(v) : v[j] = m
        BY <4>2, <1>3
      <4> QED
        BY <4>1, <4>2
    <3>2. \A i \in 2 .. l : i \in 1 .. l /\ i # 1
      BY <1>1
    <3>3. \A i \in 1 .. l : i = 1 \/ i \in 2 .. l
      BY <1>1
    <3>4. m \in DOMAIN u
      BY <2>3, <1>5
    <3> QED
      BY <3>1, <3>2, <3>3, <3>4, <2>3, <1>1, <1>4, <1>6, <1>7, <1>10
  <2> QED
    BY <2>1, <2>2, <2>3, <1>5
<1>15. n \notin Past(q, t)
  BY <1>1, <1>6, <1>10
<1>16. ASSUME NEW m \in Past(v, u)
       PROVE  /\ start \notin Blockers(m) /\ Blockers(m) \subseteq DOMAIN u
              /\ \A b \in Blockers(m) : Len(u[b]) <= Len(u[m]) + 1
              /\ \A i \in 1 .. Len(v) : Len(u[m]) <= Len(u[v[i]])
  <2>1. CASE m \in Past(q, t)
    <3>1. m \in DOMAIN t /\ Len(u[m]) = Len(t[m]) /\ Len(t[m]) \in Nat
      BY <2>1, <1>2, <1>6
    <3>2. Len(t[m]) <= Len(t[n])
      BY <2>1, <1>1, <1>8, <1>10
    <3>3. \A b \in Blockers(m) : b \in DOMAIN t /\ b \in DOMAIN u /\ Len(u[b]) = Len(t[b])
      BY <2>1, <1>2, <1>5, <1>8
    <3>4. \A i \in 1 .. Len(v) : Len(u[m]) <= Len(u[v[i]])
      BY <3>1, <3>2, <1>12
    <3> QED
      BY <2>1, <3>1, <3>3, <3>4, <1>8
  <2>2. CASE m = n
    <3>1. m \in DOMAIN t /\ Len(u[m]) = Len(t[n]) /\ Len(t[n]) \in Nat
      BY <2>2, <1>1, <1>2
    <3>2. Blockers(m) \subseteq DOMAIN u
      BY <2>2, <1>2
    <3>3. ASSUME NEW b \in Blockers(n)
          PROVE  Len(u[b]) <= Len(t[n]) + 1
      <4>1. CASE b \in fresh
        BY <4>1, <3>1, <1>2
      <4>2. CASE b \in Past(q, t)
        <5>1. Len(t[b]) <= Len(t[n])
          BY <4>2, <1>1, <1>8, <1>10
        <5>2. Len(u[b]) = Len(t[b]) /\ Len(t[b]) \in Nat
          BY <4>2, <1>2, <1>6
        <5> QED
          BY <5>1, <5>2, <3>1
      <4>3. CASE \E i \in 1 .. l : q[i] = b
        BY <4>3, <1>11
      <4> QED
        BY <4>1, <4>2, <4>3, <1>5, <1>6
    <3> QED
      BY <2>2, <3>1, <3>2, <3>3, <1>9, <1>12
  <2> QED
    BY <2>1, <2>2, <1>14
<1>17. PastSound(v, u, start)
  BY <1>16 DEF PastSound
<1>18. Past(v, u) = Past(q, t) \union {n}
  BY <1>14
<1> QED
  BY <1>2, <1>13, <1>15, <1>17, <1>18 DEF n, u, v

-----------------------------------------------------------------------------
\* After k turns the search is over, or k nodes have left its queue.
SearchInv(s, k, start) ==
    /\ s = [queue |-> s.queue, trail |-> s.trail, found |-> s.found]
    /\ WaysSound(s.trail, start) /\ QueueSound(s.queue, s.trail) /\ PastSound(s.queue, s.trail, start)
    /\ s.found # <<>> => /\ s.queue # <<>> /\ s.found = s.trail[s.queue[1]]
                         /\ start \in Blockers(s.queue[1])
    /\ s.queue = <<>> \/ s.found # <<>> \/ Cardinality(Past(s.queue, s.trail)) = k

\* The search begins with its start reached and nothing past.
LEMMA BeginningIsSound ==
    ASSUME NEW start \in Names
    PROVE  SearchInv(Beginning(start), 0, start)
<1> DEFINE t == [m \in {start} |-> <<start>>]
           q == <<start>>
<1>1. DOMAIN t = {start} /\ t[start] = <<start>> /\ q \in Seq({start}) /\ Len(q) = 1 /\ q[1] = start
  OBVIOUS
<1>2. Beginning(start) = [queue |-> q, trail |-> t, found |-> <<>>]
  BY DEF Beginning
<1> HIDE DEF t
<1>3. WaysSound(t, start)
  <2>1. t[start] = <<start>> /\ <<start>> \in Seq(DOMAIN t) /\ Len(<<start>>) = 1 /\ <<start>>[1] = start
    BY <1>1
  <2>2. \A i, j \in 1 .. 1 : i = j
    OBVIOUS
  <2>3. \A i \in 1 .. 1 - 1 : FALSE
    OBVIOUS
  <2>4. ASSUME NEW m \in DOMAIN t
        PROVE  /\ t[m] \in Seq(DOMAIN t) /\ Len(t[m]) >= 1
               /\ t[m][1] = start /\ t[m][Len(t[m])] = m
               /\ \A i \in 1 .. Len(t[m]) - 1 : <<t[m][i], t[m][i + 1]>> \in edges
               /\ \A i, j \in 1 .. Len(t[m]) : t[m][i] = t[m][j] => i = j
    <3>1. m = start /\ t[m] = <<start>> /\ Len(t[m]) = 1
      BY <1>1, <2>1
    <3> QED
      BY <3>1, <2>1, <2>2, <2>3
  <2> QED
    BY <1>1, <2>1, <2>4 DEF WaysSound
<1>4. QueueSound(q, t)
  BY <1>1 DEF QueueSound
<1>5. Past(q, t) = {}
  BY <1>1 DEF Past
<1>6. PastSound(q, t, start)
  BY <1>5 DEF PastSound
<1>7. Cardinality(Past(q, t)) = 0
  BY <1>5, FS_EmptySet
<1> HIDE DEF q
<1> QED
  BY <1>2, <1>3, <1>4, <1>6, <1>7 DEF SearchInv

\* No more nodes leave the queue than there are names.
LEMMA PastIsFinite ==
    ASSUME NEW start, NEW q, NEW t, WaysSound(t, start)
    PROVE  /\ Past(q, t) \subseteq Names /\ IsFiniteSet(Past(q, t))
           /\ Cardinality(Past(q, t)) \in Nat /\ Cardinality(Past(q, t)) <= Cardinality(Names)
<1>1. Past(q, t) \in SUBSET Names
  BY DEF Past, WaysSound
<1>2. IsFiniteSet(Past(q, t)) /\ Cardinality(Past(q, t)) <= Cardinality(Names)
  BY <1>1, NamesCounted, FS_Subset
<1> QED
  BY <1>1, <1>2, FS_CardinalityType

\* What a turn makes of a search.
LEMMA TurnIs ==
    ASSUME NEW start, NEW q, NEW t, NEW f, q \in Seq(DOMAIN t)
    PROVE  LET s == [queue |-> q, trail |-> t, found |-> f]
           IN  Turn(s, start) =
                 IF q = <<>> \/ f # <<>> THEN s
                 ELSE IF start \in Blockers(q[1]) THEN [queue |-> q, trail |-> t, found |-> t[q[1]]]
                 ELSE [queue |-> Requeued(q, t), trail |-> Spread(t, q[1]), found |-> f]
<1> DEFINE s == [queue |-> q, trail |-> t, found |-> f]
<1>1. s.queue = q /\ s.trail = t /\ s.found = f
  OBVIOUS
<1>2. CASE q = <<>> \/ f # <<>>
  BY <1>1, <1>2 DEF Turn
<1>3. CASE ~(q = <<>> \/ f # <<>>)
  <2>1. Head(q) = q[1]
    BY <1>3
  <2>2. CASE start \in Blockers(q[1])
    <3>1. Turn(s, start) = [s EXCEPT !.found = t[q[1]]]
      BY <1>1, <1>3, <2>1, <2>2 DEF Turn
    <3> QED
      BY <3>1, <1>3, <2>2
  <2>3. CASE start \notin Blockers(q[1])
    <3>1. Turn(s, start) = [s EXCEPT !.queue = Requeued(q, t), !.trail = Spread(t, q[1])]
      BY <1>1, <1>3, <2>1, <2>3 DEF Turn, Requeued, Spread
    <3> QED
      BY <3>1, <1>3, <2>3
  <2> QED
    BY <2>2, <2>3
<1> QED
  BY <1>2, <1>3

\* A turn keeps the search sound: one more node leaves the queue, or the search is over.
LEMMA TurnIsSound ==
    ASSUME NEW start, NEW s, NEW k \in Nat, SearchInv(s, k, start)
    PROVE  SearchInv(Turn(s, start), k + 1, start)
<1> DEFINE q == s.queue
           t == s.trail
           f == s.found
<1>1. /\ s = [queue |-> q, trail |-> t, found |-> f]
      /\ WaysSound(t, start) /\ QueueSound(q, t) /\ PastSound(q, t, start)
      /\ f # <<>> => q # <<>> /\ f = t[q[1]] /\ start \in Blockers(q[1])
      /\ q = <<>> \/ f # <<>> \/ Cardinality(Past(q, t)) = k
  BY DEF SearchInv
<1>2. q \in Seq(DOMAIN t)
  BY <1>1 DEF QueueSound
<1> HIDE DEF q, t, f
<1>3. Turn(s, start) =
         IF q = <<>> \/ f # <<>> THEN s
         ELSE IF start \in Blockers(q[1]) THEN [queue |-> q, trail |-> t, found |-> t[q[1]]]
         ELSE [queue |-> Requeued(q, t), trail |-> Spread(t, q[1]), found |-> f]
  BY <1>1, <1>2, TurnIs
<1>4. CASE q = <<>> \/ f # <<>>
  <2>1. Turn(s, start) = s /\ (s.queue = <<>> \/ s.found # <<>>)
    BY <1>3, <1>4 DEF q, f
  <2> QED
    BY <2>1 DEF SearchInv
<1>5. CASE q # <<>> /\ f = <<>> /\ start \in Blockers(q[1])
  <2>1. Turn(s, start) = [queue |-> q, trail |-> t, found |-> t[q[1]]]
    BY <1>3, <1>5
  <2>2. q[1] \in DOMAIN t
    BY <1>2, <1>5
  <2>3. Len(t[q[1]]) >= 1
    BY <2>2, <1>1 DEF WaysSound
  <2>4. t[q[1]] # <<>>
    BY <2>3
  <2> QED
    BY <2>1, <2>4, <1>1, <1>5 DEF SearchInv
<1>6. CASE q # <<>> /\ f = <<>> /\ start \notin Blockers(q[1])
  <2> DEFINE u == Spread(t, q[1])
             v == Requeued(q, t)
  <2>1. Turn(s, start) = [queue |-> v, trail |-> u, found |-> <<>>]
    BY <1>3, <1>6
  <2>2. /\ WaysSound(u, start) /\ QueueSound(v, u) /\ PastSound(v, u, start)
        /\ Past(v, u) = Past(q, t) \union {q[1]} /\ q[1] \notin Past(q, t)
    BY <1>1, <1>6, TurnKeepsQueue
  <2>3. Cardinality(Past(q, t)) = k /\ IsFiniteSet(Past(q, t))
    BY <1>1, <1>6, PastIsFinite
  <2>4. Cardinality(Past(v, u)) = k + 1
    BY <2>2, <2>3, FS_AddElement
  <2> HIDE DEF u, v
  <2> DEFINE r == Turn(s, start)
  <2>5. /\ r.queue = v /\ r.trail = u /\ r.found = <<>>
        /\ r = [queue |-> r.queue, trail |-> r.trail, found |-> r.found]
    BY <2>1
  <2> HIDE DEF r
  <2>6. SearchInv(r, k + 1, start)
    BY <2>2, <2>4, <2>5 DEF SearchInv
  <2> QED
    BY <2>6 DEF r
<1> QED
  BY <1>4, <1>5, <1>6

\* So it is after as many turns as there are names.
LEMMA SearchIsSound ==
    ASSUME NEW start \in Names
    PROVE  SearchInv(Search(start)[Cardinality(Names)], Cardinality(Names), start)
<1> DEFINE N == Cardinality(Names)
           Bad == {k \in 0 .. N : ~SearchInv(Search(start)[k], k, start)}
<1>1. N \in Nat
  BY NamesCounted
<1> HIDE DEF N
<1>2. Search(start)[0] = Beginning(start) /\ \A k \in 1 .. N : Search(start)[k] = Turn(Search(start)[k - 1], start)
  BY SearchTurns DEF N
<1>3. SUFFICES ASSUME Bad # {} PROVE FALSE
  BY <1>1 DEF N
<1>4. PICK k \in Bad : \A y \in Bad : k <= y
  <2>1. Bad \in SUBSET Nat
    BY <1>1
  <2> HIDE DEF Bad
  <2> QED
    BY <1>3, <2>1, LeastExists
<1>5. k \in 0 .. N /\ ~SearchInv(Search(start)[k], k, start)
  BY <1>4
<1>6. k # 0
  BY <1>2, <1>5, BeginningIsSound
<1>7. k \in 1 .. N /\ k - 1 \in 0 .. N /\ k - 1 \in Nat /\ ~(k <= k - 1) /\ k - 1 + 1 = k
  BY <1>1, <1>5, <1>6
<1>8. SearchInv(Search(start)[k - 1], k - 1, start)
  BY <1>4, <1>7
<1> HIDE DEF Bad
<1>9. SearchInv(Turn(Search(start)[k - 1], start), k - 1 + 1, start)
  BY <1>7, <1>8, TurnIsSound
<1> QED
  BY <1>2, <1>5, <1>7, <1>9

-----------------------------------------------------------------------------
\* The edges lead from one node to the next and from the last to the first.
Round(w, k) == w \in [1 .. k -> Names] /\ \A i \in 1 .. k : <<w[i], w[(i % k) + 1]>> \in edges

\* Going round from the start stays in what has left the queue, as long as that is nearer
\* than what waits: so it never comes back.
LEMMA NoRound ==
    ASSUME NEW start, NEW q, NEW t, NEW k \in Nat, NEW w, k >= 1,
           WaysSound(t, start), QueueSound(q, t), PastSound(q, t, start),
           \A i \in 1 .. Len(q) : k < Len(t[q[i]]),
           Round(w, k), w[1] = start
    PROVE  FALSE
<1> DEFINE Near(i) == w[i] \in Past(q, t) /\ Len(t[w[i]]) <= i
           Bad == {i \in 1 .. k : ~Near(i)}
<1>1. /\ start \in DOMAIN t /\ Len(t[start]) = 1
      /\ \A m \in DOMAIN t : Len(t[m]) \in Nat
  BY DEF WaysSound
<1>2. ASSUME NEW m \in DOMAIN t, Len(t[m]) <= k
      PROVE  m \in Past(q, t)
  <2>1. \A i \in 1 .. Len(q) : q[i] \in DOMAIN t
    BY DEF QueueSound
  <2>2. \A i \in 1 .. Len(q) : q[i] # m
    BY <1>1, <1>2, <2>1
  <2> QED
    BY <2>2 DEF Past
<1>3. Near(1)
  <2>1. start \in DOMAIN t /\ Len(t[start]) <= k /\ Len(t[start]) <= 1
    BY <1>1
  <2>2. start \in Past(q, t)
    BY <2>1, <1>2
  <2> QED
    BY <2>1, <2>2
<1>4. ASSUME NEW i \in 1 .. k, i # k, Near(i)
      PROVE  Near(i + 1)
  <2>1. i + 1 \in 1 .. k /\ i % k = i /\ (i % k) + 1 = i + 1
    BY <1>4
  <2>2. <<w[i], w[i + 1]>> \in edges /\ w[i + 1] \in Names
    BY <2>1 DEF Round
  <2>3. w[i + 1] \in Blockers(w[i])
    BY <2>2 DEF Blockers
  <2>4. w[i + 1] \in DOMAIN t /\ Len(t[w[i + 1]]) <= Len(t[w[i]]) + 1
    BY <2>3, <1>4 DEF PastSound
  <2>5. Len(t[w[i]]) \in Nat
    BY <1>1, <1>4 DEF Past
  <2>6. Len(t[w[i + 1]]) <= i + 1
    BY <2>4, <2>5, <1>1, <1>4
  <2>7. Len(t[w[i + 1]]) <= k
    BY <2>1, <2>4, <2>6, <1>1
  <2> QED
    BY <2>4, <2>6, <2>7, <1>2
<1>5. Bad = {}
  <2> SUFFICES ASSUME Bad # {} PROVE FALSE
    OBVIOUS
  <2>1. PICK i \in Bad : \A y \in Bad : i <= y
    <3>1. Bad \in SUBSET Nat
      OBVIOUS
    <3> HIDE DEF Bad
    <3> QED
      BY <3>1, LeastExists
  <2>2. i \in 1 .. k /\ ~Near(i) /\ i # 1
    BY <2>1, <1>3
  <2>3. i - 1 \in 1 .. k /\ i - 1 # k /\ ~(i <= i - 1) /\ i - 1 + 1 = i
    BY <2>2
  <2>4. Near(i - 1)
    BY <2>1, <2>3
  <2> HIDE DEF Near, Bad
  <2>5. Near(i - 1 + 1)
    BY <2>3, <2>4, <1>4
  <2> QED
    BY <2>2, <2>3, <2>5
<1>6. Near(k) /\ k \in 1 .. k
  BY <1>5
<1>7. k % k = 0 /\ <<w[k], w[1]>> \in edges /\ w[1] \in Names
  <2>1. k % k = 0 /\ (k % k) + 1 = 1 /\ 1 \in 1 .. k
    OBVIOUS
  <2> QED
    BY <2>1, <1>6 DEF Round
<1>8. start \in Blockers(w[k])
  BY <1>7 DEF Blockers
<1> QED
  BY <1>6, <1>8 DEF PastSound

\* The way to a node reached.
LEMMA WayIs ==
    ASSUME NEW start, NEW t, NEW m \in DOMAIN t, WaysSound(t, start), NEW p, p = t[m]
    PROVE  /\ p \in Seq(DOMAIN t) /\ Len(p) \in Nat /\ Len(p) >= 1 /\ p[1] = start /\ p[Len(p)] = m
           /\ \A i \in 1 .. Len(p) - 1 : <<p[i], p[i + 1]>> \in edges
           /\ \A i, j \in 1 .. Len(p) : p[i] = p[j] => i = j
<1>1. /\ p \in Seq(DOMAIN t) /\ Len(p) >= 1 /\ p[1] = start /\ p[Len(p)] = m
      /\ \A i \in 1 .. Len(p) - 1 : <<p[i], p[i + 1]>> \in edges
      /\ \A i, j \in 1 .. Len(p) : p[i] = p[j] => i = j
  BY DEF WaysSound
<1>2. Len(p) \in Nat
  BY <1>1
<1> QED
  BY <1>1, <1>2

\* Round k places, the one after the last is the first.
LEMMA NextRound ==
    ASSUME NEW k \in Nat, NEW i \in 1 .. k
    PROVE  (i % k) + 1 = IF i = k THEN 1 ELSE i + 1
<1>1. CASE i = k
  <2>1. i % k = 0
    BY <1>1
  <2> QED
    BY <2>1, <1>1
<1>2. CASE i # k
  <2>1. i % k = i
    BY <1>2
  <2> QED
    BY <2>1, <1>2
<1> QED
  BY <1>1, <1>2

\* A search finds a shortest way round from its start, and nothing if there is none.
FromIsShortest(c, start) ==
    /\ c \in Seq(Names)
    /\ c # <<>> => IsCycle(c) /\ c[1] = start
    /\ \A k \in Nat : \A w : k >= 1 /\ Round(w, k) /\ w[1] = start => c # <<>> /\ Len(c) <= k

\* That search is over: it has come back, or has reached everything it can.
LEMMA CycleFromIsShortest ==
    ASSUME NEW start \in Names
    PROVE  FromIsShortest(CycleFrom(start), start)
<1> DEFINE N == Cardinality(Names)
           s == Search(start)[N]
           q == s.queue
           t == s.trail
           f == s.found
<1>1. N \in Nat
  BY NamesCounted
<1>2. SearchInv(s, N, start)
  BY SearchIsSound
<1>3. CycleFrom(start) = f
  BY DEF CycleFrom
<1> HIDE DEF s, N
<1>4. /\ WaysSound(t, start) /\ QueueSound(q, t) /\ PastSound(q, t, start)
      /\ f # <<>> => q # <<>> /\ f = t[q[1]] /\ start \in Blockers(q[1])
      /\ q = <<>> \/ f # <<>> \/ Cardinality(Past(q, t)) = N
  BY <1>2 DEF SearchInv
<1> HIDE DEF q, t, f
<1>5. q \in Seq(DOMAIN t)
  BY <1>4 DEF QueueSound
<1>6. q = <<>> \/ f # <<>>
  <2> SUFFICES ASSUME q # <<>>, f = <<>> PROVE FALSE
    OBVIOUS
  <2>1. Cardinality(Past(q, t)) = N /\ Past(q, t) \in SUBSET Names
    BY <1>4, PastIsFinite
  <2>2. Past(q, t) = Names
    BY <2>1, NamesCounted, FS_Subset DEF N
  <2>3. 1 \in 1 .. Len(q) /\ q[1] \in DOMAIN t
    BY <1>5
  <2>4. q[1] \in Names /\ q[1] \notin Past(q, t)
    BY <2>3, <1>4 DEF WaysSound, Past
  <2> QED
    BY <2>2, <2>4
<1>7. CASE f = <<>>
  <2>1. q = <<>>
    BY <1>6, <1>7
  <2>2. \A k \in Nat : \A i \in 1 .. Len(q) : k < Len(t[q[i]])
    BY <2>1
  <2>3. \A k \in Nat : \A w : ~(k >= 1 /\ Round(w, k) /\ w[1] = start)
    BY <2>2, <1>4, NoRound
  <2>4. <<>> \in Seq(Names)
    OBVIOUS
  <2> QED
    BY <2>3, <2>4, <1>3, <1>7 DEF FromIsShortest
<1>8. CASE f # <<>>
  <2> DEFINE l == Len(f)
             n == q[1]
  <2>1. q # <<>> /\ f = t[n] /\ start \in Blockers(n) /\ n \in DOMAIN t /\ 1 \in 1 .. Len(q)
    BY <1>4, <1>5, <1>8
  <2>2. /\ f \in Seq(DOMAIN t) /\ l \in Nat /\ l >= 1 /\ f[1] = start /\ f[l] = n
        /\ \A i \in 1 .. l - 1 : <<f[i], f[i + 1]>> \in edges
        /\ \A i, j \in 1 .. l : f[i] = f[j] => i = j
    <3>1. t[n] = f /\ n \in DOMAIN t
      BY <2>1
    <3>2. WaysSound(t, start)
      BY <1>4
    <3> HIDE DEF n
    <3> QED
      BY <3>1, <3>2, WayIs
  <2>3. <<n, start>> \in edges
    BY <2>1 DEF Blockers
  <2>4. f \in Seq(Names) /\ DOMAIN f = 1 .. l
    <3>1. DOMAIN t \subseteq Names
      BY <1>4 DEF WaysSound
    <3> QED
      BY <2>2, <3>1
  <2> HIDE DEF l, n
  <2>5. ASSUME NEW i \in 1 .. l
        PROVE  <<f[i], f[(i % l) + 1]>> \in edges
    <3>1. (i % l) + 1 = IF i = l THEN 1 ELSE i + 1
      BY <2>2, NextRound
    <3>2. CASE i = l
      BY <3>1, <3>2, <2>2, <2>3
    <3>3. CASE i # l
      <4>1. i \in 1 .. l - 1
        BY <3>3, <2>2
      <4> QED
        BY <4>1, <3>1, <3>3, <2>2
    <3> QED
      BY <3>2, <3>3
  <2>6. IsCycle(f)
    BY <1>8, <2>2, <2>4, <2>5 DEF IsCycle, l
  <2>7. ASSUME NEW k \in Nat, NEW w, k >= 1, Round(w, k), w[1] = start, ~(l <= k)
        PROVE  FALSE
    <3>1. ASSUME NEW i \in 1 .. Len(q)
          PROVE  k < Len(t[q[i]])
      <4>1. 1 <= i /\ q[i] \in DOMAIN t
        BY <1>5
      <4>2. Len(t[q[1]]) <= Len(t[q[i]])
        BY <4>1, <2>1, <1>4 DEF QueueSound
      <4>3. Len(t[q[1]]) = l
        BY <2>1 DEF l, n
      <4>4. Len(t[q[i]]) \in Nat
        BY <4>1, <1>4, WayIs
      <4> QED
        BY <4>2, <4>3, <4>4, <2>2, <2>7
    <3> QED
      BY <3>1, <2>7, <1>4, NoRound
  <2>8. \A k \in Nat : \A w : k >= 1 /\ Round(w, k) /\ w[1] = start => l <= k
    BY <2>7
  <2>9. \A k \in Nat : \A w : k >= 1 /\ Round(w, k) /\ w[1] = start => f # <<>> /\ Len(f) <= k
    BY <2>8, <1>8 DEF l
  <2> QED
    BY <1>3, <1>8, <2>2, <2>4, <2>6, <2>9 DEF FromIsShortest
<1> QED
  BY <1>7, <1>8

\* Of sequences of numbers there is one no longer than the others, and of the shortest
\* one with the least first.
LEMMA ShortestExists ==
    ASSUME NEW F, F # {}, \A p \in F : Len(p) \in Nat /\ p[1] \in Nat
    PROVE  \E p \in F : \A r \in F : Shorter(p, r)
<1>1. \A p \in F : Len(p) \in Nat /\ p[1] \in Nat
  OBVIOUS
<1> DEFINE Sizes == {Len(p) : p \in F}
<1>2. Sizes \in SUBSET Nat /\ Sizes # {}
  BY <1>1
<1>3. PICK l \in Sizes : \A y \in Sizes : l <= y
  <2> HIDE DEF Sizes
  <2> QED
    BY <1>2, LeastExists
<1> DEFINE Heads == {p[1] : p \in {r \in F : Len(r) = l}}
<1>4. Heads \in SUBSET Nat /\ Heads # {}
  BY <1>1, <1>3
<1>5. PICK a \in Heads : \A y \in Heads : a <= y
  <2> HIDE DEF Heads
  <2> QED
    BY <1>4, LeastExists
<1>6. PICK p \in F : Len(p) = l /\ p[1] = a
  BY <1>5
<1>7. ASSUME NEW r \in F
      PROVE  Shorter(p, r)
  <2>1. l <= Len(r) /\ Len(r) \in Nat /\ l \in Nat
    BY <1>1, <1>2, <1>3
  <2>2. CASE Len(r) = l
    <3>1. a <= r[1]
      BY <1>5, <2>2
    <3> QED
      BY <3>1, <2>2, <1>6 DEF Shorter
  <2>3. CASE Len(r) # l
    BY <2>1, <2>3, <1>6 DEF Shorter
  <2> QED
    BY <2>2, <2>3
<1> QED
  BY <1>7

DetectorInv ==
    /\ edges \subseteq Names \X Names /\ known \subseteq Names
    /\ \A e \in edges : e[1] \in known

\* A ring is a round of some nodes.
LEMMA RingIsRound ==
    ASSUME NEW k
    PROVE  Ring(k) <=> \E w : Round(w, k)
  BY DEF Ring, Round

\* The cycle reported: there is one exactly when the graph has one, and none is shorter.
LEMMA MinimalIsExact ==
    ASSUME DetectorInv
    PROVE  IF \E k \in 1 .. Cardinality(Names) : Ring(k)
           THEN /\ MinimalCycle # <<>> /\ IsCycle(MinimalCycle)
                /\ \A k \in 1 .. Len(MinimalCycle) - 1 : ~Ring(k)
           ELSE MinimalCycle = <<>>
<1> DEFINE found == {CycleFrom(n) : n \in known} \ {<<>>}
           c == MinimalCycle
           N == Cardinality(Names)
<1>1. N \in Nat /\ Names \subseteq Nat /\ IsFiniteSet(Names)
  BY NamesCounted
<1>2. \A n \in known : FromIsShortest(CycleFrom(n), n)
  BY CycleFromIsShortest DEF DetectorInv
<1>3. \A p \in found : p \in Seq(Names) /\ p # <<>> /\ IsCycle(p)
  BY <1>2 DEF FromIsShortest
<1>4. c = IF found = {} THEN <<>> ELSE CHOOSE p \in found : \A r \in found : Shorter(p, r)
  BY DEF MinimalCycle
<1>5. \A n \in known : CycleFrom(n) # <<>> => CycleFrom(n) \in found
  OBVIOUS
<1> HIDE DEF found, c, N
<1>6. found # {} => c \in found /\ \A r \in found : Shorter(c, r)
  <2> SUFFICES ASSUME found # {} PROVE c \in found /\ \A r \in found : Shorter(c, r)
    OBVIOUS
  <2>1. ASSUME NEW p \in found
        PROVE  Len(p) \in Nat /\ p[1] \in Nat
    <3>1. p \in Seq(Names) /\ p # <<>>
      BY <1>3
    <3>2. Len(p) \in Nat /\ p[1] \in Names
      BY <3>1
    <3> QED
      BY <3>2, <1>1
  <2>2. \E p \in found : \A r \in found : Shorter(p, r)
    BY <2>1, ShortestExists
  <2> QED
    BY <2>2, <1>4
<1>7. ASSUME NEW k \in Nat, k >= 1, Ring(k)
      PROVE  found # {} /\ Len(c) <= k
  <2>1. PICK w : Round(w, k)
    BY <1>7, RingIsRound
  <2>2. <<w[1], w[(1 % k) + 1]>> \in edges
    <3>1. 1 \in 1 .. k
      BY <1>7
    <3> QED
      BY <2>1, <3>1 DEF Round
  <2> DEFINE e == <<w[1], w[(1 % k) + 1]>>
  <2>3. e \in edges /\ e[1] = w[1]
    BY <2>2
  <2> HIDE DEF e
  <2>4. w[1] \in known
    BY <2>3 DEF DetectorInv
  <2>5. CycleFrom(w[1]) # <<>> /\ Len(CycleFrom(w[1])) <= k
    BY <2>1, <2>4, <1>2, <1>7 DEF FromIsShortest
  <2>6. CycleFrom(w[1]) \in found
    BY <2>4, <2>5, <1>5
  <2>7. c \in found /\ Shorter(c, CycleFrom(w[1]))
    BY <2>6, <1>6
  <2>8. Len(c) \in Nat /\ Len(CycleFrom(w[1])) \in Nat
    BY <2>6, <2>7, <1>3
  <2>9. Len(c) <= Len(CycleFrom(w[1]))
    BY <2>7, <2>8 DEF Shorter
  <2> QED
    BY <2>5, <2>6, <2>8, <2>9
<1>8. ASSUME NEW p \in found
      PROVE  Len(p) \in 1 .. N /\ Ring(Len(p))
  <2>1. p \in Seq(Names) /\ p # <<>> /\ IsCycle(p)
    BY <1>3
  <2>2. Len(p) \in Nat /\ Len(p) >= 1 /\ DOMAIN p = 1 .. Len(p) /\ p \in [1 .. Len(p) -> Names]
    BY <2>1
  <2>3. Ring(Len(p))
    BY <2>1, <2>2 DEF Ring, IsCycle
  <2>4. p \in Injection(1 .. Len(p), Names)
    BY <2>1, <2>2 DEF IsCycle, Injection, IsInjective
  <2>5. Cardinality(1 .. Len(p)) <= N
    BY <2>4, <1>1, FS_Injection DEF N
  <2> DEFINE l == Len(p)
  <2>6. l \in Nat
    BY <2>2
  <2> HIDE DEF l
  <2>7. Cardinality(1 .. l) = l
    BY <2>6, FS_Interval
  <2> QED
    BY <2>2, <2>3, <2>5, <2>7, <1>1 DEF l
<1>9. CASE found = {}
  <2>1. c = <<>> /\ \A k \in 1 .. N : ~Ring(k)
    BY <1>1, <1>4, <1>7, <1>9
  <2> QED
    BY <2>1 DEF c, N
<1>10. CASE found # {}
  <2>1. c \in found
    BY <1>6, <1>10
  <2>2. c # <<>> /\ IsCycle(c) /\ Len(c) \in 1 .. N /\ Ring(Len(c))
    BY <2>1, <1>3, <1>8
  <2>3. \A k \in 1 .. Len(c) - 1 : ~Ring(k)
    <3>1. ASSUME NEW k \in 1 .. Len(c) - 1, Ring(k)
          PROVE  FALSE
      <4>1. k \in Nat /\ k >= 1 /\ ~(Len(c) <= k)
        BY <2>2, <1>1
      <4> QED
        BY <4>1, <3>1, <1>7
    <3> QED
      BY <3>1
  <2> QED
    BY <2>2, <2>3 DEF c, N
<1> QED
  BY <1>9, <1>10

\* The edges lead from nodes the table has to nodes it may have.
LEMMA DetectorInvariant == DetectorSpec => []DetectorInv
<1>1. DetectorInit => DetectorInv
  BY DEF DetectorInit, DetectorInv
<1>2. ASSUME DetectorInv, [DetectorNext]_detectorVars
      PROVE  DetectorInv'
  <2>1. ASSUME NEW a \in Names, NEW b \in Names, Node({a, b}), Edge(a, b)
        PROVE  DetectorInv'
    BY <1>2, <2>1 DEF DetectorInv, Node, Edge
  <2>2. Tasks \subseteq Names /\ Resources \subseteq Names /\ Futures \subseteq Names
    BY DEF Names
  <2>3. ASSUME NEW t \in Tasks, NEW u \in Tasks \union Resources, AddWait(t, u)
        PROVE  DetectorInv'
    BY <2>1, <2>2, <2>3 DEF AddWait
  <2>4. ASSUME NEW t \in Tasks, NEW r \in Resources, AddResourceHold(t, r)
        PROVE  DetectorInv'
    <3>1. Node({r, t}) /\ Edge(r, t)
      BY <2>4 DEF AddResourceHold, Node
    <3> QED
      BY <2>1, <2>2, <3>1
  <2>5. ASSUME NEW t \in Tasks, NEW f \in Futures, AddFutureDep(t, f)
        PROVE  DetectorInv'
    BY <2>1, <2>2, <2>5 DEF AddFutureDep
  <2>6. ASSUME NEW t \in Tasks, RecordRetry(t)
        PROVE  DetectorInv'
    BY <1>2, <2>6 DEF RecordRetry, DetectorInv
  <2>7. ASSUME NEW t \in Tasks, ClearWait(t)
        PROVE  DetectorInv'
    BY <1>2, <2>7 DEF ClearWait, DetectorInv
  <2>8. ASSUME NEW f \in Futures, ResolveFuture(f)
        PROVE  DetectorInv'
    BY <1>2, <2>2, <2>8 DEF ResolveFuture, DetectorInv, Node
  <2>9. CASE Detect
    BY <1>2, <2>9 DEF Detect, DetectorInv
  <2>10. CASE UNCHANGED detectorVars
    BY <1>2, <2>10 DEF detectorVars, DetectorInv
  <2> QED
    BY <1>2, <2>3, <2>4, <2>5, <2>6, <2>7, <2>8, <2>9, <2>10 DEF DetectorNext
<1> QED
  BY <1>1, <1>2, PTL DEF DetectorSpec

\* What a detection reports is the shortest cycle of the merged graph, of distinct nodes,
\* and a deadlock exactly when there is one: DeadlockDetector.detect and _minimal_cycle.
THEOREM DeadlocksAreFound == DetectorSpec => DetectIsExact
<1>1. ASSUME DetectorInv, calls' # calls, Detect
      PROVE  IF \E k \in 1 .. Cardinality(Names) : Ring(k)
             THEN /\ report'.token = "deadlock" /\ ~report'.ok /\ IsCycle(report'.cycle)
                  /\ \A k \in 1 .. Len(report'.cycle) - 1 : ~Ring(k)
             ELSE report'.cycle = <<>> /\ report'.token # "deadlock"
  <2>1. /\ report'.cycle = MinimalCycle
        /\ MinimalCycle # <<>> => report'.token = "deadlock" /\ ~report'.ok
        /\ MinimalCycle = <<>> => report'.token # "deadlock"
    BY <1>1 DEF Detect
  <2> QED
    BY <2>1, <1>1, MinimalIsExact
<1>2. DetectorInv => [calls' # calls /\ Detect =>
                        IF \E k \in 1 .. Cardinality(Names) : Ring(k)
                        THEN /\ report'.token = "deadlock" /\ ~report'.ok /\ IsCycle(report'.cycle)
                             /\ \A k \in 1 .. Len(report'.cycle) - 1 : ~Ring(k)
                        ELSE report'.cycle = <<>> /\ report'.token # "deadlock"]_detectorVars
  BY <1>1
<1> QED
  BY <1>2, DetectorInvariant, PTL DEF DetectIsExact
=============================================================================
