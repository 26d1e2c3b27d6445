----------------------------- MODULE Federation -----------------------------
(* The federation of fabric.py: domains hold groups, groups hold workers, and *)
(* every object also carries the names of what it is in. Objects are put      *)
(* together in any order, from the bottom or from the top, and the names are  *)
(* handed down when they are. A name is the number of its object; limits,     *)
(* rules and provenance are constants of the objects and left out.            *)
EXTENDS Integers, Sequences, FiniteSets

CONSTANTS NumWorkers,      \* objects that exist: a flat federation uses the first ones
          Shapes,          \* the flat federations to begin with: <<n_workers, groups, domains>>,
                           \* at most two domains with at most two groups each
          MaxChanges       \* bound: changes after the first federation
ASSUME FederationAssumption ==
    NumWorkers \in Nat /\ MaxChanges \in Nat
    /\ \A s \in Shapes : s[1] \in 1 .. NumWorkers /\ s[2] \in 1 .. 2 /\ s[3] \in 1 .. 2

Workers == 1 .. NumWorkers
Domains == 0 .. 1
Groups == Domains \X (0 .. 1)          \* in a flat federation, of the domain it names

VARIABLES groupMembers, \* WorkerGroup.members
          groups,      \* ExecutionDomain.groups
          domains,     \* Federation.domains
          workerAt,    \* the domain and the group a worker carries
          groupAt,     \* the domain a group carries
          workerFed, groupFed,   \* the federation they carry; a domain carries it once added
          changes
federationVars == <<groupMembers, groups, domains, workerAt, groupAt, workerFed, groupFed, changes>>

\* The names an object has before it is put anywhere, and the federation's own.
DefaultGroup == <<0, 0>>
DefaultDomain == 0
DefaultFed == "F0"
FederationId == "F"

Lowest(S) == CHOOSE x \in S : \A y \in S : x <= y
Ceiling(a, b) == (a + b - 1) \div b

\* build_flat_federation: the ids that go to a domain, and to a group of it.
DomainShare(n, doms, d) ==
    LET each == Ceiling(n, doms) IN {i \in 1 .. n : (i - 1) \div each = d}
PerGroup(n, k) == Ceiling(n, k)
GroupShare(n, grps, doms, d, g) ==
    LET here == DomainShare(n, doms, d)
        each == PerGroup(Cardinality(here), grps)
    IN  IF here = {} THEN {}
        ELSE {i \in here : i - Lowest(here) >= g * each /\ i - Lowest(here) < (g + 1) * each}

\* A group exists only in a domain that received workers.
Flat(n, grps, doms) ==
    /\ domains = {d \in Domains : d < doms}
    /\ groups = [d \in Domains |-> {g \in Groups : g[1] = d /\ g[2] < grps /\ d < doms
                                                   /\ DomainShare(n, doms, d) # {}}]
    /\ groupMembers = [g \in Groups |-> IF g \in groups[g[1]] THEN GroupShare(n, grps, doms, g[1], g[2]) ELSE {}]
    /\ workerAt = [w \in Workers |->
                     IF \E g \in Groups : w \in groupMembers[g]
                     THEN LET g == CHOOSE g \in Groups : w \in groupMembers[g] IN <<g[1], g>>
                     ELSE <<DefaultDomain, DefaultGroup>>]
    /\ groupAt = [g \in Groups |-> IF g \in groups[g[1]] THEN g[1] ELSE DefaultDomain]
    /\ groupFed = [g \in Groups |-> IF g \in groups[g[1]] THEN FederationId ELSE DefaultFed]
    /\ workerFed = [w \in Workers |-> IF \E g \in Groups : w \in groupMembers[g]
                                      THEN FederationId ELSE DefaultFed]

FederationInit == changes = 0 /\ \E s \in Shapes : Flat(s[1], s[2], s[3])

WorkersIn(d) == UNION {groupMembers[g] : g \in groups[d]}
WorkerIds == UNION {WorkersIn(d) : d \in domains}                 \* worker_ids
DomainFed(d) == IF d \in domains THEN FederationId ELSE DefaultFed
Changed == changes < MaxChanges /\ changes' = changes + 1
-----------------------------------------------------------------------------
(* The mutators. An object is put into one place; adding it twice raises.     *)

AddWorker(g, w) ==                                       \* WorkerGroup.add
    /\ Changed /\ \A h \in Groups : w \notin groupMembers[h]
    /\ groupMembers' = [groupMembers EXCEPT ![g] = @ \union {w}]
    /\ workerAt' = [workerAt EXCEPT ![w] = <<groupAt[g], g>>]
    /\ workerFed' = [workerFed EXCEPT ![w] = groupFed[g]]
    /\ UNCHANGED <<groups, domains, groupAt, groupFed>>

RemoveWorker(g, w) ==                                    \* WorkerGroup.remove
    /\ Changed /\ w \in groupMembers[g]
    /\ groupMembers' = [groupMembers EXCEPT ![g] = @ \ {w}]
    /\ UNCHANGED <<groups, domains, workerAt, groupAt, workerFed, groupFed>>

TopOnly(w, d) == workerAt[w]                             \* mutant: the members are not told
HandedDown(w, d) == <<d, workerAt[w][2]>>
AddGroup(d, g) ==                                        \* ExecutionDomain.add
    /\ Changed /\ \A e \in Domains : g \notin groups[e]
    /\ groups' = [groups EXCEPT ![d] = @ \union {g}]
    /\ groupAt' = [groupAt EXCEPT ![g] = d]
    /\ workerAt' = [w \in Workers |-> IF w \in groupMembers[g] THEN HandedDown(w, d) ELSE workerAt[w]]
    /\ groupFed' = [groupFed EXCEPT ![g] = DomainFed(d)]
    /\ workerFed' = [w \in Workers |-> IF w \in groupMembers[g] THEN DomainFed(d) ELSE workerFed[w]]
    /\ UNCHANGED <<groupMembers, domains>>

AddDomain(d) ==                                          \* Federation.add
    /\ Changed /\ d \notin domains
    /\ domains' = domains \union {d}
    /\ groupFed' = [g \in Groups |-> IF g \in groups[d] THEN FederationId ELSE groupFed[g]]
    /\ workerFed' = [w \in Workers |-> IF w \in WorkersIn(d) THEN FederationId ELSE workerFed[w]]
    /\ UNCHANGED <<groupMembers, groups, workerAt, groupAt>>

FederationNext == \/ \E g \in Groups, w \in Workers : AddWorker(g, w) \/ RemoveWorker(g, w)
                  \/ \E d \in Domains : AddDomain(d) \/ \E g \in Groups : AddGroup(d, g)
-----------------------------------------------------------------------------
(* Properties.                                                               *)

\* In whatever order the parts were put together, a worker that can be found is
\* found where it is: locate and group_of answer with the domain and the group
\* that hold it, and the federation's name has reached it; and a federation
\* built flat has placed every worker (Federation.locate, build_flat_federation).
LocatedWhereHeld ==
    /\ \A d \in domains : \A g \in groups[d] : \A w \in groupMembers[g] :
          workerAt[w] = <<d, g>> /\ workerFed[w] = FederationId /\ groupFed[g] = FederationId
    /\ changes = 0 => \E s \in Shapes : WorkerIds = 1 .. s[1]
=============================================================================
