------------------------ MODULE ConsistencyContract ------------------------
(***************************************************************************)
(* The consistency contract (crdt.py): which guarantees are admitted under *)
(* which partition and failure models, as its callers restate the one and  *)
(* change the other.                                                       *)
(***************************************************************************)
EXTENDS Naturals, FiniteSets

CONSTANTS MaxReplicas,    \* bound: the replicas a contract declares
          MaxFailures     \* bound: its max_concurrent_failures

ASSUME ContractAssumption == MaxReplicas \in Nat \ {0} /\ MaxFailures \in Nat

VARIABLE contract         \* the requested profile, its partition model and its failure model
-----------------------------------------------------------------------------
OrderedProfiles == {"LINEARIZABLE", "SEQUENTIAL"}
Profiles == OrderedProfiles \cup {"CAUSAL", "EVENTUAL", "CRDT_DECLARED", "SINGLE_OWNER", "IMMUTABLE_REPLICA"}

\* The flags of PartitionModel and FailureModel, by what their being set does: the hard
\* ones make a guarantee harder to keep, the helps make it easier.
Hard  == {"partitions_possible", "crash_stop", "message_loss", "byzantine"}
Helps == {"bounded_duration", "reliable_retransmit", "failover", "anti_entropy", "crdt_declared"}
Contracts == [profile : Profiles, flags : SUBSET (Hard \cup Helps),
              replicas : 1 .. MaxReplicas, failures : 0 .. MaxFailures]

QuorumOf(c) == c.replicas \div 2 + 1
On(c, flag) == flag \in c.flags
When(condition, rule) == IF condition THEN {rule} ELSE {}

\* mutant: C5 fires when there is an anti-entropy path
RulesC5Slip(c) == When(On(c, "partitions_possible") /\ ~On(c, "bounded_duration"), "C5")
                  \cup When(On(c, "message_loss") /\ ~On(c, "reliable_retransmit") /\ On(c, "anti_entropy"), "C5")
RulesC5(c) == When(On(c, "partitions_possible") /\ ~On(c, "bounded_duration"), "C5")
              \cup When(On(c, "message_loss") /\ ~(On(c, "reliable_retransmit") \/ On(c, "anti_entropy")), "C5")

\* evaluate: the rules that the profile breaks under the models.
RulesFired(c) ==
    CASE c.profile \in OrderedProfiles ->
            When(On(c, "partitions_possible") /\ c.replicas < 3, "C1")
            \cup When(On(c, "partitions_possible") /\ c.failures >= QuorumOf(c), "C2")
            \cup When(On(c, "byzantine") /\ c.replicas < 3 * c.failures + 1, "C3")
      [] c.profile = "CAUSAL" -> When(On(c, "message_loss") /\ ~On(c, "reliable_retransmit"), "C4")
      [] c.profile = "EVENTUAL" -> RulesC5(c)
      [] c.profile = "CRDT_DECLARED" -> When(~(On(c, "crdt_declared") /\ On(c, "anti_entropy")), "C6")
      [] c.profile = "SINGLE_OWNER" ->
            When(On(c, "crash_stop") /\ ~On(c, "failover") /\ c.failures > 0, "C8")
      [] c.profile = "IMMUTABLE_REPLICA" -> When(On(c, "byzantine"), "C9")

ContractAdmits(c) == RulesFired(c) = {}

\* The models' defaults, under any profile.
ContractInit == \E p \in Profiles :
    contract = [profile |-> p, replicas |-> 1, failures |-> 0,
                flags |-> {"bounded_duration", "crash_stop", "reliable_retransmit", "anti_entropy"}]

\* A caller restates the requirement or changes the model.
Restate(p) == contract' = [contract EXCEPT !.profile = p]
Redeclare(flag) == contract' = [contract EXCEPT !.flags = IF flag \in @ THEN @ \ {flag} ELSE @ \cup {flag}]
Resize(n, f) == contract' = [contract EXCEPT !.replicas = n, !.failures = f]

ContractNext == \/ \E p \in Profiles : Restate(p)
                \/ \E flag \in Hard \cup Helps : Redeclare(flag)
                \/ \E n \in 1 .. MaxReplicas, f \in 0 .. MaxFailures : Resize(n, f)

ContractSpec == ContractInit /\ [][ContractNext]_contract
-----------------------------------------------------------------------------
\* A model that is at least as mild: no hazard more, no help less, no fewer replicas, no
\* more failures.
Milder(c, d) == /\ c.flags \cap Hard \subseteq d.flags /\ d.flags \cap Helps \subseteq c.flags
                /\ c.replicas >= d.replicas /\ c.failures <= d.failures

Survivors(c) == c.replicas - c.failures

\* AdmittedSurvives: an admitted total order under partitions has three replicas or more,
\* and a quorum of them survives the declared failures but in one case, that exactly half
\* of an even number fail: then C2, which compares the failures with the quorum and not
\* with the survivors, is silent. And honest survivors outnumber byzantine replicas two to
\* one.
AdmittedSurvives ==
    contract.profile \in OrderedProfiles /\ ContractAdmits(contract) =>
        /\ On(contract, "partitions_possible") =>
              /\ contract.replicas >= 3
              /\ Survivors(contract) >= QuorumOf(contract) <=> 2 * contract.failures # contract.replicas
        /\ On(contract, "byzantine") => Survivors(contract) > 2 * contract.failures

\* "a majority quorum reachable during every partition", of which C2 says "no quorum
\* survives" when it is not: an admitted total order under partitions keeps a quorum.
QuorumSurvives ==
    contract.profile \in OrderedProfiles /\ ContractAdmits(contract) /\ On(contract, "partitions_possible")
    => Survivors(contract) >= QuorumOf(contract)

\* MilderIsAdmitted: a profile that is admitted stays so when the model only gets milder.
MilderIsAdmitted == ContractAdmits(contract) /\ contract'.profile = contract.profile /\ Milder(contract', contract)
                    => ContractAdmits(contract')

\* The contract judges by the declared models alone: what it admits survives the declared
\* failures, save half of an even number, and it never blocks under a milder model what it
\* admitted under a harder one, however the models are changed one declaration after the
\* other (ConsistencyContract.evaluate).
ContractIsSound == [](AdmittedSurvives) /\ [][MilderIsAdmitted]_contract
=============================================================================
