-------------------------- MODULE OwnershipVerifier --------------------------
(* The static verifier's ownership tracking (lang.py, verify): it goes through *)
(* the rows once, keeps an ownership record for every quantum object, and      *)
(* reports what is used after it was measured, moved or released, away from    *)
(* its node, or before it was prepared. A rejected program is read to its end. *)
(* A row's schema is "ok"; "bad" when a cell that changes nothing is wrong     *)
(* (regime, type, family, confidence, parameter, noise probability, exactness, *)
(* domain); or "unknown" when its face or operation is. Diagnostics count, not *)
(* their codes.                                                                *)
EXTENDS Language

CONSTANTS RowMenu,          \* the rows a program may have
          Declarations,     \* what programs declare before the rows explored
          QuantumNames,     \* keys whose name marks them as quantum
          MaxRows           \* rows of a program: a model bound

\* A cell names a range of keys: it repeats none.
ASSUME CellsAreRanges ==
    \A row \in RowMenu : \A cell \in {row.out, row.ctrl, row.a, row.b} :
        cell \in Seq(ToSet(cell)) /\ IsInjective(cell)

VARIABLES own,              \* key -> [state, lineage, node, partners]
          lineages,         \* lineage_counter
          declared,         \* names of declared nodes and links
          bits,             \* classical_bits: the cells measurements wrote
          accepted,         \* no diagnostic so far
          program           \* the rows so far

verifierVars == <<own, lineages, declared, bits, accepted, program>>

VerifierInit ==
    /\ own = << >> /\ lineages = 0 /\ declared \in Declarations /\ bits = {}
    /\ accepted = TRUE /\ program = <<>>

Nowhere == "-"
Record(node, lineage) == [state |-> "LIVE", lineage |-> lineage, node |-> node, partners |-> {}]
Known(k) == k \in DOMAIN own
\* Every key of a sequence gets a record of a new lineage, in order.
Fresh(keys, node) == [k \in DOMAIN own \union ToSet(keys) |->
    IF k \in ToSet(keys) THEN Record(node, lineages + Max({i \in DOMAIN keys : keys[i] = k})) ELSE own[k]]
Marked(keys, state) == [k \in DOMAIN own |->
    IF k \in keys THEN [own[k] EXCEPT !.state = state] ELSE own[k]]

LooksQuantum(row, k) ==
    row.quantum \/ (row.op \in GatesWithArity \union Prepares \union Noise /\ k \in QuantumNames)

\* Teleportation moves key by key, as far as both cells go: a source that is a
\* destination of an earlier key moves what it has just received.
SourceStays(before, s, d, node) ==                   \* mutant: the source stays live
    [k \in DOMAIN before \union {d} |-> IF k = d THEN Record(node, before[s].lineage) ELSE before[k]]
KeyMoved(before, s, d, node) ==
    [k \in DOMAIN before \union {d} |->
        IF k = d THEN Record(node, before[s].lineage)
        ELSE IF k = s THEN [before[s] EXCEPT !.state = "MOVED"] ELSE before[k]]
Shorter(row) == IF Len(row.a) <= Len(row.out) THEN Len(row.a) ELSE Len(row.out)
Moves(row) ==
    LET moves[i \in 0 .. Shorter(row)] ==
            IF i = 0 THEN own
            ELSE IF row.a[i] \notin DOMAIN moves[i - 1] THEN moves[i - 1]
            ELSE KeyMoved(moves[i - 1], row.a[i], row.out[i], row.node)
    IN  moves
Teleported(row) == Moves(row)[Shorter(row)]
Unprepared(row) == \E i \in 1 .. Shorter(row) : row.a[i] \notin DOMAIN Moves(row)[i - 1]

Declaring == {"DECLARE_NODE", "DECLARE_LINK"}
Inert == {"DECLARE_DOMAIN", "DECLARE_TOPOLOGY", "DECLARE_FEDERATION", "NOTE", "EMIT_LEDGER",
          "CLAIM", "ASSERT_INVARIANT"}

\* What makes the verifier reject a row, apart from its schema.
Undeclared(row) == \E ref \in {row.node, row.link} \ {Nowhere} : ref \notin declared
WrongArity(row) == row.op \in GatesWithArity /\ Len(row.ctrl \o row.a \o row.b) # Arity(row.op)
SelfControlled(row) == row.op \in ControlledGates /\ ToSet(row.ctrl) \intersect ToSet(row.a) # {}
Misused(row, k) ==
    IF ~Known(k) THEN LooksQuantum(row, k)
    ELSE \/ own[k].state # "LIVE"
         \/ own[k].node \notin {Nowhere, row.node} /\ row.op \notin Protocols
Duplicates(row) == row.op \in {"TENSOR", "MERGE"} /\ ToSet(row.a) \intersect ToSet(row.b) # {}
NeedsLink(row) == row.op \in {"TELEPORT", "ENTANGLE_LINK", "EPR_RESERVE", "REMOTE_CNOT",
                              "REMOTE_CONTROL"} /\ row.link = Nowhere
Condition(row) == IF row.ctrl # <<>> THEN row.ctrl ELSE row.a
Unmeasured(row) == row.op \in ClassicalControl /\ Condition(row) \notin bits
Rejects(row) ==
    \/ Undeclared(row) \/ WrongArity(row) \/ SelfControlled(row)
    \/ /\ row.op \notin Prepares
       /\ \/ \E k \in Touches(row) : Misused(row, k)
          \/ Duplicates(row) \/ NeedsLink(row) \/ Unmeasured(row)
          \/ row.op = "TELEPORT" /\ (<<>> \in {row.a, row.out} \/ Unprepared(row))
          \/ row.op = "EPR_RELEASE" /\ \E k \in ToSet(row.a) : ~Known(k) \/ own[k].state = "RELEASED"

\* A remote gate entangles its control and its target, when both are known.
Entangled(row) ==
    IF <<>> \in {row.ctrl, row.a} \/ ~Known(row.ctrl[1]) \/ ~Known(row.a[1]) THEN own
    ELSE [k \in DOMAIN own |->
             [own[k] EXCEPT !.partners = @ \union (IF k = row.ctrl[1] THEN {row.a[1]} ELSE {})
                                           \union (IF k = row.a[1] THEN {row.ctrl[1]} ELSE {})]]

\* The ownership records and lineages after a row that is neither a declaration
\* nor inert.
NewKeys(row) == SetToSeq({k \in Writes(row) : ~Known(k) /\ LooksQuantum(row, k)})
Tracks(row) ==
    \/ /\ row.op \in Prepares \union {"ENTANGLE_LINK", "EPR_RESERVE"}
       /\ own' = Fresh(row.out, row.node) /\ lineages' = lineages + Len(row.out)
    \/ /\ row.op \in Destructive
       /\ own' = Marked(ToSet(IF row.a # <<>> THEN row.a ELSE row.ctrl), "MEASURED")
       /\ UNCHANGED lineages
    \/ /\ row.op = "TELEPORT"
       /\ own' = IF row.link = Nowhere THEN own ELSE Teleported(row)
       /\ UNCHANGED lineages
    \/ /\ row.op = "EPR_RELEASE"
       /\ own' = Marked(ToSet(row.a), "RELEASED") /\ UNCHANGED lineages
    \/ /\ row.op \in {"REMOTE_CNOT", "REMOTE_CONTROL"}
       /\ own' = Entangled(row) /\ UNCHANGED lineages
    \/ /\ row.op \in Protocols \ {"ENTANGLE_LINK", "EPR_RESERVE", "TELEPORT", "EPR_RELEASE",
                                  "REMOTE_CNOT", "REMOTE_CONTROL", "REMOTE_MEASURE"}
       /\ UNCHANGED <<own, lineages>>
    \/ /\ row.op \notin Prepares \union Destructive \union Protocols
       /\ own' = Fresh(NewKeys(row), row.node) /\ lineages' = lineages + Len(NewKeys(row))

Verify(row) ==
    /\ Len(program) < MaxRows
    /\ program' = Append(program, row)
    /\ IF row.schema = "unknown" \/ row.op \in Inert
       THEN UNCHANGED <<own, lineages, declared, bits>> /\ accepted' = (accepted /\ row.schema = "ok")
       ELSE IF row.op \in Declaring
       THEN /\ declared' = declared \union ToSet(row.out) /\ accepted' = (accepted /\ row.schema = "ok")
            /\ UNCHANGED <<own, lineages, bits>>
       ELSE /\ Tracks(row)
            /\ bits' = IF row.op \in Destructive /\ row.out # <<>> THEN bits \union {row.out} ELSE bits
            /\ accepted' = (accepted /\ row.schema = "ok" /\ ~Rejects(row))
            /\ UNCHANGED declared

VerifierNext == \E row \in RowMenu : Verify(row)

VerifierSpec == VerifierInit /\ [][VerifierNext]_verifierVars

-----------------------------------------------------------------------------
(* Properties.                                                               *)

\* What the text of a row does to an object, whatever the verifier records.
Gained(row, k) ==
    \/ row.op \in Prepares \union {"ENTANGLE_LINK", "EPR_RESERVE"} /\ k \in ToSet(row.out)
    \/ row.op = "TELEPORT" /\ \E i \in 1 .. Shorter(row) : row.out[i] = k
Lost(row, k) ==
    \/ row.op \in Destructive /\ k \in ToSet(IF row.a # <<>> THEN row.a ELSE row.ctrl)
    \/ row.op = "EPR_RELEASE" /\ k \in ToSet(row.a)
    \/ /\ row.op = "TELEPORT"
       /\ \E i \in 1 .. Shorter(row) : row.a[i] = k /\ \A j \in i .. Shorter(row) : row.out[j] # k

\* Whoever uses an object that was lost got it back in between.
UsesAreOwned ==
    \A i \in DOMAIN program : \A k \in Touches(program[i]) :
        program[i].op \notin Prepares \union Inert \union Declaring =>
            \A j \in 1 .. i - 1 :
                Lost(program[j], k) /\ (\E h \in 1 .. j - 1 : Gained(program[h], k)) =>
                    \E h \in j + 1 .. i - 1 : Gained(program[h], k)
\* No two live objects are one.
LiveApart(owned) ==
    \A j, k \in DOMAIN owned :
        /\ owned[j].state = "LIVE" /\ owned[k].state = "LIVE"
        /\ owned[j].lineage = owned[k].lineage
        => j = k
\* An accepted program uses a quantum object only while it has it: after the
\* last row that measured, moved or released it another prepared or received it
\* before the use. And no two objects it has at the end are one: live lineages
\* differ (lang.py, verify; "ownership / no-cloning").
AcceptedIsOwned == accepted => UsesAreOwned /\ LiveApart(own)
=============================================================================
