---------------------------- MODULE WitnessFabric ----------------------------
(* The DFabric adapter: the witness of a bundle of rows, lowered to programs  *)
(* for virtual machines of different widths and image sizes, and the three    *)
(* programs of a fabric run: replica (every node, chained through its own     *)
(* segments), pipeline (segments handed from node to node) and bsp. A row is  *)
(* its word, a dialect is its instructions; compiling, signing and the host   *)
(* processes are one step that gives the low word, any word if the node is    *)
(* broken. A word has LowBits bits in place of 64.                            *)
EXTENDS Integers, Sequences, FiniteSets, Bitwise
LOCAL INSTANCE SequencesExt

CONSTANTS LowBits, Offset, Prime,
          Ceiling,         \* instructions an image may have: [br |-> ..., qvm |-> ...]
          RegBits,         \* register width of each node
          Bundles, Bounds, Broken,   \* the words of a program, the nodes present, the broken ones
          Asked            \* the programs of a run, in order

NodeIds == <<"N_SMALL", "N_MEDIUM", "N_LARGE", "N_XLARGE">>      \* NODE_IDS
WorkerOrder == <<"N_LARGE", "N_MEDIUM", "N_SMALL", "N_XLARGE">>  \* by the worker's id
VmNodes == ToSet(NodeIds)
ASSUME WitnessAssumption ==
    /\ \A n \in VmNodes : RegBits[n] >= LowBits
    /\ \A S \in Bounds : S # {} /\ S \subseteq VmNodes

VARIABLES bundle, bound, broken,
          programs,        \* the programs still to run, the running one first
          phase,           \* "bind", "run", "finished", "rejected", "refused"
          left,            \* per node, the segments of its chain still to run
          placed,          \* the segments of the pipeline: [node, words]
          acc,             \* the accumulator of every chain, and the pipeline's
          verdicts,        \* per finished program: [agree, witnesses]
          handed           \* the words the pipeline has run
witnessVars == <<bundle, bound, broken, programs, phase, left, placed, acc, verdicts, handed>>

Low(v) == v % (2 ^ LowBits)
LowWords == 0 .. 2 ^ LowBits - 1
ReferenceWitness(words, accIn) == FoldLeft(LAMBDA a, w : Low(a * Prime) ^^ Low(w), Low(accIn), words)

InstructionsPerRow == 3
PrologueEpilogue == 4
CeilingOf(n) == IF n = "N_XLARGE" THEN Ceiling.qvm ELSE Ceiling.br
RowsIn(ceiling) == (ceiling - PrologueEpilogue) \div InstructionsPerRow
MaxRows(n) == RowsIn(CeilingOf(n))

\* segments: consecutive, the last one shorter.
Overlapping(words, k) ==                              \* mutant: a segment has one row too many
    [i \in 1 .. (Len(words) + k - 1) \div k |->
        SubSeq(words, (i - 1) * k + 1, IF i * k < Len(words) THEN i * k + 1 ELSE Len(words))]
Segments(words, k) ==
    [i \in 1 .. (Len(words) + k - 1) \div k |->
        SubSeq(words, (i - 1) * k + 1, IF i * k < Len(words) THEN i * k ELSE Len(words))]
-----------------------------------------------------------------------------
(* The lowered program and the machine: all four dialects are the same        *)
(* instructions, and the value is left in R0 and R2.                          *)

PerRow(w) == <<<<"MUL", 0, 0, 1>>, <<"MOVI", 3, w>>, <<"XOR", 0, 0, 3>>>>
Lowering(words, accIn) ==
    <<<<"MOVI", 0, Low(accIn)>>, <<"MOVI", 1, Prime>>>>
    \o FlattenSeq([i \in DOMAIN words |-> PerRow(Low(words[i]))])
    \o <<<<"MOV", 2, 0>>, <<"HALT">>>>

Executed(regs, insn, width) ==
    CASE insn[1] = "MOVI" -> [regs EXCEPT ![insn[2]] = insn[3]]
      [] insn[1] = "MUL" -> [regs EXCEPT ![insn[2]] = (regs[insn[3]] * regs[insn[4]]) % (2 ^ width)]
      [] insn[1] = "XOR" -> [regs EXCEPT ![insn[2]] = regs[insn[3]] ^^ regs[insn[4]]]
      [] insn[1] = "MOV" -> [regs EXCEPT ![insn[2]] = regs[insn[3]]]
      [] insn[1] = "HALT" -> regs
Registers(n, code) == FoldLeft(LAMBDA r, i : Executed(r, i, RegBits[n]), [i \in 0 .. 3 |-> 0], code)
ResultRegister(n) == IF n = "N_XLARGE" THEN 0 ELSE 2

\* submit_words: the words it can report. None: it raises, because of a bound, or
\* because the machine's word is not the reference's.
Admitted(n, words) == words # <<>> /\ Len(words) <= MaxRows(n)
Native(n, words, accIn) ==
    LET code == Lowering(words, accIn)
    IN  IF Len(code) > CeilingOf(n) THEN {}
        ELSE IF n \in broken THEN LowWords ELSE {Low(Registers(n, code)[ResultRegister(n)])}
Submitted(n, words, accIn) ==
    IF Admitted(n, words) THEN Native(n, words, accIn) \intersect {ReferenceWitness(words, accIn)} ELSE {}
MayRaise(n, words, accIn) == Submitted(n, words, accIn) = {} \/ Submitted(n, words, accIn) # Native(n, words, accIn)
-----------------------------------------------------------------------------
(* Placement of the pipeline's segments over the live workers.                *)

InOrder(order) == SelectSeq(order, LAMBDA n : n \in bound)
\* static_assign: in turn, in the order of the nodes; every worker has one slot.
StaticAssign(segs) ==
    LET live == InOrder(NodeIds)
    IN  [i \in DOMAIN segs |-> [node |-> live[((i - 1) % Len(live)) + 1], words |-> segs[i]]]
\* dynamic_assign: the shortest queue, whose delay grows by the segment's cost;
\* the first worker id of those. The other signals are equal here.
DynamicAssign(segs) ==
    LET live == InOrder(WorkerOrder)
        delay(done, n) == FoldLeft(LAMBDA x, d : IF d.node = n THEN x + Len(d.words) ELSE x, 0, done)
        best(done) == CHOOSE i \in DOMAIN live : \A j \in DOMAIN live :
                         \/ delay(done, live[i]) < delay(done, live[j])
                         \/ delay(done, live[i]) = delay(done, live[j]) /\ i <= j
    IN  FoldLeft(LAMBDA done, s : Append(done, [node |-> live[best(done)], words |-> s]), <<>>, segs)

\* What a program starts from: the chains of its nodes, or the placed segments.
Prepare(p) ==
    /\ acc' = [k \in VmNodes \union {"pipeline"} |-> Offset] /\ handed' = <<>>
    /\ left' = [n \in VmNodes |-> IF p \in {"replica", "bsp"} /\ n \in bound
                                  THEN Segments(bundle, MaxRows(n)) ELSE <<>>]
    /\ LET segs == Segments(bundle, RowsIn(Ceiling.br))
       IN  placed' \in IF p = "pipeline" THEN {StaticAssign(segs), DynamicAssign(segs)} ELSE {<<>>}

WitnessInit ==
    /\ bundle \in Bundles /\ bound \in Bounds /\ broken \in Broken
    /\ programs = Asked /\ phase = "bind" /\ verdicts = <<>> /\ handed = <<>> /\ placed = <<>>
    /\ left = [n \in VmNodes |-> <<>>] /\ acc = [k \in VmNodes \union {"pipeline"} |-> Offset]
Given == UNCHANGED <<bundle, bound, broken>>

\* run_program: a program that does not verify is not executed.
Bind ==
    /\ phase = "bind" /\ programs # <<>> /\ Given
    /\ \/ phase' = "run" /\ Prepare(Head(programs)) /\ UNCHANGED <<programs, verdicts>>
       \/ phase' = "rejected" /\ UNCHANGED <<programs, left, placed, acc, verdicts, handed>>

Running(p) == phase = "run" /\ programs # <<>> /\ Head(programs) = p
RefuseRun == phase' = "refused" /\ UNCHANGED <<programs, left, placed, acc, verdicts, handed>>

\* chain_task: the node's next segment starts from what its last one gave. The
\* tasks of the replica program run in any order, those of bsp by worker id.
Restarted(k) == Offset                                  \* mutant: every segment starts anew
ChainedFrom(k) == acc[k]
ChainStep(n) ==
    /\ phase = "run" /\ left[n] # <<>> /\ Given
    /\ Running("bsp") => \A i, j \in DOMAIN WorkerOrder :
                            WorkerOrder[j] = n /\ i < j => left[WorkerOrder[i]] = <<>>
    /\ \/ \E out \in Submitted(n, Head(left[n]), ChainedFrom(n)) :
             /\ acc' = [acc EXCEPT ![n] = out] /\ left' = [left EXCEPT ![n] = Tail(@)]
             /\ UNCHANGED <<programs, phase, placed, verdicts, handed>>
       \/ MayRaise(n, Head(left[n]), ChainedFrom(n)) /\ RefuseRun

\* witness_task: segment k+1 runs on its node from the output of segment k.
HandOff ==
    /\ Running("pipeline") /\ placed # <<>> /\ Given
    /\ LET d == Head(placed)
       IN  \/ \E out \in Submitted(d.node, d.words, ChainedFrom("pipeline")) :
                 /\ acc' = [acc EXCEPT !["pipeline"] = out] /\ placed' = Tail(placed)
                 /\ handed' = handed \o d.words
                 /\ UNCHANGED <<programs, phase, left, verdicts>>
           \/ MayRaise(d.node, d.words, ChainedFrom("pipeline")) /\ RefuseRun

\* The verdict: every witness is the reference of the whole bundle. In bsp each
\* worker also votes on what its peers sent (nothing: the messages of the second
\* superstep are delivered after its functions ran), and the collectives compare
\* the witnesses.
Unanimous(W) == \A k \in DOMAIN W : W[k] = ReferenceWitness(bundle, Offset)
Verdict ==
    /\ phase = "run" /\ programs # <<>> /\ Given
    /\ placed = <<>> /\ \A n \in VmNodes : left[n] = <<>>
    /\ LET p == Head(programs)
           W == [k \in IF p = "pipeline" THEN {"pipeline"} ELSE bound |-> acc[k]]
       IN  verdicts' = Append(verdicts, [program |-> p, witnesses |-> W, agree |-> Unanimous(W)])
    /\ programs' = Tail(programs)
    /\ IF Tail(programs) = <<>>
       THEN phase' = "finished" /\ UNCHANGED <<left, placed, acc, handed>>
       ELSE phase' = phase /\ Prepare(programs[2])

WitnessNext == Bind \/ HandOff \/ Verdict \/ \E n \in VmNodes : ChainStep(n)
-----------------------------------------------------------------------------
(* Properties.                                                               *)

\* The machines, whatever their width, compute the word of the definition, so a
\* run is refused only because of a broken node: no bound of an image or of a
\* segment is exceeded and no segment of a healthy run disagrees. A run whose
\* programs are all done agrees: every witness of every program, chained through
\* the node's own segments or handed from node to node, is the reference of the
\* whole bundle, and a broken node was caught at the segment where it differed
\* (submit_words, chain_task, replica, pipeline, bsp).
WitnessIsReference ==
    /\ phase = "refused" => broken \intersect bound # {}
    /\ \A i \in DOMAIN verdicts :
          /\ verdicts[i].agree
          /\ \A k \in DOMAIN verdicts[i].witnesses :
                verdicts[i].witnesses[k] = ReferenceWitness(bundle, Offset)
    /\ Running("pipeline") => handed \o FlattenSeq([i \in DOMAIN placed |-> placed[i].words]) = bundle
=============================================================================
