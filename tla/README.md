# A verification project for df-small

TLA+ modules, TLC configurations and TLAPS proofs for the native VM
(`src/vm/BOTTLE_ROCKET_3.0.0_MODEL_OPERATIONAL_110K`, below `V`), the Python
reference runtime (`src/core/reference/pacore`, below `P`) and the DFabric adapter
(`src/adapter/dfabric`). `PROJECT.json` lists the components, the runs, the source
lines behind every definition, the hazards, the findings, the theorems and, for
every property, a plausible bug that breaks it.

## 1. The system

| component | state it keeps | operations | what is hard, what makes it correct |
|---|---|---|---|
| VM durable store (`V/src/brvm.c`, `V/host/brctl.c`) | two records, two image files, a stage file; in memory generation, version, txid, slot, image | UPDATE fragments, save, recover, `serve`, `save-state` | a crash between any two file steps; recovery has no fallback; a failed save must roll memory back |
| VM interpreter and words (`brvm.c`) | registers, memory, stack, capabilities, budgets | step, services, LOAD, EXEC, reset | LOAD half done; only the host grants authority; carries across limbs |
| APDU framing (`brvm.c`) | one fragment buffer, last transaction | br_apdu | frames lost, repeated or mixed; commands whole and once |
| channels, `select` (`P/fabric.py`) | queue, closed, cancelled, one condition | send, receive, try_*, close, cancel, peek, select | test and act in two critical sections; lost wakeups |
| task runtime (`fabric.py`) | tasks, owner table, log, call stack | spawn, speculate, race, run, await, barrier, cancel, transfer, release, reconstruct | nested runs, cancelling what runs, one owner per payload, replicas that race |
| event log and clocks (`fabric.py`) | events, seal, Lamport and vector clocks | append, seal, receive | append against seal; clocks against causes |
| dataflow, BSP (`fabric.py`) | nodes, channels, inboxes | rounds, firing, supersteps, barriers | an exception in the middle loses or repeats tokens or messages |
| async engine, timer wheel (`fabric.py`) | futures, pending list, wheel | submit, drain, cancel, schedule, advance | callbacks that call back in or raise; delay zero; what a drain forgets |
| worker pool, adaptation (`fabric.py`) | deques, elastic group; moving averages, grain, adaptation records | push, pop, steal, grow, shrink; observe, detect, choose_grain | stale deques; a steal that misses a task; decisions that follow what was observed |
| collectives, deadlock detector, federation (`fabric.py`) | buffers; wait-for graph; containment | broadcast ... alltoall; add, clear, detect; add, build | ranks relative to a root; stale edges; late changes of location |
| ebit ledger and protocols (`P/protocols.py`) | ebits with state, fidelity, expiry | request ... consume, teleport, remote_cnot, entanglement_swap | swaps that fail half way; an ebit serves one protocol |
| feedback fabric (`protocols.py`) | messages, clock, edges | send, receive, expire, retry, drop | a correction after what it depends on |
| protocol compiler, purification (`protocols.py`) | a plan; pairs | compile, run steps; purify | order of the steps of a link; fidelity never down |
| recovery, supervision (`P/resilience.py`) | attempts, decisions | classify, decide, handle | budgets, escalation, an end |
| checkpoints, transactions (`resilience.py`) | payloads by reference, checksums of their text, journal | save, verify, load; write, record, rollback, commit | aliasing, undo of the first value |
| replicated data, contracts (`P/crdt.py`) | replicas; a contract and its models | update, merge, sync, converge; evaluate, require | values whatever the order of merges; no verdict milder than its models |
| verifier, error algebra (`P/lang.py`, `P/erroralgebra.py`) | ownership records; a pool of terms; exposures | verify row by row; compose; add, check | use after loss; independence nobody claimed; seconds that are lost |
| commutation authority, event structure, planner, routers (`P/commutation.py`, `P/ses.py`, `P/planner.py`) | nodes, edges, plans, loads | classify, rewrite, build, analyze, partition, place, schedule, route | rules against operators; bounds of schedules |
| simulators, backend plan (`P/simulator.py`, `P/ledgers.py`) | tableau; a circuit | gates, measure, reset; plan, run, fall back | signs, phases; a refusal half way |
| DFabric adapter | witness chain | replica, pipeline, bsp | segments handed from node to node |
| not modelled | | assembler, conformance corpus, CLI, importers, release tools | no state between calls |

How they interact: `brctl` drives the VM through APDUs and saves it; the VM reaches
the disk through `br_platform`. Dataflow and BSP move values over channels; the
runtime, the pool and the federation share workers; protocols share one ledger and
send corrections over the feedback fabric. A program goes through verifier, event
structure, planner and a simulator, and its links through the protocol compiler and
routers. Resilience and CRDTs are called by their users and keep no reference back.

## 2. Modules

`EXTENDS` and shared variables compose what interacts; `MC*` modules hold a group of
components that share no state, one at a time (the variable `part`), so that each is
explored by itself.

| group (run) | modules |
|---|---|
| `vm` | `BrvmStore` (files, update, save, recover, kill, power loss) implements `InstallRegister`; `BrvmStoreFaults` adds three steps for findings; `VmInterpreter`; `WordArithmetic`; `ApduSession`; `MCVm` |
| `fabric_engines` | `TaskRuntime` (with speculation, and replay of its log), `AsyncEngine`, `TimerWheel`, `WorkerPool`, `Adaptation` (stragglers, grain size, elastic guard), `Dataflow`, `Collectives`, `DeadlockDetector`, `Federation` and, on top of it, `Supersteps`; `EventLog`; `Crdt`; `MCFabricEngines` |
| `services` | `Channel` implements `BoundedFifo`; `ClassicalFeedback`, `Recovery`, `CheckpointStore` (with the transaction), `ConsistencyContract`, `ProtocolCompiler` (with purification), `Routing`, `WitnessFabric`; `MCServices` |
| `programs` | `Language` (rows, operation families), `Clifford` (gates on basis states), `OwnershipVerifier`, `CommutationAuthority`, `EventStructure` on top of it, `Planner` on top of that, `StabilizerEngine`, `CircuitRun`, `EbitLedger`, `ErrorAlgebra` (with coherence exposure); `MCPrograms` |
| proofs | `VmProofs`, `ChannelProofs`, `FabricProofs`, `ServiceProofs`, `ProgramProofs` |

How state and actions correspond to the code. A variable has the name of the
attribute it stands for where TLA+ allows it. An action is a whole method, or, where
a method lets others run or the machine may stop, the stretch between two such
points: file steps in `BrvmStore`, critical sections in `Channel`, callbacks on a
stack of frames in `TaskRuntime`, `AsyncEngine` and `TimerWheel`, client functions in
`Dataflow` and `Supersteps`, tests outside the lock in `EventLog`. A call that raises
and changes nothing is no step; one that raises half way is. History variables
(`acked`, `expected`, `uses`, `origin`, `runs`, `before`, `sent`, `taken`, `past`,
`seen`, `first`, `raisers`, `inside`, `abandoned`, `pushed`, `dropped`) record what properties compare with. Operators with a comment "mutant" are
the bugs the properties are tested against; nothing else uses them.

What is abstracted: formatting, hashes (an object stands for its hash; a checkpoint's
checksum is taken of a canonical text, `Text`, that need not tell payloads apart), wall time,
metrics; an image is a model value, a fragment a number, a payload an id, a word a
few limbs, a fidelity a fraction, an angle a quarter turn, a row the fields that its
readers tell apart. Amplitudes are left out of `CircuitRun`, whose tableau has
no signs: its bits alone decide which products are odd. `Clifford` computes gates on
basis states exactly.

## 3. Runs and bounds

| run | bounds | why they are enough |
|---|---|---|
| `vm` | 2 images of different versions, 2 fragments, txids to 3, generations to 4; 2 registers, 2 capability registers, words 0..1, programs of 2 instructions, runs of 3 of them with 2 services; images that request more or other than the allowlist, 1 commit; words of 3 limbs of 2 bits; messages of up to 4 fragments (one more than fits), 4 transactions | two fragments give uploads interrupted, mixed, repeated; four generations write both records twice and reach the counter's limit; two versions give upgrade, reinstall, downgrade. A middle limb is the case carries must pass through |
| `fabric_engines` | 3 tasks, replicas of tasks included, 1 payload, calls nested 4 deep; 3 futures, 2 drains; 3 timers on 3 slots, 4 ticks, nested twice; 2 items (one pinned) on 3 to 4 workers; a graph of 3 nodes with a feedback edge and a fan-out, 2 tokens, 3 actions; 1 to 6 ranks; 2 tasks, a resource and a future; 3 workers, 2 supersteps with 2 messages; 2 threads on one of 2 logs, 4 times; 3 watched workers, 4 observations, 8 overheads with 4 costs, a window of 4 in 9 ticks; 3 replicas, up to 3 updates of one element and 2 of two | nesting of two is where a callback changes what its caller holds; the wheel turns over; 6 ranks include all remainders of a power of two; the graph blocks on a full channel; a fourth worker has no deque; three replicas make two paths to one |
| `services` | 2 senders of one item each, 2 receivers, 2 channels of capacity 1; 3 messages, latencies on both sides of the timeout, one retry; one subject, one attempt per level, 3 incidents; checkpoints of 2 blocks; 2 keys and values; contracts over 1 to 4 replicas and up to 2 failures; all pairs of protocol rows on two links and some longer plans; 3 pairs; 4 nodes, 4 to 5 links; 4 machines, one broken or not | the wrong thread can be woken and a second sender waits; full and empty are adjacent; `select` can be overtaken; a message that is late, retried and answered twice; a chain of two dependencies; two contents with one text; odd and even numbers of replicas; every template beside every other |
| `programs` | 18 kinds of rows in programs of 4; all pairs of authority rows; structures of 4 and plans of 3 rows; tableaux of 2 qubits, 4 operations; 3 nodes, 5 ebits, 2 epochs; circuits of 3 rows over 20 kinds; pools of 3 error terms; short exposures | gain, loss, regain, use is four rows; every pair of gates on every overlap of wires; a swap of a swapped pair is the shortest chain; three terms have two groupings |
| `brvm_sync_fail`, `brvm_save_state`, `brvm_gen_wrap`, `channel_select`, `ebit_fidelity`, `collectives_broadcast`, `stabilizer_phase`, `contract_quorum` | as above | one violation each, section 6 |

What the passing runs show is stated before each property in its module. By group:
**vm** `RestartLoadsCommitted`, `AckedUpdateDurable`, `MemoryLeadsDisk`,
`RefinesRegister`, `AuthorityIsGranted`, `ArithmeticIsExact`, `WholeAndOnce`;
**fabric_engines**
`TasksAreSafe`, `ThunksRunOnce`, `TimersFireOnce`, `WalkIsComplete`, `DataflowIsSafe`,
`AlgorithmsAgree`, `DetectIsExact`, `LocatedWhereHeld`, `SuperstepsDeliver`,
`LogIsCausal`, `AdaptationIsSound`, `SignalsAreRelative`, `ReplicasConverge`; **services**
`NoLostWakeup`, `RefinesFifo`, `ReadyIsServed`, `DeliveryIsCausal`, `IncidentsEnd`, `RecoveryIsFaithful`,
`ContractIsSound`, `PlanIsOrdered`, `PumpingImproves`, `RoutesAreSound`,
`WitnessIsReference`; **programs** `AcceptedIsOwned`, `VerdictsAreSound`,
`ConflictsAreOrdered`, `ReportsAreTrue` (what analysis, planner, circuit and error
algebra report: paths, widths, partitions, schedules, depth, composed values,
exposure), `TableauIsExact`, `CircuitsRun`, `EbitsAccounted`, `NoFreeEntanglement`,
`SourcesAreKept`. Nodes of `EbitLedger` are symmetric in `programs` (none of its
properties is a liveness property).

Deadlock is not checked in the passing runs, because these systems really may stop:
clients use up their items, messages and attempts, a program ends, and waiting without
a timeout on an empty channel that nobody closes is legal.

Every cap on a counter is a constant named `Max...` in the guards; none stands for a
limit of the code unless its comment says so.

## 4. Fairness

Two properties are about what must happen. `ReadyIsServed` assumes weak fairness of
`Resume`, `TrySendGoesOn` and `TryReceiveGoesOn` of each thread: the interpreter keeps
running runnable threads and critical sections are short. Nothing forces a thread to
begin a call or a channel to be closed. `IncidentsEnd` assumes weak fairness of
`Decide`: `handle` is a loop that its caller waits for. Nothing forces an incident.

## 5. Proofs

TLAPS proves the theorems below for every value of the constants, from the named
assumptions of the modules, which TLC evaluates on every run. Each component has an
inductive invariant; TLC checked it before it was proved.

### VmProofs

* **Store** (`Invariance`, `TypeCorrect`, `RestartsWell`, `UpdatesLast`, `MemoryLeads`,
  `ImplementsRegister`), from `StoreAssumption`. `IInv` adds to the safety invariants
  what the code relies on at each file step and never states: no record on disk has a
  generation above the one in memory and memory is the chosen record but for a later
  txid (`MemoryFollows`); until the new image is durable an update writes the slot the
  chosen record does not name (`UpdateSafe`); between a record's rename and the sync
  recovery chooses it (`RecordSaved`); a missing record counts as generation 0.
  Without these a rename could hit the file of an older record that a power loss may
  still bring back. The refinement goes step by step: renames put a value that is no
  older, syncs harden, a power loss loses, everything else stutters.
* **Interpreter** (`InterpreterIsTyped`, `AuthorityStaysGranted`): an action property. Each
  instruction either keeps all capability masks or writes one that is contained in a
  mask the program already held. The host's steps between runs (reset, image load,
  UPDATE, recovery from a record of another session) grant anew, register 0 only and
  within the allowlist in force, which recovery cuts to the platform's (`WithinAllowlist`).
* **Session** (`SessionIsSound`, `CommandsArriveWholeAndOnce`): the buffer holds a
  prefix of the message its header names (`Reassembled`), the host is never ahead of
  what was applied (`HostInStep`), applied ids rise.

### ChannelProofs

`Invariance`, `TypeCorrect`, `CapacityHolds`, `WakeupsKept`, `ImplementsFifo`, from
`ChannelAssumption` (senders and receivers differ, at least one channel, capacity at
least one: `__init__` and `select` require it). `NoLostWakeup` is inductive only with
the fact that senders wait to send and receivers to receive. `NextKeeps` proves
invariance and the step simulation of `BoundedFifo` together.

### FabricProofs

* **Federation** (`FederationIsSound`, `WorkersAreLocated`): an object is in one place
  at most, and the names it carries are those of what it is in (`HandedOn`). The second
  needs the first: a worker in two groups would be found in one of them only.
* **Supersteps** (`MessagesAreDelivered`): with `FederationInv`, every message sent to a
  worker was taken by it or waits in its inbox, in order, and attempts only grow.
* **Task runtime** (`RuntimeIsSound`, `PayloadsAreOwnedOnce`, `FinishedStaysFinished`,
  `RuntimeKeepsItsPromise`):
  the stack of calls (`CallsSound`): running tasks are on it once; what a run found when
  it was called is still to do, finished or being executed (`RunsCover`); no call in
  progress can touch a task that was finished between two calls (`SettledIsOver`).
  `HeldIsLogged`: the owner table is what a replay of the log gives, and for payloads
  not yet consumed the tasks' lists agree with both. Replicas of a speculated task are
  tasks like others, and the loser of a race is cancelled like any other.
* **Event log** (`LogIsSound`, `LogAgreesWithCauses`): the causes of every event are
  closed (`PastsSound`); a component of a vector clock is the number of that node's
  events among the causes (`CountsTell`), so comparing clocks compares causes; the calls
  that may still append after the seal are those that had passed the test
  (`SealCounts`).
* **Worker pool** (`WalksMissNothing`): a walk that answers None found nothing in any deque;
  a walk or a direct steal raises only once the federation is not the one the deques were
  made for, and only then can a task be dropped between two deques.
* **Async engine** (`ThunksRun`): over all frames of nested drains a pending future is
  in one place (`KeptOnce`); what has run is no longer pending (`RunsInv`); a drain that
  makes no progress puts back only what waits (`NestedInv`); a pending future that is
  held nowhere was submitted by a thunk (a drain that returns overwrites the list) or was
  in the hands of a drain that raised. An action property.
* **Timer wheel** (`TimersAreCalled`): a timer whose tick is to come is in the slot of
  that tick (`Ahead`), a timer whose tick has passed was called, is in the hands of an
  advance under way, or comes after one of its tick whose callback raised
  (`PassedIsCalled`); a timer of delay 0 stays in its slot; for any number of slots, at
  least one.
* **Adaptation** (`AdaptationKeepsToObservations`): an average lies between the values
  seen because both its terms do; the grain is a division rounded up, so one less is too
  small; what the guard counts is the window of every record (`GuardInv`).
* **Deadlock detector** (`DeadlocksAreFound`), from `DetectorAssumption` (names are
  finitely many and ordered). The breadth-first search is a recursive function of its
  turns (`Search`), and what each turn keeps is the textbook argument: every node reached
  has a way from the start of distinct nodes (`WaysSound`); the queue is in order of
  distance, the last no more than one step behind the first (`QueueSound`); what has left
  it leads to nodes reached only and not back to the start (`PastSound`). A ring shorter
  than what is found would have to stay among the nodes that have left (`NoRound`). A node
  leaves once, so the search is over after as many turns as there are names.
* **Dataflow** (`RunsQuiesce`, `PayloadsAreNotCopied`, `RunsAreSafe`): a run that ends by itself went
  over every node in its last round and none could fire (`FlowInv`). A payload is in one
  place of one channel (`PlacesApart`) or in the hands of the node that fires
  (`HandApart`, `ResultsApart`), and the head a node was judged by is the one it takes
  (`HeadsGuarded`, `HandGuarded`). The second and third assume `NoRepeatedInput`; section
  7 says what happens otherwise.

### ServiceProofs

* **Transaction and checkpoints** (`RollbackRestores`, `LoadsReturnTheSaved`, both in
  `RecoveryGivesBack`): the
  journal is what the first call that touched a key found or declared (`Restorable`); a
  checksum that matches is of the same text, for any `Text`.
* **Feedback** (`FeedbackIsSound`, `CorrectionsFollowTheirBits`): edges of
  sends and retries lead to later ids (`EdgesInv`); dependencies have lower ids and were
  delivered by the time the message was sent (`DependsInv`); what a retry re-sends had
  timed out, undelivered, and the attempts are bounded (`ResendsInv`).
* **Pumping** (`PumpingAlwaysImproves`): for all fractions above one half; nonlinear, so
  the inequality is proved from products of differences.
* **Protocol plans** (`PlansAreOrdered`), for any links, programs and order of execution:
  what has run is closed under dependencies and in the order of the plan in every row and
  on every link (`PlanInv`); a step depends on earlier steps only, so the first that has
  not run can. A template's steps are found by their place in the row, so that the order
  inside a row and between the rows of a link is one lemma each.
* **Contracts** (`ContractsAreSound`): the rules that fire under a milder model fire under
  the harder one, case by case over the rules; what an admitted contract leaves alive is
  arithmetic over its replicas and failures: a quorum, unless exactly half of them fail.
* **Replicated data** (`MergesAreLawful`, `SetsConverge`): merges of all types are
  commutative, associative, idempotent and lose nothing, except for last-writer-wins
  under version vectors, where they are not (section 7). For GSet and ORSet the value of
  a replica is what its specification gives to the updates that reached it: tags stand
  for updates one to one (`Tagged`), over any gossip.

### ProgramProofs

* **Ledger** (`Invariance`, `TypeCorrect`, `EbitsSpentOnce`, `LineageHolds`,
  `LedgerBalances`, `EntanglementIsNotFree`), for any finite set of nodes, from
  `LedgerAssumption`. The type of a swapped pair needs that the symmetric difference of
  two pairs sharing one node is a pair; that nothing else was made from a swap's inputs
  needs that swapped pairs' parents are consumed. `EntanglementIsNotFree` is about every
  step and every cut of the nodes: a swap across a cut uses up at least as many pairs
  across it as it makes.
* **Verifier** (`VerifierIsSound`, `AcceptedProgramsOwn`), for any menu of rows, from
  `CellsAreRanges` (a cell `name[lo:hi]` repeats no key). As long as nothing was
  rejected: live records have different lineages, what a row gained is recorded, and
  what was lost for good is not live; so a use of it is rejected. Teleportation over two
  ranges that overlap is an induction over its keys (`Underway`): the next source is
  live, an earlier one is not unless a later key came back to it.
* **Event structure** (`StructureInvariant`, `ConflictsKeepTheirOrder`), for any menu of
  rows and any length of program, from `StructureAssumption` (an output cell names
  something). `build_ses` adds edges from the last writer, the last readers, the last use
  of a link and the producer of a cell only, and relies on paths for everything older.
  The invariant says why that is enough (`Remembered`): what is remembered of an object, a
  link or a cell comes after every row that used it. A reader of an object is either
  remembered itself or precedes the writer that is.
* **Circuits and runs** (`CircuitsAreSound`, `RunsAreDecided`), for any rows, length of
  program and memory, from `CircuitAssumption` (a row's cells are sequences of names):
  the engine has had its way with every operation before the next one, what it measured
  are the conditions later operations can have, and a substitution was caused by an
  operation the planned engine refuses (`RunInv`); what was reported so far splits into
  the reports of the operations so far (`ReportInv`), which a restart must empty. Whether
  an engine refuses an operation depends on the circuit alone (`RefusalIsSettled`), for
  the tableau's odd phases because its bits are a function of the operations so far
  (`OddPhase`): that turns the run's end into a statement about the program (`Simulable`),
  and a substitution into one about its operations and phases.
* **Error terms** (`CompositionInvariant`, `CompositionsKeepTheirSources`), for any finite
  set of declared terms, from `ErrorAssumption` (it is finite; epochs and levels are
  numbers). A term that claims independence, or is made of several, has sources that all
  claim it, unless a covariance or an approximation took part (`Claiming`): that is what
  makes the property survive regrouping.

Recursive functions (the moves of a teleportation, the turns of a search) are unfolded by an induction of
their own: the least length for which no function satisfies the recursion does not
exist (`SteppedExists`, `SearchedExists`).

### Only model-checked, and why

* Liveness (`ReadyIsServed`, `IncidentsEnd`): outside this prover.
* `AlgorithmsAgree`, `RoutesAreSound`: their modules use
  `RECURSIVE` operators (transfers, paths), with which tlapm loses its arithmetic
  backend; `WitnessIsReference` too, and exclusive or is `Bitwise`.
* `VerdictsAreSound`, `TableauIsExact`: finite semantics that TLC computes; a proof
  would be a case analysis over the gate tables.
* `ReportsAreTrue`: path lengths, matchings, partitions, schedules, layers and sums are
  what folds and recursive functions compute from data, which needs induction over data.
* `ArithmeticIsExact`, `SignalsAreRelative` and the counters and registers of
  `ReplicasConverge`: sums over sequences and sets, for the same reason.
* The violations of section 6, which are behaviours.

## 6. Findings

* `brvm_sync_fail`: the directory sync after a record's rename fails; memory is rolled
  back and SW_INTERNAL answered, but a restart finds the new record, and the next update
  overwrites the image it names.
* `brvm_save_state`: `brctl save-state` saves a VM that never recovered and overwrites
  record 1 with generation 1 and no image.
* `brvm_gen_wrap`: service 5 increments the generation without the overflow check.
* `channel_select`: `select` reports closed and empty while an item is queued.
* `ebit_fidelity`: a refused `herald` leaves its fidelity behind.
* `collectives_broadcast`: a tree broadcast from a root that is not rank 0 misses ranks.
* `stabilizer_phase`: after S and H a measurement raises on a well-formed tableau.
* `contract_quorum`: four replicas of which two may fail are admitted as LINEARIZABLE under
  partitions; C2 compares the failures with the quorum, not the survivors.

## 7. Where the code and its text differ, and how the model takes it

Met while modelling; the properties say what holds, and exclude these by name.

Fabric. A dataflow node that names one input channel twice is judged by the same head
twice (`fabric.py:1736`) and then takes two tokens, one of them never examined; `add_node`
does not forbid it (`NoRepeatedInput`). A tree SCAN's result is not carried by its
transfers (2354), and `select_algorithm`'s rule R2 speaks of an alltoall ring there is
not. A timer of delay zero is never called. A callback that
raises (2130) aborts `advance`: the later timers of its tick stay in a slot whose tick is
over. A drain that raises forgets the futures it had taken over, and one that returns
overwrites what its thunks submitted meanwhile (2215), although its docstring says
"Resolve every pending future" (`ForgottenForAReason`). `steal_specific` takes a task from
its victim before it looks up the thief's deque (3119): for a worker that came later the
task is gone. Edges that `clear_wait` and `resolve_future` leave behind still count. The straggler engine prefers the original to the first valid
completion; the loser of a race that is running is cancelled and then overwritten DONE
when its function returns. A worker without observations is judged by an average of 1.0
(`Average`), whatever the unit of the others. The second `adapt` on one runtime spawns its
probes under identities the runtime knows, and raises. BSP scopes are keyed by group id. The balancer's "weighted" round robin is
plain.

Protocols. `retry` may be repeated on one original, whatever `max_retries`. The quantum
router never chooses more than zero purification rounds and ignores the fidelity target;
`min_cost_flow` tries one path; the link cost's recurrence is not the one of `purify`.
`select` keeps a route by its recorded cost and ignores domains to avoid; `k_shortest`
bans the middle links of all candidates so far.

Replicated data. An even number of replicas of which half may fail is the one case in
which an admitted total order keeps no quorum (section 6; `AdmittedSurvives`). A last-writer-wins merge under version vectors with timestamps given by
the caller is not commutative (`crdt.py:423`). `ORSet.add` with a caller's tag is left
out: a reused tag breaks removal.

Recovery. A transaction restores a key that did not exist as None, and a prior value that
the caller recorded after a write becomes the live one; its docstring says "restored
exactly" (`resilience.py:696`). Payloads with one canonical text
(an int and a str key, a tuple and a list, an object and its repr) have one checksum
(`resilience.py:78`), so a change from one to the other loads as intact.

Language and planning. The oracle embeds CX(b, a) like CX(a, b), so `plan_rewrites` may
cancel two that do not undo each other (`Oriented` excludes them). A TELEPORT of type
qubit into a fresh OUT is always rejected; over overlapping ranges it silently loses a
state. BARRIER orders only the rows before it, and the scheduler ignores SERIALIZE.
CSWAP's second target is not marked written. A partition gap may be negative.

Circuits. An all-Clifford circuit with a `control`, a basis other than Z or a
parameter on a one-qubit gate is planned to the tableau and refused; the ledger build
falls back, `run` raises. So it does, in the middle of a circuit, when a measurement, reset
or preparation meets an odd phase (`simulator.py:891`, section 6). `classical_feedback` means protocol rows only. SAMPLE and
EXPECT always refuse. Three planned backends are never reached from
`Circuit.summary`. READOUT_ERROR, LEAKAGE, CROSSTALK, KRAUS_CHANNEL, a channel without PARAM
or a PAULI_CHANNEL with fewer than three numbers raise an error that escapes `_numerics` (status ESCAPED).

Error algebra. A small-error result composed again under "independent" is labelled exact;
a term of unknown correlation becomes independent by a composition of its own under
small error (`SourcesAreKept` excludes `approximate`). A standard deviation of a
probability becomes a dimensionless variance, and may then be added to one. Inconsistent correlations may
give a negative variance. A standard deviation in seconds keeps its unit; a composed
term loses its correlations.

## 8. Assumptions and what is left out

Assumptions on the surroundings. Directory updates reach the medium in order; one process
per prefix; the issuer key is set. The APDU host restarts the whole message after a lost
answer; a message has at least one fragment; decoded instructions are as `validate_insn`
leaves them. Queued tasks are READY; a federation's objects are put in one place at a
time; a route is released after it was reserved; no node is called `N_REMOTE`; a wheel has a slot; nobody sends a
payload that is already in flight; whoever feeds or drains dataflow channels acts between
rounds or inside a function (another thread that drains between `evaluate` and `receive`
is left out).

Left out: spawn of duplicate ids by two threads, execution profiles and timings;
Monte-Carlo error propagation; statevector and density amplitudes; coarsening of programs above eight rows,
topology construction; the conformance corpus, CLI, importers, gate tables and
manifests; ledgers other than the numerics. Two spawns with one id by two threads are
therefore not covered.

## 9. What could come next

The carries of `WordArithmetic` as folds unfolded like the moves of a teleportation or the
turns of a search; the paths of `Routing` as recursive functions; the counters and the LAMPORT registers of `Crdt`.
