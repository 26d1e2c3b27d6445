----------------------------- MODULE ServiceProofs -----------------------------
(* Proofs about the services: recovery transactions and checkpoints, the       *)
(* classical feedback fabric, entanglement pumping, the replicated data types, *)
(* whose merges are lawful and whose sets converge, the protocol compiler and  *)
(* the consistency contract.                                                   *)
EXTENDS ClassicalFeedback, CheckpointStore, ProtocolCompiler, Crdt, ConsistencyContract,
        FiniteSetTheorems, SequenceTheorems, WellFoundedInduction, TLAPS

-----------------------------------------------------------------------------
(* The recovery transaction.                                                 *)

\* The journal holds what can be restored of each key, and a key is live once a call has
\* touched it.
Calls == {NoCall} \cup [op : {"write"}] \cup [op : {"record"}, prior : Values]

KeyInv(k) == /\ first[k].op = "none"   => journal[k] = Unset /\ live[k] = Unset
             /\ first[k].op = "record" => journal[k] = first[k].prior
             /\ first[k].op = "write"  => journal[k] = Absent
             /\ first[k].op # "none"   => journal[k] # Unset /\ live[k] # Unset

TransactionInv ==
    /\ live \in [Keys -> Values \cup {Absent, Unset}]
    /\ journal \in [Keys -> Values \cup {Absent, Unset}]
    /\ first \in [Keys -> Calls]
    /\ \A k \in Keys : KeyInv(k)

LEMMA CallKinds ==
    ASSUME NEW call \in Calls
    PROVE  /\ call = NoCall <=> call.op = "none"
           /\ call.op \in {"none", "record", "write"}
           /\ call.op = "record" => call.prior \in Values
  BY DEF Calls, NoCall

\* A call that touches a key tells of a prior value if it is the first one.
LEMMA TouchKeepsJournal ==
    ASSUME TransactionInv, NEW k \in Keys, NEW prior \in Values \cup {Absent},
           NEW value \in Values \cup {Absent}, NEW call \in Calls, call # NoCall,
           call.op = "record" => call.prior = prior,
           call.op = "write" /\ live[k] = Unset => prior = Absent,
           Touch(call, k, prior, value)
    PROVE  TransactionInv'
<1>1. /\ journal' = [journal EXCEPT ![k] = FirstPrior(k, prior)]
      /\ live' = [live EXCEPT ![k] = value]
      /\ first' = [first EXCEPT ![k] = IF @ = NoCall THEN call ELSE @]
  BY DEF Touch
<1>2. Unset # Absent /\ prior # Unset /\ value # Unset
  BY TransactionAssumption DEF Unset, Absent
<1>3. FirstPrior(k, prior) \in Values \cup {Absent, Unset}
  BY DEF FirstPrior, TransactionInv
<1>4. /\ live' \in [Keys -> Values \cup {Absent, Unset}]
      /\ journal' \in [Keys -> Values \cup {Absent, Unset}]
      /\ first' \in [Keys -> Calls]
  BY <1>1, <1>3 DEF TransactionInv
<1>5. ASSUME NEW j \in Keys
      PROVE  KeyInv(j)'
  <2>1. CASE j # k
    <3>1. journal'[j] = journal[j] /\ live'[j] = live[j] /\ first'[j] = first[j]
      BY <1>1, <2>1 DEF TransactionInv
    <3> QED
      BY <3>1 DEF KeyInv, TransactionInv
  <2>2. CASE j = k
    <3>1. /\ journal'[k] = FirstPrior(k, prior) /\ live'[k] = value
          /\ first'[k] = IF first[k] = NoCall THEN call ELSE first[k]
      BY <1>1 DEF TransactionInv
    <3>2. /\ first[k] = NoCall <=> first[k].op = "none"
          /\ call.op \in {"record", "write"}
      BY CallKinds DEF TransactionInv
    <3>3. KeyInv(k)
      BY DEF TransactionInv
    <3>4. CASE first[k] = NoCall
      <4>1. FirstPrior(k, prior) = prior /\ live[k] = Unset /\ first'[k] = call
        BY <3>1, <3>2, <3>3, <3>4 DEF FirstPrior, KeyInv
      <4> QED
        BY <1>2, <2>2, <3>1, <3>2, <4>1 DEF KeyInv
    <3>5. CASE first[k] # NoCall
      <4>1. FirstPrior(k, prior) = journal[k] /\ first'[k] = first[k]
        BY <3>1, <3>2, <3>3, <3>5 DEF FirstPrior, KeyInv
      <4> QED
        BY <1>2, <2>2, <3>1, <3>2, <3>3, <3>5, <4>1 DEF KeyInv
    <3> QED
      BY <3>4, <3>5
  <2> QED
    BY <2>1, <2>2
<1> QED
  BY <1>4, <1>5 DEF TransactionInv

LEMMA TransactionIsSound == TransactionSpec => []TransactionInv
<1>1. TransactionInit => TransactionInv
  BY DEF TransactionInit, TransactionInv, KeyInv, Calls, NoCall
<1>2. TransactionInv /\ [TransactionNext]_transactionVars => TransactionInv'
  <2> SUFFICES ASSUME TransactionInv, [TransactionNext]_transactionVars
               PROVE  TransactionInv'
    OBVIOUS
  <2>1. CASE \E k \in Keys, v \in Values : RecordClassical(k, v) \/ Write(k, v)
    <3>1. PICK k \in Keys, v \in Values : RecordClassical(k, v) \/ Write(k, v)
      BY <2>1
    <3>2. CASE RecordClassical(k, v)
      <4> DEFINE call == [op |-> "record", prior |-> v]
      <4>1. /\ call \in Calls /\ call # NoCall /\ call.op = "record" /\ call.prior = v
            /\ Touch(call, k, v, v)
        BY <3>2 DEF RecordClassical, Calls, NoCall
      <4> HIDE DEF call
      <4> QED
        BY <4>1, TouchKeepsJournal
    <3>3. CASE Write(k, v)
      <4> DEFINE call == [op |-> "write"]
      <4>1. ValueOf(k) \in Values \cup {Absent} /\ (live[k] = Unset => ValueOf(k) = Absent)
        BY DEF ValueOf, TransactionInv
      <4>2. /\ call \in Calls /\ call # NoCall /\ call.op = "write"
            /\ Touch(call, k, ValueOf(k), v)
        BY <3>3 DEF Write, Calls, NoCall
      <4> HIDE DEF call
      <4> QED
        BY <4>1, <4>2, TouchKeepsJournal
    <3> QED
      BY <3>1, <3>2, <3>3
  <2>2. CASE \E k \in Keys, known \in {"known", "unknown"} : RegisterQuantum(k, known)
    BY <2>2 DEF RegisterQuantum, TransactionInv, KeyInv
  <2>3. CASE Commit \/ Refuse
    BY <2>3 DEF Commit, Refuse, TransactionInv, KeyInv
  <2>4. CASE Rollback
    <3>1. /\ live' = [k \in Keys |-> IF journal[k] = Unset THEN live[k] ELSE journal[k]]
          /\ UNCHANGED <<journal, first>>
      BY <2>4 DEF Rollback
    <3> QED
      BY <3>1 DEF TransactionInv, KeyInv
  <2>5. CASE UNCHANGED transactionVars
    BY <2>5 DEF transactionVars, TransactionInv, KeyInv
  <2> QED
    BY <2>1, <2>2, <2>3, <2>4, <2>5 DEF TransactionNext
<1> QED
  BY <1>1, <1>2, PTL DEF TransactionSpec

\* A rollback restores of every key what its first call allows or leaves every write in
\* place, and nothing changes after the end: the journal keeps what the first call declared
\* (TransactionInv), whatever was written and recorded since.
THEOREM RollbackRestores == TransactionSpec => RollbackIsAllOrNothing
<1> DEFINE Step == /\ state' = "ROLLED_BACK" /\ state = "OPEN" =>
                         /\ \A k \in Keys : quantum[k] # "unknown"
                         /\ \A k \in Keys : live'[k] = Restorable(k)
                   /\ state' = "REFUSED" \/ state # "OPEN" => live' = live
<1>1. TransactionInv /\ [TransactionNext]_transactionVars => [Step]_transactionVars
  <2> SUFFICES ASSUME TransactionInv, TransactionNext
               PROVE  Step
    OBVIOUS
  <2>1. CASE \E k \in Keys, v \in Values : RecordClassical(k, v) \/ Write(k, v)
    BY <2>1 DEF RecordClassical, Write, Touch
  <2>2. CASE \E k \in Keys, known \in {"known", "unknown"} : RegisterQuantum(k, known)
    BY <2>2 DEF RegisterQuantum
  <2>3. CASE Commit \/ Refuse
    BY <2>3 DEF Commit, Refuse
  <2>4. CASE Rollback
    <3>1. /\ state = "OPEN" /\ state' = "ROLLED_BACK" /\ \A k \in Keys : quantum[k] # "unknown"
          /\ live' = [k \in Keys |-> IF journal[k] = Unset THEN live[k] ELSE journal[k]]
      BY <2>4 DEF Rollback, NoUnknown
    <3>2. ASSUME NEW k \in Keys
          PROVE  live'[k] = Restorable(k)
      <4>1. first[k].op \in {"none", "record", "write"} /\ KeyInv(k)
        BY CallKinds DEF TransactionInv
      <4> QED
        BY <3>1, <4>1 DEF KeyInv, Restorable
    <3> QED
      BY <3>1, <3>2
  <2> QED
    BY <2>1, <2>2, <2>3, <2>4 DEF TransactionNext
<1> QED
  BY <1>1, TransactionIsSound, PTL DEF TransactionSpec, RollbackIsAllOrNothing

-----------------------------------------------------------------------------
(* Checkpoints.                                                              *)

Contents == Classical \cup {Quantum}
Texts == {Text(c) : c \in Contents}
Checksum == [of : Texts, damaged : BOOLEAN]
Entry    == [kind : {"ir", "prep"}, blocks : Seq(Checksum)]
SaveRecord == [kind : {"ir", "prep"}, known : BOOLEAN, payload : Seq(Contents)]

\* What the store holds is of what was saved, damaged or not, and a save of quantum state
\* declared its preparation known.
IsOf(entry, s) ==
    /\ entry \in Entry /\ s \in SaveRecord
    /\ Len(entry.blocks) = Len(s.payload)
    /\ \A i \in 1 .. Len(s.payload) : entry.blocks[i].of = Text(s.payload[i])
    /\ IsQuantumPayload(s.payload) => s.kind = "prep" /\ s.known

CheckpointInv ==
    /\ payload \in Seq(Contents)
    /\ store \in [Ids -> Entry \cup {Missing}] /\ saved \in [Ids -> SaveRecord \cup {Missing}]
    /\ \A id \in Ids : store[id] # Missing => IsOf(store[id], saved[id])

LEMMA FunctionsAreSequences == ASSUME NEW S, NEW n \in Nat PROVE [1 .. n -> S] \subseteq Seq(S)
  OBVIOUS

LEMMA LengthIsDomain ==
    ASSUME NEW S, NEW s \in Seq(S), NEW n \in Nat, DOMAIN s = 1 .. n
    PROVE  Len(s) = n
  OBVIOUS

LEMMA PayloadsAreSequences == Payloads \subseteq Seq(Contents)
  BY CheckpointAssumption DEF Payloads, Contents

LEMMA ChecksumsOf ==
    ASSUME NEW p \in Seq(Contents)
    PROVE  /\ Checksums(p) \in Seq(Checksum) /\ Len(Checksums(p)) = Len(p)
           /\ \A i \in 1 .. Len(p) : Checksums(p)[i].of = Text(p[i])
<1>1. DOMAIN p = 1 .. Len(p) /\ Len(p) \in Nat
  OBVIOUS
<1>2. Checksums(p) = [i \in 1 .. Len(p) |-> [of |-> Text(p[i]), damaged |-> FALSE]]
  BY <1>1 DEF Checksums
<1>3. \A i \in 1 .. Len(p) : [of |-> Text(p[i]), damaged |-> FALSE] \in Checksum
  BY <1>1 DEF Checksum, Texts
<1> QED
  BY <1>1, <1>2, <1>3

LEMMA SaveKeeps ==
    ASSUME CheckpointInv, NEW id \in Ids, NEW what \in {"ir", "prep"}, NEW known \in BOOLEAN,
           Save(id, what, known)
    PROVE  CheckpointInv'
<1> DEFINE entry == [kind |-> what, blocks |-> Checksums(payload)]
           s == [kind |-> what, known |-> known, payload |-> payload]
<1>1. entry \in Entry /\ s \in SaveRecord
  BY ChecksumsOf DEF CheckpointInv, Entry, SaveRecord
<1>2. IsOf(entry, s)
  <2>1. entry.blocks = Checksums(payload) /\ s.payload = payload /\ s.kind = what /\ s.known = known
    OBVIOUS
  <2>2. IsQuantumPayload(payload) => what = "prep" /\ known
    BY DEF Save, Admissible
  <2> HIDE DEF entry, s
  <2> QED
    BY <1>1, <2>1, <2>2, ChecksumsOf DEF IsOf, CheckpointInv
<1>3. /\ store' = [store EXCEPT ![id] = entry] /\ saved' = [saved EXCEPT ![id] = s]
      /\ payload' = payload
  BY DEF Save
<1> HIDE DEF entry, s
<1>4. /\ store' \in [Ids -> Entry \cup {Missing}] /\ saved' \in [Ids -> SaveRecord \cup {Missing}]
  BY <1>1, <1>3 DEF CheckpointInv
<1>5. ASSUME NEW k \in Ids, store'[k] # Missing
      PROVE  IsOf(store'[k], saved'[k])
  <2>1. CASE k = id
    <3>1. store'[k] = entry /\ saved'[k] = s
      BY <1>3, <2>1 DEF CheckpointInv
    <3> QED
      BY <1>2, <3>1
  <2>2. CASE k # id
    <3>1. store'[k] = store[k] /\ saved'[k] = saved[k]
      BY <1>3, <2>2 DEF CheckpointInv
    <3> QED
      BY <1>5, <3>1 DEF CheckpointInv
  <2> QED
    BY <2>1, <2>2
<1> QED
  BY <1>3, <1>4, <1>5 DEF CheckpointInv

\* Damage to a checksum keeps what the checksum is of.
LEMMA DamageKeeps ==
    ASSUME NEW entry \in Entry, NEW s, IsOf(entry, s), NEW i \in DOMAIN entry.blocks
    PROVE  IsOf([entry EXCEPT !.blocks[i].damaged = TRUE], s)
<1> DEFINE sum == [entry.blocks[i] EXCEPT !.damaged = TRUE]
           sums == [entry.blocks EXCEPT ![i] = sum]
           new == [entry EXCEPT !.blocks = sums]
<1>1. new = [entry EXCEPT !.blocks[i].damaged = TRUE]
  OBVIOUS
<1>2. entry.blocks \in Seq(Checksum) /\ i \in 1 .. Len(entry.blocks) /\ entry.kind \in {"ir", "prep"}
  BY DEF Entry
<1>3. sum \in Checksum /\ sum.of = entry.blocks[i].of
  <2> DEFINE b == entry.blocks[i]
  <2>1. b \in Checksum
    BY <1>2
  <2> HIDE DEF b
  <2>2. [b EXCEPT !.damaged = TRUE] \in Checksum /\ [b EXCEPT !.damaged = TRUE].of = b.of
    BY <2>1 DEF Checksum
  <2> QED
    BY <2>2 DEF b
<1> HIDE DEF sum
<1>4. /\ sums \in Seq(Checksum) /\ Len(sums) = Len(entry.blocks)
      /\ \A j \in 1 .. Len(entry.blocks) : sums[j].of = entry.blocks[j].of
  BY <1>2, <1>3
<1> HIDE DEF sums
<1>5. new \in Entry /\ new.blocks = sums
  BY <1>2, <1>4 DEF Entry
<1> HIDE DEF new
<1>6. IsOf(new, s)
  BY <1>4, <1>5 DEF IsOf, SaveRecord
<1> QED
  BY <1>1, <1>6

LEMMA CorruptKeeps ==
    ASSUME CheckpointInv, NEW id \in Ids, NEW i, Corrupt(id, i)
    PROVE  CheckpointInv'
<1> DEFINE new == [store[id] EXCEPT !.blocks[i].damaged = TRUE]
<1>1. store[id] \in Entry /\ IsOf(store[id], saved[id]) /\ i \in DOMAIN store[id].blocks
  BY DEF Corrupt, CheckpointInv
<1>2. IsOf(new, saved[id])
  BY <1>1, DamageKeeps
<1>3. store' = [store EXCEPT ![id] = new] /\ payload' = payload /\ saved' = saved
  BY DEF Corrupt
<1> HIDE DEF new
<1>4. new \in Entry
  BY <1>2 DEF IsOf
<1>5. \A k \in Ids : store'[k] = IF k = id THEN new ELSE store[k]
  BY <1>3 DEF CheckpointInv
<1>6. store' \in [Ids -> Entry \cup {Missing}]
  BY <1>3, <1>4 DEF CheckpointInv
<1>7. \A k \in Ids : store'[k] # Missing => IsOf(store'[k], saved[k])
  BY <1>2, <1>5 DEF CheckpointInv
<1> QED
  BY <1>3, <1>6, <1>7 DEF CheckpointInv

LEMMA CheckpointsAreSound == CheckpointSpec => []CheckpointInv
<1>1. CheckpointInit => CheckpointInv
  <2> SUFFICES ASSUME CheckpointInit
               PROVE  CheckpointInv
    OBVIOUS
  <2>1. payload \in Seq(Contents)
    <3>1. payload \in [1 .. 1 -> Contents]
      BY DEF CheckpointInit, Contents
    <3> QED
      BY <3>1, FunctionsAreSequences
  <2>2. /\ store = [id \in Ids |-> Missing] /\ saved = [id \in Ids |-> Missing]
    BY DEF CheckpointInit
  <2>3. \A id \in Ids : store[id] = Missing
    BY <2>2
  <2> QED
    BY <2>1, <2>2, <2>3 DEF CheckpointInv
<1>2. CheckpointInv /\ [CheckpointNext]_checkpointVars => CheckpointInv'
  <2> SUFFICES ASSUME CheckpointInv, [CheckpointNext]_checkpointVars
               PROVE  CheckpointInv'
    OBVIOUS
  <2>1. CASE \E p \in Payloads : Change(p)
    BY <2>1, PayloadsAreSequences DEF Change, CheckpointInv
  <2>2. CASE \E id \in Ids : Load(id)
    BY <2>2 DEF Load, CheckpointInv
  <2>3. CASE \E id \in Ids : \E i \in 1 .. MaxBlocks : Corrupt(id, i)
    BY <2>3, CorruptKeeps
  <2>4. CASE \E id \in Ids : \E what \in {"ir", "prep"}, known \in BOOLEAN : Save(id, what, known)
    BY <2>4, SaveKeeps
  <2>5. CASE UNCHANGED checkpointVars
    BY <2>5 DEF checkpointVars, CheckpointInv
  <2> QED
    BY <2>1, <2>2, <2>3, <2>4, <2>5 DEF CheckpointNext
<1> QED
  BY <1>1, <1>2, PTL DEF CheckpointSpec

\* What verify accepts has the text of the payload of the save, block by block, although
\* the object is the client's and whatever contents share a text: the checksums that are
\* left whole are of the texts of the saved payload's blocks.
THEOREM LoadsReturnTheSaved == CheckpointSpec => LoadedIsSaved
<1> DEFINE Step == loaded' # loaded =>
                      LET s == saved[loaded'.id]
                      IN  /\ Len(loaded'.value) = Len(s.payload)
                          /\ \A i \in DOMAIN s.payload : Text(loaded'.value[i]) = Text(s.payload[i])
                          /\ IsQuantumPayload(s.payload) => s.kind = "prep" /\ s.known
<1>1. CheckpointInv /\ [CheckpointNext]_checkpointVars => [Step]_checkpointVars
  <2> SUFFICES ASSUME CheckpointInv, CheckpointNext, loaded' # loaded
               PROVE  Step
    OBVIOUS
  <2>1. PICK id \in Ids : Load(id)
    BY DEF CheckpointNext, Change, Corrupt, Save
  <2>2. loaded'.id = id /\ loaded'.value = payload
    BY <2>1 DEF Load
  <2>3. IsOf(store[id], saved[id]) /\ Verified(store[id].blocks)
    BY <2>1 DEF Load, CheckpointInv
  <2> DEFINE blocks == store[id].blocks
             s == saved[id]
  <2>4. /\ payload \in Seq(Contents) /\ s.payload \in Seq(Contents)
        /\ Len(payload) = Len(s.payload)
    BY <2>3 DEF IsOf, SaveRecord, Verified, CheckpointInv
  <2>5. \A i \in 1 .. Len(payload) : Text(payload[i]) = Text(s.payload[i])
    BY <2>3, <2>4 DEF IsOf, Verified, Matches
  <2>6. DOMAIN s.payload = 1 .. Len(payload)
    BY <2>4
  <2> QED
    BY <2>2, <2>3, <2>4, <2>5, <2>6 DEF IsOf
<1> QED
  BY <1>1, CheckpointsAreSound, PTL DEF CheckpointSpec, LoadedIsSaved

\* What recovery gives back is what it was given, from the checkpoint store and from the
\* transaction (CheckpointStore.load, RecoveryTransaction.rollback).
THEOREM RecoveryGivesBack == CheckpointSpec /\ TransactionSpec => RecoveryIsFaithful
<1> QED
  BY LoadsReturnTheSaved, RollbackRestores DEF RecoveryIsFaithful

-----------------------------------------------------------------------------
(* The classical feedback fabric.                                            *)

\* What the state of a message says of its times.
TimesInv ==
    \A m \in MessageIds :
        /\ messages[m].state = "DELIVERED" => messages[m].delivered
        /\ messages[m].state \in {"SENT", "TIMED_OUT"} => ~ messages[m].delivered
        /\ messages[m].delivered => /\ messages[m].deliverTime >= Arrival(m)
                                    /\ messages[m].latency <= Timeout
        /\ messages[m].state = "TIMED_OUT" => clock >= messages[m].sendTime + Timeout

\* What a message depends on came first, and had been delivered when it was sent.
DependsInv ==
    \A m \in MessageIds : \A d \in messages[m].dependsOn :
        /\ d \in MessageIds /\ d < m /\ messages[d].delivered
        /\ messages[d].deliverTime <= messages[m].sendTime

\* The edges of send and retry go from an earlier message to a later one; a client's join two.
EdgesInv ==
    /\ \A e \in causalEdges \ added :
          e[1] < e[2] /\ messages[e[1]].sendTime <= messages[e[2]].sendTime
    /\ \A e \in added : e[1] # e[2]

\* What a message re-sends had timed out; it may have been dropped since.
ResendsInv ==
    \A m \in MessageIds :
        /\ messages[m].attempts <= MaxRetries + 1
        /\ messages[m].of # 0 =>
              LET o == messages[m].of
              IN  /\ o \in MessageIds /\ messages[m].attempts = messages[o].attempts + 1
                  /\ messages[o].state \in {"TIMED_OUT", "DROPPED"} /\ ~ messages[o].delivered
                  /\ messages[m].sendTime >= messages[o].sendTime + Timeout

FeedbackInv == TypeOK /\ TimesInv /\ DependsInv /\ EdgesInv /\ ResendsInv

\* How a step changes the messages there are: what was given at the send stays, a delivery
\* stays with its time, and what has timed out or was dropped is never delivered.
Settles(k) ==
    /\ messages'[k].sendTime = messages[k].sendTime /\ messages'[k].latency = messages[k].latency
    /\ messages'[k].attempts = messages[k].attempts /\ messages'[k].of = messages[k].of
    /\ messages'[k].dependsOn = messages[k].dependsOn
    /\ messages[k].delivered => /\ messages'[k].delivered
                                /\ messages'[k].deliverTime = messages[k].deliverTime
    /\ messages[k].state \in {"TIMED_OUT", "DROPPED"} /\ ~ messages[k].delivered =>
          messages'[k].state \in {"TIMED_OUT", "DROPPED"} /\ ~ messages'[k].delivered

Settle == /\ messages' \in Seq(Message) /\ Len(messages') = Len(messages)
          /\ \A k \in MessageIds : Settles(k)

Post(at, attempts, deps, of) ==
    /\ messages' \in Seq(Message) /\ Len(messages') = Len(messages) + 1
    /\ \A k \in MessageIds : messages'[k] = messages[k]
    /\ LET new == messages'[Len(messages) + 1]
       IN  /\ new.state = "SENT" /\ new.sendTime = at /\ new.attempts = attempts
           /\ new.dependsOn = deps /\ new.of = of /\ ~ new.delivered

LEMMA MessageTyped ==
    ASSUME messages \in Seq(Message), NEW m \in MessageIds
    PROVE  /\ messages[m] \in Message
           /\ messages[m].state \in States /\ messages[m].sendTime \in Nat
           /\ messages[m].latency \in Nat /\ messages[m].attempts \in Nat
           /\ messages[m].dependsOn \in SUBSET (1 .. MaxMessages) /\ messages[m].of \in 0 .. MaxMessages
           /\ messages[m].delivered \in BOOLEAN /\ messages[m].deliverTime \in Nat
<1>1. messages[m] \in Message
  BY DEF MessageIds
<1> QED
  BY <1>1, FeedbackAssumption DEF Message

\* Changing the fields of one message.
LEMMA ReplacedMessage ==
    ASSUME messages \in Seq(Message), NEW m \in MessageIds, NEW new \in Message,
           messages' = [messages EXCEPT ![m] = new]
    PROVE  /\ messages' \in Seq(Message) /\ Len(messages') = Len(messages)
           /\ messages'[m] = new /\ \A k \in MessageIds \ {m} : messages'[k] = messages[k]
  BY ExceptSeq DEF MessageIds

LEMMA SettleOthers ==
    ASSUME messages \in Seq(Message), NEW k \in MessageIds, messages'[k] = messages[k]
    PROVE  Settles(k)
  BY DEF Settles

\* receive's timeout, retry's and drop's way to DROPPED: nothing but the state.
LEMMA SetStateSettles ==
    ASSUME messages \in Seq(Message), NEW m \in MessageIds, NEW s \in {"TIMED_OUT", "DROPPED"},
           SetState(m, s)
    PROVE  /\ Settle /\ \A k \in MessageIds \ {m} : messages'[k] = messages[k]
           /\ messages'[m].state = s /\ messages'[m].delivered = messages[m].delivered
           /\ messages'[m].deliverTime = messages[m].deliverTime
<1> DEFINE old == messages[m]
           new == [old EXCEPT !.state = s]
<1>1. old \in Message
  BY MessageTyped
<1>2. messages' = [messages EXCEPT ![m] = new]
  BY DEF SetState
<1> HIDE DEF old
<1>3. new \in Message
  BY <1>1 DEF Message, States
<1>4. /\ new.state = s /\ new.sendTime = old.sendTime /\ new.latency = old.latency
      /\ new.attempts = old.attempts /\ new.of = old.of /\ new.dependsOn = old.dependsOn
      /\ new.delivered = old.delivered /\ new.deliverTime = old.deliverTime
  BY <1>1 DEF Message
<1> HIDE DEF new
<1>5. /\ messages' \in Seq(Message) /\ Len(messages') = Len(messages)
      /\ messages'[m] = new /\ \A k \in MessageIds \ {m} : messages'[k] = messages[k]
  BY <1>2, <1>3, ReplacedMessage
<1>6. Settles(m)
  BY <1>4, <1>5 DEF Settles, old
<1>7. \A k \in MessageIds : Settles(k)
  BY <1>5, <1>6, SettleOthers
<1> QED
  BY <1>4, <1>5, <1>7 DEF Settle, old

LEMMA DeliverSettles ==
    ASSUME messages \in Seq(Message), clock \in Nat, NEW m \in MessageIds, Deliver(m),
           ~ messages[m].delivered
    PROVE  /\ Settle /\ \A k \in MessageIds \ {m} : messages'[k] = messages[k]
           /\ messages'[m].state = "DELIVERED" /\ messages'[m].delivered
           /\ messages'[m].deliverTime = clock' /\ clock' \in Nat
           /\ clock' >= clock /\ clock' >= Arrival(m)
<1> DEFINE old == messages[m]
           at == DeliveryTime(m)
           new == [old EXCEPT !.state = "DELIVERED", !.delivered = TRUE, !.deliverTime = at]
<1>1. old \in Message /\ old.state = "SENT" /\ ~ old.delivered
  BY MessageTyped DEF Deliver, Receivable
<1>2. messages' = [messages EXCEPT ![m] = new] /\ clock' = at
  BY DEF Deliver
<1>3. at \in Nat /\ at >= clock /\ at >= Arrival(m)
  BY MessageTyped DEF DeliveryTime, Later, Arrival
<1> HIDE DEF old, at
<1>4. new \in Message
  BY <1>1, <1>3 DEF Message, States
<1>5. /\ new.state = "DELIVERED" /\ new.sendTime = old.sendTime /\ new.latency = old.latency
      /\ new.attempts = old.attempts /\ new.of = old.of /\ new.dependsOn = old.dependsOn
      /\ new.delivered /\ new.deliverTime = at
  BY <1>1 DEF Message
<1> HIDE DEF new
<1>6. /\ messages' \in Seq(Message) /\ Len(messages') = Len(messages)
      /\ messages'[m] = new /\ \A k \in MessageIds \ {m} : messages'[k] = messages[k]
  BY <1>2, <1>4, ReplacedMessage
<1>7. Settles(m)
  BY <1>1, <1>5, <1>6 DEF Settles, old
<1>8. \A k \in MessageIds : Settles(k)
  BY <1>6, <1>7, SettleOthers
<1> QED
  BY <1>2, <1>3, <1>5, <1>6, <1>8 DEF Settle

LEMMA AppendPosts ==
    ASSUME messages \in Seq(Message), NEW at \in Nat, NEW latency \in Latencies, NEW attempts \in Nat,
           NEW deps \in SUBSET (1 .. MaxMessages), NEW of \in 0 .. MaxMessages,
           messages' = Append(messages, Sent(at, latency, attempts, deps, of))
    PROVE  Post(at, attempts, deps, of)
<1> DEFINE new == Sent(at, latency, attempts, deps, of)
<1>1. new \in Message
  BY DEF Sent, Message, States
<1>2. /\ new.state = "SENT" /\ new.sendTime = at /\ new.attempts = attempts
      /\ new.dependsOn = deps /\ new.of = of /\ ~ new.delivered
  BY DEF Sent
<1> HIDE DEF new
<1>3. /\ messages' \in Seq(Message) /\ Len(messages') = Len(messages) + 1
      /\ \A k \in 1 .. Len(messages) : messages'[k] = messages[k]
      /\ messages'[Len(messages) + 1] = new
  BY <1>1, AppendProperties DEF new
<1> QED
  BY <1>2, <1>3 DEF Post, MessageIds

LEMMA SettleKeeps ==
    ASSUME FeedbackInv, Settle, causalEdges' = causalEdges, added' = added
    PROVE  /\ MessageIds' = MessageIds /\ causalEdges' \subseteq (MessageIds \X MessageIds)'
           /\ DependsInv' /\ EdgesInv' /\ ResendsInv'
<1>1. MessageIds' = MessageIds /\ messages \in Seq(Message) /\ causalEdges \subseteq MessageIds \X MessageIds
  BY DEF Settle, MessageIds, FeedbackInv, TypeOK
<1>2. DependsInv'
  <2> SUFFICES ASSUME NEW m \in MessageIds, NEW d \in messages'[m].dependsOn
               PROVE  /\ d \in MessageIds /\ d < m /\ messages'[d].delivered
                      /\ messages'[d].deliverTime <= messages'[m].sendTime
    BY <1>1 DEF DependsInv
  <2>1. Settles(m)
    BY DEF Settle
  <2>2. /\ d \in MessageIds /\ d < m /\ messages[d].delivered
        /\ messages[d].deliverTime <= messages[m].sendTime
    BY <2>1 DEF Settles, FeedbackInv, DependsInv
  <2>3. Settles(d)
    BY <2>2 DEF Settle
  <2> QED
    BY <2>1, <2>2, <2>3 DEF Settles
<1>3. EdgesInv'
  <2> SUFFICES ASSUME NEW e \in causalEdges \ added
               PROVE  e[1] < e[2] /\ messages'[e[1]].sendTime <= messages'[e[2]].sendTime
    BY DEF EdgesInv, FeedbackInv
  <2>1. e[1] \in MessageIds /\ e[2] \in MessageIds
    BY <1>1
  <2>2. Settles(e[1]) /\ Settles(e[2])
    BY <2>1 DEF Settle
  <2>3. e[1] < e[2] /\ messages[e[1]].sendTime <= messages[e[2]].sendTime
    BY DEF FeedbackInv, EdgesInv
  <2> QED
    BY <2>2, <2>3 DEF Settles
<1>4. ResendsInv'
  <2> SUFFICES ASSUME NEW m \in MessageIds
               PROVE  /\ messages'[m].attempts <= MaxRetries + 1
                      /\ messages'[m].of # 0 =>
                            LET o == messages'[m].of
                            IN  /\ o \in MessageIds /\ messages'[m].attempts = messages'[o].attempts + 1
                                /\ messages'[o].state \in {"TIMED_OUT", "DROPPED"} /\ ~ messages'[o].delivered
                                /\ messages'[m].sendTime >= messages'[o].sendTime + Timeout
    BY <1>1 DEF ResendsInv
  <2> DEFINE o == messages[m].of
  <2>1. Settles(m)
    BY DEF Settle
  <2>2. messages[m].attempts <= MaxRetries + 1
    BY DEF FeedbackInv, ResendsInv
  <2>3. ASSUME o # 0
        PROVE  /\ o \in MessageIds /\ messages[m].attempts = messages[o].attempts + 1
               /\ messages[o].state \in {"TIMED_OUT", "DROPPED"} /\ ~ messages[o].delivered
               /\ messages[m].sendTime >= messages[o].sendTime + Timeout
    BY <2>3 DEF FeedbackInv, ResendsInv
  <2>4. ASSUME o # 0 PROVE Settles(o)
    BY <2>3, <2>4 DEF Settle
  <2>5. messages'[m].of = o /\ messages'[m].attempts <= MaxRetries + 1
    BY <2>1, <2>2 DEF Settles
  <2>6. ASSUME o # 0
        PROVE  /\ o \in MessageIds /\ messages'[m].attempts = messages'[o].attempts + 1
               /\ messages'[o].state \in {"TIMED_OUT", "DROPPED"} /\ ~ messages'[o].delivered
               /\ messages'[m].sendTime >= messages'[o].sendTime + Timeout
    BY <2>1, <2>3, <2>4, <2>6 DEF Settles
  <2> QED
    BY <2>5, <2>6
<1> QED
  BY <1>1, <1>2, <1>3, <1>4

LEMMA SetStateKeeps ==
    ASSUME FeedbackInv, NEW m \in MessageIds, NEW s \in {"TIMED_OUT", "DROPPED"}, SetState(m, s),
           clock' \in Nat, clock' >= clock, causalEdges' = causalEdges, added' = added,
           s = "TIMED_OUT" => /\ clock' >= messages[m].sendTime + Timeout
                              /\ messages[m].state = "SENT"
    PROVE  FeedbackInv'
<1>1. messages \in Seq(Message) /\ clock \in Nat
  BY DEF FeedbackInv, TypeOK
<1>2. /\ Settle /\ \A k \in MessageIds \ {m} : messages'[k] = messages[k]
      /\ messages'[m].state = s /\ messages'[m].delivered = messages[m].delivered
      /\ messages'[m].deliverTime = messages[m].deliverTime
  BY <1>1, SetStateSettles
<1>3. /\ MessageIds' = MessageIds /\ causalEdges' \subseteq (MessageIds \X MessageIds)'
      /\ DependsInv' /\ EdgesInv' /\ ResendsInv'
  BY <1>2, SettleKeeps
<1>4. \A k \in MessageIds : messages[k].delivered => messages[k].deliverTime <= clock
  BY DEF FeedbackInv, TypeOK
<1>5. \A k \in MessageIds : messages'[k].delivered => messages'[k].deliverTime <= clock'
  <2> SUFFICES ASSUME NEW k \in MessageIds, messages'[k].delivered
               PROVE  messages'[k].deliverTime <= clock'
    OBVIOUS
  <2>1. messages[k].delivered /\ messages'[k].deliverTime = messages[k].deliverTime
    BY <1>2
  <2>2. messages[k].deliverTime \in Nat
    BY <1>1, MessageTyped
  <2>3. messages[k].deliverTime <= clock
    BY <1>4, <2>1
  <2> QED
    BY <1>1, <2>1, <2>2, <2>3
<1>6. TypeOK'
  BY <1>2, <1>3, <1>5 DEF Settle, FeedbackInv, TypeOK
<1>7. TimesInv'
  <2> SUFFICES ASSUME NEW k \in MessageIds
               PROVE  /\ messages'[k].state = "DELIVERED" => messages'[k].delivered
                      /\ messages'[k].state \in {"SENT", "TIMED_OUT"} => ~ messages'[k].delivered
                      /\ messages'[k].delivered =>
                            /\ messages'[k].deliverTime >= messages'[k].sendTime + messages'[k].latency
                            /\ messages'[k].latency <= Timeout
                      /\ messages'[k].state = "TIMED_OUT" => clock' >= messages'[k].sendTime + Timeout
    BY <1>3 DEF TimesInv, Arrival
  <2>1. /\ messages[k].state = "DELIVERED" => messages[k].delivered
        /\ messages[k].state \in {"SENT", "TIMED_OUT"} => ~ messages[k].delivered
        /\ messages[k].delivered => /\ messages[k].deliverTime >= messages[k].sendTime + messages[k].latency
                                    /\ messages[k].latency <= Timeout
        /\ messages[k].state = "TIMED_OUT" => clock >= messages[k].sendTime + Timeout
    BY DEF FeedbackInv, TimesInv, Arrival
  <2>2. messages[k].sendTime \in Nat /\ Timeout \in Nat /\ clock \in Nat
    BY <1>1, MessageTyped, FeedbackAssumption
  <2>3. Settles(k)
    BY <1>2 DEF Settle
  <2>4. CASE k = m
    BY <1>2, <2>1, <2>2, <2>3, <2>4 DEF Settles
  <2>5. CASE k # m
    <3>1. messages'[k] = messages[k]
      BY <1>2, <2>5
    <3> QED
      BY <2>1, <2>2, <3>1
  <2> QED
    BY <2>4, <2>5
<1> QED
  BY <1>3, <1>6, <1>7 DEF FeedbackInv

LEMMA DeliverKeeps ==
    ASSUME FeedbackInv, NEW m \in MessageIds, Deliver(m)
    PROVE  FeedbackInv'
<1>1. /\ messages \in Seq(Message) /\ clock \in Nat /\ ~ messages[m].delivered
      /\ messages[m].latency <= Timeout /\ causalEdges' = causalEdges /\ added' = added
  BY DEF FeedbackInv, TypeOK, TimesInv, Deliver, Receivable
<1>2. /\ Settle /\ \A k \in MessageIds \ {m} : messages'[k] = messages[k]
      /\ messages'[m].state = "DELIVERED" /\ messages'[m].delivered
      /\ messages'[m].deliverTime = clock' /\ clock' \in Nat
      /\ clock' >= clock /\ clock' >= Arrival(m)
  BY <1>1, DeliverSettles
<1>3. /\ MessageIds' = MessageIds /\ causalEdges' \subseteq (MessageIds \X MessageIds)'
      /\ DependsInv' /\ EdgesInv' /\ ResendsInv'
  BY <1>1, <1>2, SettleKeeps
<1>4. \A k \in MessageIds : messages[k].delivered => messages[k].deliverTime <= clock
  BY DEF FeedbackInv, TypeOK
<1>5. \A k \in MessageIds : messages'[k].delivered => messages'[k].deliverTime <= clock'
  <2> TAKE k \in MessageIds
  <2>1. messages[k].deliverTime \in Nat
    BY <1>1, MessageTyped
  <2>2. CASE k = m
    BY <1>2, <2>2
  <2>3. CASE k # m
    BY <1>1, <1>2, <1>4, <2>1, <2>3
  <2> QED
    BY <2>2, <2>3
<1>6. TypeOK'
  BY <1>1, <1>2, <1>3, <1>5 DEF Settle, FeedbackInv, TypeOK
<1>7. TimesInv'
  <2> SUFFICES ASSUME NEW k \in MessageIds
               PROVE  /\ messages'[k].state = "DELIVERED" => messages'[k].delivered
                      /\ messages'[k].state \in {"SENT", "TIMED_OUT"} => ~ messages'[k].delivered
                      /\ messages'[k].delivered =>
                            /\ messages'[k].deliverTime >= messages'[k].sendTime + messages'[k].latency
                            /\ messages'[k].latency <= Timeout
                      /\ messages'[k].state = "TIMED_OUT" => clock' >= messages'[k].sendTime + Timeout
    BY <1>3 DEF TimesInv, Arrival
  <2>1. CASE k = m
    <3>1. Settles(m) /\ clock' >= messages[m].sendTime + messages[m].latency
      BY <1>2 DEF Settle, Arrival
    <3> QED
      BY <1>1, <1>2, <2>1, <3>1 DEF Settles
  <2>2. CASE k # m
    <3>1. messages'[k] = messages[k]
      BY <1>2, <2>2
    <3>2. /\ messages[k].state = "DELIVERED" => messages[k].delivered
          /\ messages[k].state \in {"SENT", "TIMED_OUT"} => ~ messages[k].delivered
          /\ messages[k].delivered => /\ messages[k].deliverTime >= messages[k].sendTime + messages[k].latency
                                      /\ messages[k].latency <= Timeout
          /\ messages[k].state = "TIMED_OUT" => clock >= messages[k].sendTime + Timeout
      BY DEF FeedbackInv, TimesInv, Arrival
    <3>3. messages[k].sendTime \in Nat /\ Timeout \in Nat
      BY <1>1, MessageTyped, FeedbackAssumption
    <3> QED
      BY <1>1, <1>2, <3>1, <3>2, <3>3
  <2> QED
    BY <2>1, <2>2
<1> QED
  BY <1>3, <1>6, <1>7 DEF FeedbackInv

\* send and retry: the new message is in flight, after everything it follows.
Follows(at, attempts, deps, of, from) ==
    /\ at \in Nat /\ at >= clock /\ attempts \in Nat /\ attempts <= MaxRetries + 1
    /\ \A d \in deps : /\ d \in MessageIds /\ messages[d].delivered
                       /\ messages[d].deliverTime <= at
    /\ \A d \in from : d \in MessageIds /\ messages[d].sendTime <= at
    /\ of # 0 => /\ of \in MessageIds /\ attempts = messages[of].attempts + 1
                 /\ messages[of].state = "TIMED_OUT" /\ ~ messages[of].delivered
                 /\ at >= messages[of].sendTime + Timeout

LEMMA PostKeeps ==
    ASSUME FeedbackInv, NEW at, NEW attempts, NEW deps, NEW of, NEW from,
           Follows(at, attempts, deps, of, from), Post(at, attempts, deps, of),
           Len(messages) < MaxMessages, clock' = clock, added' = added,
           causalEdges' = causalEdges \cup {<<d, Len(messages) + 1>> : d \in from}
    PROVE  FeedbackInv'
<1> DEFINE n == Len(messages) + 1
<1>1. /\ messages \in Seq(Message) /\ clock \in Nat /\ n \in Nat /\ Len(messages) \in Nat
      /\ MessageIds = 1 .. Len(messages) /\ causalEdges \subseteq MessageIds \X MessageIds
      /\ added \subseteq causalEdges
  BY DEF FeedbackInv, TypeOK, MessageIds
<1>2. /\ messages' \in Seq(Message) /\ Len(messages') = n
      /\ \A k \in MessageIds : messages'[k] = messages[k]
      /\ messages'[n].state = "SENT" /\ messages'[n].sendTime = at
      /\ messages'[n].attempts = attempts /\ messages'[n].dependsOn = deps
      /\ messages'[n].of = of /\ ~ messages'[n].delivered
  BY DEF Post
<1> HIDE DEF n
<1>3. MessageIds' = MessageIds \cup {n} /\ \A k \in MessageIds : k < n
  BY <1>1, <1>2 DEF MessageIds, n
<1>4. \A k \in MessageIds : messages[k].sendTime \in Nat /\ messages[k].deliverTime \in Nat
  BY <1>1, MessageTyped
<1>5. TypeOK'
  <2>1. causalEdges' \subseteq (MessageIds \X MessageIds)'
    BY <1>1, <1>3 DEF Follows, n
  <2>2. \A k \in MessageIds' : messages'[k].delivered => messages'[k].deliverTime <= clock'
    BY <1>2, <1>3 DEF FeedbackInv, TypeOK
  <2>3. Len(messages') <= MaxMessages
    BY <1>1, <1>2, FeedbackAssumption DEF n
  <2>4. added' \subseteq causalEdges' /\ clock' \in Nat
    BY <1>1
  <2> QED
    BY <1>2, <2>1, <2>2, <2>3, <2>4 DEF TypeOK
<1>6. TimesInv'
  <2>1. \A k \in MessageIds : messages'[k] = messages[k] /\ Arrival(k)' = Arrival(k)
    BY <1>2 DEF Arrival
  <2> QED
    BY <1>2, <1>3, <2>1 DEF FeedbackInv, TimesInv
<1>7. DependsInv'
  <2> SUFFICES ASSUME NEW m \in MessageIds', NEW d \in messages'[m].dependsOn
               PROVE  /\ d \in MessageIds' /\ d < m /\ messages'[d].delivered
                      /\ messages'[d].deliverTime <= messages'[m].sendTime
    BY DEF DependsInv
  <2>1. CASE m = n
    BY <1>2, <1>3, <2>1 DEF Follows
  <2>2. CASE m # n
    <3>1. m \in MessageIds /\ messages'[m] = messages[m]
      BY <1>2, <1>3, <2>2
    <3>2. /\ d \in MessageIds /\ d < m /\ messages[d].delivered
          /\ messages[d].deliverTime <= messages[m].sendTime
      BY <3>1 DEF FeedbackInv, DependsInv
    <3> QED
      BY <1>2, <1>3, <3>1, <3>2
  <2> QED
    BY <2>1, <2>2
<1>8. EdgesInv'
  <2> SUFFICES ASSUME NEW e \in causalEdges' \ added'
               PROVE  e[1] < e[2] /\ messages'[e[1]].sendTime <= messages'[e[2]].sendTime
    BY DEF EdgesInv, FeedbackInv
  <2>1. CASE e \in causalEdges
    <3>1. e[1] \in MessageIds /\ e[2] \in MessageIds
      BY <1>1, <2>1
    <3>2. e[1] < e[2] /\ messages[e[1]].sendTime <= messages[e[2]].sendTime
      BY <2>1 DEF FeedbackInv, EdgesInv
    <3> QED
      BY <1>2, <3>1, <3>2
  <2>2. CASE e \notin causalEdges
    <3>1. PICK d \in from : e = <<d, n>>
      BY <2>2 DEF n
    <3>2. d \in MessageIds /\ messages[d].sendTime <= at
      BY DEF Follows
    <3>3. e[1] = d /\ e[2] = n
      BY <3>1
    <3> QED
      BY <1>2, <1>3, <3>2, <3>3
  <2> QED
    BY <2>1, <2>2
<1>9. ResendsInv'
  <2> SUFFICES ASSUME NEW m \in MessageIds'
               PROVE  /\ messages'[m].attempts <= MaxRetries + 1
                      /\ messages'[m].of # 0 =>
                            LET o == messages'[m].of
                            IN  /\ o \in MessageIds' /\ messages'[m].attempts = messages'[o].attempts + 1
                                /\ messages'[o].state \in {"TIMED_OUT", "DROPPED"} /\ ~ messages'[o].delivered
                                /\ messages'[m].sendTime >= messages'[o].sendTime + Timeout
    BY DEF ResendsInv
  <2>1. CASE m = n
    <3>1. attempts <= MaxRetries + 1
      BY DEF Follows
    <3>2. ASSUME of # 0
          PROVE  /\ of \in MessageIds /\ attempts = messages'[of].attempts + 1
                 /\ messages'[of].state = "TIMED_OUT" /\ ~ messages'[of].delivered
                 /\ at >= messages'[of].sendTime + Timeout
      BY <1>2, <3>2 DEF Follows
    <3> QED
      BY <1>2, <1>3, <2>1, <3>1, <3>2
  <2>2. CASE m # n
    <3>1. m \in MessageIds /\ messages'[m] = messages[m]
      BY <1>2, <1>3, <2>2
    <3> DEFINE o == messages[m].of
    <3>2. messages[m].attempts <= MaxRetries + 1
      BY <3>1 DEF FeedbackInv, ResendsInv
    <3>3. ASSUME o # 0
          PROVE  /\ o \in MessageIds /\ messages[m].attempts = messages[o].attempts + 1
                 /\ messages[o].state \in {"TIMED_OUT", "DROPPED"} /\ ~ messages[o].delivered
                 /\ messages[m].sendTime >= messages[o].sendTime + Timeout
      BY <3>1, <3>3 DEF FeedbackInv, ResendsInv
    <3> HIDE DEF o
    <3>4. ASSUME o # 0 PROVE o \in MessageIds' /\ messages'[o] = messages[o]
      BY <1>2, <1>3, <3>3, <3>4
    <3>5. messages'[m].of = o
      BY <3>1 DEF o
    <3> QED
      BY <3>1, <3>2, <3>3, <3>4, <3>5
  <2> QED
    BY <2>1, <2>2
<1> QED
  BY <1>5, <1>6, <1>7, <1>8, <1>9 DEF FeedbackInv

LEMMA SendKeeps ==
    ASSUME FeedbackInv, NEW deps \in SUBSET MessageIds, NEW latency \in Latencies, NEW at \in Nat,
           Send(deps, latency, at)
    PROVE  FeedbackInv'
<1>1. messages \in Seq(Message) /\ clock \in Nat /\ Len(messages) \in Nat
  BY DEF FeedbackInv, TypeOK
<1>2. deps \in SUBSET (1 .. MaxMessages)
  BY <1>1, FeedbackAssumption DEF MessageIds, Send
<1>3. Post(at, 1, deps, 0)
  BY <1>1, <1>2, AppendPosts, FeedbackAssumption DEF Send
<1>4. \A d \in deps : /\ d \in MessageIds /\ messages[d].delivered
                      /\ messages[d].deliverTime <= at /\ messages[d].sendTime <= at
  <2> TAKE d \in deps
  <2>1. d \in MessageIds /\ messages[d].state = "DELIVERED" /\ at >= clock
    BY DEF Send, DependenciesMet, NotInThePast
  <2>2. /\ messages[d].delivered
        /\ messages[d].deliverTime >= messages[d].sendTime + messages[d].latency
    BY <2>1 DEF FeedbackInv, TimesInv, Arrival
  <2>3. messages[d].deliverTime <= clock
    BY <2>1, <2>2 DEF FeedbackInv, TypeOK
  <2> QED
    BY <1>1, <2>1, <2>2, <2>3, MessageTyped
<1>5. Follows(at, 1, deps, 0, deps)
  BY <1>4, FeedbackAssumption DEF Follows, Send, NotInThePast
<1> QED
  BY <1>3, <1>5, PostKeeps DEF Send

LEMMA RetryKeeps ==
    ASSUME FeedbackInv, NEW m \in MessageIds, NEW latency \in Latencies, Retry(m, latency)
    PROVE  FeedbackInv'
<1>1. messages \in Seq(Message) /\ clock \in Nat /\ Len(messages) \in Nat
  BY DEF FeedbackInv, TypeOK
<1>2. /\ messages[m].state = "TIMED_OUT" /\ ~ (messages[m].attempts > MaxRetries)
      /\ Len(messages) < MaxMessages
  BY DEF Retry, MayRetry, Exhausted
<1>3. /\ ~ messages[m].delivered /\ clock >= messages[m].sendTime + Timeout
  BY <1>2 DEF FeedbackInv, TimesInv
<1>4. /\ messages[m].sendTime \in Nat /\ messages[m].attempts \in Nat
      /\ messages[m].dependsOn \in SUBSET (1 .. MaxMessages) /\ m \in 0 .. MaxMessages
  BY <1>1, <1>2, MessageTyped, FeedbackAssumption DEF MessageIds
<1>5. messages[m].sendTime <= clock /\ messages[m].attempts + 1 <= MaxRetries + 1
  <2> DEFINE sent == messages[m].sendTime
             tries == messages[m].attempts
  <2>1. sent \in Nat /\ tries \in Nat /\ Timeout \in Nat /\ MaxRetries \in Nat /\ clock \in Nat
    BY <1>1, <1>4, FeedbackAssumption
  <2>2. clock >= sent + Timeout /\ ~ (tries > MaxRetries)
    BY <1>2, <1>3
  <2> HIDE DEF sent, tries
  <2>3. sent <= clock /\ tries + 1 <= MaxRetries + 1
    BY <2>1, <2>2
  <2> QED
    BY <2>3 DEF sent, tries
<1>6. Post(clock, messages[m].attempts + 1, messages[m].dependsOn, m)
  BY <1>1, <1>4, AppendPosts DEF Retry
<1>7. \A d \in messages[m].dependsOn : /\ d \in MessageIds /\ messages[d].delivered
                                       /\ messages[d].deliverTime <= clock
  BY <1>1, <1>4, <1>5, MessageTyped DEF FeedbackInv, DependsInv
<1>8. Follows(clock, messages[m].attempts + 1, messages[m].dependsOn, m, {m})
  BY <1>1, <1>2, <1>3, <1>4, <1>5, <1>7 DEF Follows
<1>9. /\ causalEdges' = causalEdges \cup {<<d, Len(messages) + 1>> : d \in {m}}
      /\ clock' = clock /\ added' = added
  BY DEF Retry
<1> QED
  BY <1>2, <1>6, <1>8, <1>9, PostKeeps

LEMMA TimesOutKeeps ==
    ASSUME FeedbackInv, NEW m \in MessageIds, TimesOut(m)
    PROVE  FeedbackInv'
<1>1. /\ messages \in Seq(Message) /\ clock \in Nat
  BY DEF FeedbackInv, TypeOK
<1>2. /\ clock' = Later(clock, messages[m].sendTime + Timeout) /\ messages[m].sendTime \in Nat
      /\ Timeout \in Nat
  BY <1>1, MessageTyped, FeedbackAssumption DEF TimesOut
<1>3. clock' \in Nat /\ clock' >= clock /\ clock' >= messages[m].sendTime + Timeout
  BY <1>1, <1>2 DEF Later
<1> QED
  BY <1>3, SetStateKeeps DEF TimesOut, Receivable

LEMMA DroppedKeeps ==
    ASSUME FeedbackInv, NEW m \in MessageIds, SetState(m, "DROPPED"),
           UNCHANGED <<clock, causalEdges, added>>
    PROVE  FeedbackInv'
<1>1. clock \in Nat
  BY DEF FeedbackInv, TypeOK
<1> QED
  BY <1>1, SetStateKeeps

LEMMA AddedEdgeKeeps ==
    ASSUME FeedbackInv, NEW a \in MessageIds, NEW b \in MessageIds, AddHappensBefore(a, b)
    PROVE  FeedbackInv'
<1>1. /\ causalEdges' = causalEdges \cup {<<a, b>>} /\ added' = added \cup {<<a, b>>}
      /\ clock' = clock /\ messages' = messages
  BY DEF AddHappensBefore
<1>2. MessageIds' = MessageIds
  BY <1>1 DEF MessageIds
<1>3. TypeOK'
  BY <1>1, <1>2 DEF FeedbackInv, TypeOK
<1>4. TimesInv' /\ DependsInv' /\ ResendsInv'
  BY <1>1, <1>2 DEF FeedbackInv, TimesInv, DependsInv, ResendsInv, Arrival
<1>5. EdgesInv'
  <2>1. <<a, b>>[1] # <<a, b>>[2]
    BY DEF AddHappensBefore
  <2>2. \A e \in added' : e \in added \/ e = <<a, b>>
    BY <1>1
  <2>3. causalEdges' \ added' \subseteq causalEdges \ added
    BY <1>1
  <2>4. \A e \in added' : e[1] # e[2]
    BY <2>1, <2>2 DEF FeedbackInv, EdgesInv
  <2>5. \A e \in causalEdges' \ added' :
           e[1] < e[2] /\ messages[e[1]].sendTime <= messages[e[2]].sendTime
    BY <2>3 DEF FeedbackInv, EdgesInv
  <2> QED
    BY <1>1, <2>4, <2>5 DEF EdgesInv
<1> QED
  BY <1>3, <1>4, <1>5 DEF FeedbackInv

\* Every message is delivered, given up and re-sent in the order of its times
\* (send, receive, retry, drop, add_happens_before).
THEOREM FeedbackIsSound == FeedbackSpec => []FeedbackInv
<1>1. FeedbackInit => FeedbackInv
  BY FeedbackAssumption DEF FeedbackInit, FeedbackInv, TypeOK, TimesInv, DependsInv, EdgesInv, ResendsInv,
        MessageIds
<1>2. FeedbackInv /\ [FeedbackNext]_feedbackVars => FeedbackInv'
  <2> SUFFICES ASSUME FeedbackInv, [FeedbackNext]_feedbackVars
               PROVE  FeedbackInv'
    OBVIOUS
  <2>1. CASE \E deps \in SUBSET MessageIds, latency \in Latencies, at \in 0 .. MaxSendTime :
                 Send(deps, latency, at)
    BY <2>1, SendKeeps, FeedbackAssumption
  <2>2. CASE \E m \in MessageIds : TimesOut(m)
    BY <2>2, TimesOutKeeps
  <2>3. CASE \E m \in MessageIds : Deliver(m)
    BY <2>3, DeliverKeeps
  <2>4. CASE \E m \in MessageIds : RetryGivesUp(m) \/ Drop(m)
    BY <2>4, DroppedKeeps DEF RetryGivesUp, Drop
  <2>5. CASE \E m \in MessageIds : \E latency \in Latencies : Retry(m, latency)
    BY <2>5, RetryKeeps
  <2>6. CASE \E a, b \in MessageIds : AddHappensBefore(a, b)
    BY <2>6, AddedEdgeKeeps
  <2>7. CASE UNCHANGED feedbackVars
    <3>1. UNCHANGED <<clock, messages, causalEdges, added>>
      BY <2>7 DEF feedbackVars
    <3> QED
      BY <3>1 DEF FeedbackInv, TypeOK, TimesInv, DependsInv, EdgesInv, ResendsInv, MessageIds, Arrival
  <2> QED
    BY <2>1, <2>2, <2>3, <2>4, <2>5, <2>6, <2>7 DEF FeedbackNext
<1> QED
  BY <1>1, <1>2, PTL DEF FeedbackSpec

\* A set of numbers below a bound has a last one.
LEMMA LastOne ==
    ASSUME NEW n \in Nat, NEW S \in SUBSET (1 .. n), S # {}
    PROVE  \E a \in S : \A b \in S : b <= a
<1> DEFINE T == {n - x : x \in S}
           R == OpToRel(<, Nat)
<1>1. T \subseteq Nat /\ T # {}
  <2>1. \A x \in 1 .. n : n - x \in Nat
    OBVIOUS
  <2>2. PICK x \in S : TRUE
    OBVIOUS
  <2> QED
    BY <2>1, <2>2
<1>2. IsWellFoundedOn(R, Nat)
  BY NatLessThanWellFounded
<1>3. \A x, y \in Nat : y < x => <<y, x>> \in R
  BY DEF OpToRel
<1> HIDE DEF R, T
<1>4. PICK x \in T : \A y \in T : ~ (<<y, x>> \in R)
  BY <1>1, <1>2, WFMin
<1>5. \A y \in T : x <= y
  <2> TAKE y \in T
  <2>1. x \in Nat /\ y \in Nat
    BY <1>1
  <2>2. ~ (<<y, x>> \in R)
    BY <1>4
  <2>3. ~ (y < x)
    BY <1>3, <2>1, <2>2
  <2> QED
    BY <2>1, <2>3
<1>6. PICK a \in S : x = n - a
  BY DEF T
<1>7. \A b \in S : n - a <= n - b
  BY <1>5, <1>6 DEF T
<1> QED
  BY <1>7

\* Edges that go from an earlier message to a later one close no cycle.
LEMMA ForwardIsAcyclic ==
    ASSUME messages \in Seq(Message), \A e \in causalEdges : e[1] < e[2]
    PROVE  CheckAcyclic
<1> SUFFICES ASSUME NEW S \in (SUBSET MessageIds) \ {{}}
             PROVE  \E a \in S : \A b \in S : <<a, b>> \notin causalEdges
  BY Zenon DEF CheckAcyclic
<1>1. Len(messages) \in Nat /\ S \in SUBSET (1 .. Len(messages)) /\ S # {}
  BY DEF MessageIds
<1>2. PICK a \in S : \A b \in S : b <= a
  BY <1>1, LastOne
<1>3. ASSUME NEW b \in S, <<a, b>> \in causalEdges
      PROVE  FALSE
  <2>1. <<a, b>>[1] < <<a, b>>[2]
    BY <1>3
  <2>2. a < b /\ b <= a /\ a \in Nat /\ b \in Nat
    BY <1>1, <1>2, <2>1
  <2> QED
    BY <2>2
<1> QED
  BY <1>3

\* assert_ready lets a correction through only when its message, and everything that one
\* depends on, arrived in time and in order; check_acyclic fails only because of an edge
\* that a client put the wrong way; re-sends follow what they replace and are as many as
\* max_retries allows.
THEOREM CorrectionsFollowTheirBits == FeedbackSpec => []DeliveryIsCausal
<1>1. FeedbackInv => DeliveryIsCausal
  <2> SUFFICES ASSUME FeedbackInv
               PROVE  ReadyIsCausal /\ RetriesFollow
    BY DEF DeliveryIsCausal
  <2>1. \A m \in MessageIds : IsReady(m) =>
          /\ messages[m].deliverTime >= Arrival(m) /\ messages[m].latency <= Timeout
          /\ \A d \in messages[m].dependsOn : /\ messages[d].delivered
                                             /\ messages[d].deliverTime <= messages[m].sendTime
    BY DEF IsReady, FeedbackInv, TimesInv, DependsInv
  <2>2. CheckAcyclic \/ \E e \in added : e[1] > e[2]
    <3> SUFFICES ASSUME \A e \in added : ~ (e[1] > e[2])
                 PROVE  CheckAcyclic
      OBVIOUS
    <3>1. messages \in Seq(Message) /\ causalEdges \subseteq MessageIds \X MessageIds
      BY DEF FeedbackInv, TypeOK
    <3>2. ASSUME NEW e \in causalEdges
          PROVE  e[1] < e[2]
      <4>1. e[1] \in Nat /\ e[2] \in Nat
        BY <3>1 DEF MessageIds
      <4>2. CASE e \in added
        BY <4>1, <4>2 DEF FeedbackInv, EdgesInv
      <4>3. CASE e \notin added
        BY <4>3 DEF FeedbackInv, EdgesInv
      <4> QED
        BY <4>2, <4>3
    <3> QED
      BY <3>1, <3>2, ForwardIsAcyclic
  <2>3. RetriesFollow
    BY DEF RetriesFollow, FeedbackInv, ResendsInv
  <2> QED
    BY <2>1, <2>2, <2>3 DEF ReadyIsCausal, FeedbackInv, EdgesInv
<1> QED
  BY <1>1, FeedbackIsSound, PTL

-----------------------------------------------------------------------------
(* Entanglement pumping.                                                     *)

LEMMA Scaled ==
    ASSUME NEW x \in Int, NEW y \in Int, NEW z \in Nat
    PROVE  /\ x <= y => z * x <= z * y
           /\ z > 0 /\ z * x <= z * y => x <= y
           /\ z > 0 /\ x < y => z * x < z * y
  OBVIOUS

\* With weights p of the wanted Bell state and r of the others, p above r, the fidelity
\* N / D that BBPSSW gives is above one half, at most one, and above the worse of the two
\* unless that one is perfect.
LEMMA PumpedWeights ==
    ASSUME NEW p1 \in Nat, NEW r1 \in Nat, NEW p2 \in Nat, NEW r2 \in Nat, r1 < p1, r2 < p2,
           NEW N, N = 9 * (p1 * p2) + r1 * r2,
           NEW D, D = 9 * (p1 * p2) + 3 * (p1 * r2) + 3 * (p2 * r1) + 5 * (r1 * r2)
    PROVE  /\ N \in Nat /\ D \in Nat /\ D > 0 /\ N <= D /\ D < 2 * N
           /\ p1 * r2 <= p2 * r1 /\ r1 > 0 => p1 * D < N * (p1 + r1)
<1> DEFINE a == p1 * p2
           b == p1 * r2
           c == p2 * r1
           d == r1 * r2
<1>1. a \in Nat /\ b \in Nat /\ c \in Nat /\ d \in Nat
  OBVIOUS
<1>2. b < a /\ c < a /\ d <= b /\ d <= c
  OBVIOUS
<1>3. N = 9 * a + d /\ D = 9 * a + 3 * b + 3 * c + 5 * d
  OBVIOUS
<1>4. ASSUME b <= c, r1 > 0
      PROVE  p1 * D < N * (p1 + r1)
  \* Over r1 this is 3 p1 b + 4 r1 b < 6 r1 a + r1 d, which is the sum of p1 b <= r1 a and
  \* of 4 b < 3 a + d.
  <2>1. r1 * (a - b) = p1 * (c - d) /\ p1 * c = r1 * a /\ p1 * d = r1 * b
    OBVIOUS
  <2> HIDE DEF a, b, c, d
  <2>2. p1 * (b - d) <= p1 * (c - d)
    BY <1>1, <1>4, Scaled
  <2>3. r1 * (b - d) <= p1 * (b - d)
    <3>1. (b - d) * r1 <= (b - d) * p1
      BY <1>1, <1>2, Scaled
    <3> QED
      BY <1>1, <3>1
  <2>4. r1 * (b - d) <= r1 * (a - b)
    BY <1>1, <2>1, <2>2, <2>3
  <2>5. b - d <= a - b
    BY <1>1, <1>4, <2>4, Scaled
  <2>6. 4 * b < 3 * a + d
    BY <1>1, <1>2, <2>5
  <2>7. r1 * (4 * b) < r1 * (3 * a + d)
    BY <1>1, <1>4, <2>6, Scaled
  <2>8. p1 * b <= r1 * a
    BY <1>1, <1>4, <2>1, Scaled
  <2> DEFINE pb == p1 * b
             ra == r1 * a
             rb == r1 * b
             rd == r1 * d
  <2>9. p1 * (D - N) = 3 * pb + 3 * ra + 4 * rb
    <3>1. D - N = 3 * b + 3 * c + 4 * d
      BY <1>1, <1>3
    <3>2. p1 * (3 * b + 3 * c + 4 * d) = 3 * (p1 * b) + 3 * (p1 * c) + 4 * (p1 * d)
      BY <1>1
    <3> QED
      BY <2>1, <3>1, <3>2
  <2>10. N * r1 = 9 * ra + rd
    BY <1>1, <1>3
  <2>11. r1 * (4 * b) = 4 * rb /\ r1 * (3 * a + d) = 3 * ra + rd
    BY <1>1
  <2>12. pb \in Int /\ ra \in Int /\ rb \in Int /\ rd \in Int
    BY <1>1
  <2>13. 3 * pb + 3 * ra + 4 * rb < 9 * ra + rd
    <3>1. 4 * rb < 3 * ra + rd
      BY <2>7, <2>11
    <3>2. pb <= ra
      BY <2>8
    <3> HIDE DEF pb, ra, rb, rd
    <3> QED
      BY <2>12, <3>1, <3>2
  <2>14. N \in Int /\ D \in Int
    BY <1>1, <1>3
  <2>15. p1 * D = p1 * N + p1 * (D - N) /\ N * (p1 + r1) = p1 * N + N * r1
    BY <2>14
  <2> DEFINE x == p1 * (D - N)
             y == N * r1
             z == p1 * N
  <2>16. x < y
    BY <2>9, <2>10, <2>13
  <2>17. x \in Int /\ y \in Int /\ z \in Int /\ p1 * D = z + x /\ N * (p1 + r1) = z + y
    BY <2>14, <2>15
  <2> HIDE DEF x, y, z
  <2> QED
    BY <2>16, <2>17
<1> HIDE DEF a, b, c, d
<1>5. N \in Nat /\ D \in Nat /\ D > 0 /\ N <= D /\ D < 2 * N
  BY <1>1, <1>2, <1>3
<1> QED
  BY <1>4, <1>5 DEF b, c

Fractions == Nat \X (Nat \ {0})
Probability(f) == f \in Fractions /\ f[1] <= f[2]
Better(f, out) == Less(f, out) \/ f[1] = f[2]

\* A fidelity in the domain of purify, by its weights.
LEMMA WeightsOf ==
    ASSUME NEW f, Probability(f), InDomain(f)
    PROVE  /\ f[1] \in Nat /\ f[2] \in Nat /\ Rest(f) \in Nat /\ f[2] = f[1] + Rest(f)
           /\ Rest(f) < f[1]
           /\ Rest(f) = 0 <=> f[1] = f[2]
  BY DEF Probability, InDomain, Less, Half, Rest, Fractions

\* Two pairs in the domain give one in the domain that is better than the worse.
LEMMA PumpingGives ==
    ASSUME NEW f, NEW g, Probability(f), InDomain(f), Probability(g), InDomain(g)
    PROVE  /\ Probability(OutputFidelity(f, g)) /\ InDomain(OutputFidelity(f, g))
           /\ ~ Less(<<1, 1>>, OutputFidelity(f, g))
           /\ Better(f, OutputFidelity(f, g)) \/ Better(g, OutputFidelity(f, g))
<1> DEFINE p1 == f[1]
           r1 == Rest(f)
           p2 == g[1]
           r2 == Rest(g)
           N == 9 * (p1 * p2) + r1 * r2
           D == 9 * (p1 * p2) + 3 * (p1 * r2) + 3 * (p2 * r1) + 5 * (r1 * r2)
           out == OutputFidelity(f, g)
<1>1. /\ p1 \in Nat /\ r1 \in Nat /\ p2 \in Nat /\ r2 \in Nat /\ r1 < p1 /\ r2 < p2
      /\ f[2] = p1 + r1 /\ g[2] = p2 + r2
      /\ f[1] = f[2] <=> r1 = 0
      /\ g[1] = g[2] <=> r2 = 0
  BY WeightsOf
<1>2. out = <<N, D>>
  <2>1. Phi(f) = 3 * p1 /\ Phi(g) = 3 * p2
    BY DEF Phi
  <2> HIDE DEF p1, p2, r1, r2
  <2>2. (3 * p1) * (3 * p2) + r1 * r2 = N
    BY <1>1
  <2>3. (3 * p1 + r1) * (3 * p2 + r2) + 4 * r1 * r2 = D
    BY <1>1
  <2> QED
    BY <2>1, <2>2, <2>3 DEF OutputFidelity, SuccessWeight, r1, r2
<1>3. out[1] = N /\ out[2] = D
  BY <1>2
<1>4. f[1] = p1 /\ g[1] = p2
  OBVIOUS
<1> HIDE DEF p1, p2, r1, r2, out
<1>5. /\ N \in Nat /\ D \in Nat /\ D > 0 /\ N <= D /\ D < 2 * N
      /\ p1 * r2 <= p2 * r1 /\ r1 > 0 => p1 * D < N * (p1 + r1)
  BY <1>1, PumpedWeights
<1>6. p2 * r1 <= p1 * r2 /\ r2 > 0 => p2 * D < N * (p2 + r2)
  <2>1. /\ N = 9 * (p2 * p1) + r2 * r1
        /\ D = 9 * (p2 * p1) + 3 * (p2 * r1) + 3 * (p1 * r2) + 5 * (r2 * r1)
    BY <1>1
  <2> HIDE DEF N, D
  <2> QED
    BY <1>1, <2>1, PumpedWeights
<1>7. p1 * r2 <= p2 * r1 \/ p2 * r1 <= p1 * r2
  BY <1>1
<1> HIDE DEF N, D
<1>8. Better(f, out) \/ Better(g, out)
  <2>1. CASE p1 * r2 <= p2 * r1
    <3>1. r1 = 0 \/ f[1] * out[2] < out[1] * f[2]
      BY <1>1, <1>3, <1>4, <1>5, <2>1
    <3> QED
      BY <1>1, <3>1 DEF Better, Less
  <2>2. CASE p2 * r1 <= p1 * r2
    <3>1. r2 = 0 \/ g[1] * out[2] < out[1] * g[2]
      BY <1>1, <1>3, <1>4, <1>6, <2>2
    <3> QED
      BY <1>1, <3>1 DEF Better, Less
  <2> QED
    BY <1>7, <2>1, <2>2
<1>9. Probability(out)
  BY <1>2, <1>3, <1>5 DEF Probability, Fractions
<1>10. InDomain(out) /\ ~ Less(<<1, 1>>, out)
  BY <1>3, <1>5 DEF InDomain, Less, Half
<1> QED
  BY <1>8, <1>9, <1>10 DEF out

Pair == [fidelity : Fractions, of : SUBSET Fractions]

Improved(p) ==
    /\ InDomain(p.fidelity) /\ Less(Half, p.fidelity) /\ ~ Less(<<1, 1>>, p.fidelity)
    /\ \E f \in p.of : Less(f, p.fidelity) \/ f[1] = f[2]
    /\ Cardinality(p.of) = 1 => \A f \in p.of : Less(f, p.fidelity) \/ f[1] = f[2]

\* Generated pairs are probabilities, purified ones improved; two were paid for each one.
SoundPair(p) == p \in Pair /\ Probability(p.fidelity) /\ (p.of # {} => Improved(p))

PurifyInv ==
    /\ pairs \in Seq(Pair) /\ generated \in Nat /\ consumed \in Nat
    /\ \A i \in DOMAIN pairs : SoundPair(pairs[i])
    /\ consumed <= 2 * (generated - Len(pairs))

\* What is left when two of a sequence are taken out.
LEMMA OthersAreOld ==
    ASSUME pairs \in Seq(Pair), NEW i \in DOMAIN pairs, NEW j \in DOMAIN pairs, i # j
    PROVE  /\ Others(i, j) \in Seq(Pair) /\ Len(Others(i, j)) = Len(pairs) - 2
           /\ \A k \in DOMAIN Others(i, j) : \E m \in DOMAIN pairs : Others(i, j)[k] = pairs[m]
<1>1. /\ Len(pairs) \in Nat /\ DOMAIN pairs = 1 .. Len(pairs) /\ Len(pairs) - 2 \in Nat
      /\ i \in 1 .. Len(pairs) /\ j \in 1 .. Len(pairs)
  OBVIOUS
<1> DEFINE At(k) == IF i < j THEN Past(Past(k, i), j) ELSE Past(Past(k, j), i)
<1>2. \A k \in 1 .. Len(pairs) - 2 : At(k) \in 1 .. Len(pairs)
  BY <1>1 DEF Past
<1>3. Others(i, j) = [k \in 1 .. Len(pairs) - 2 |-> pairs[At(k)]]
  BY DEF Others
<1> HIDE DEF At
<1>4. \A k \in 1 .. Len(pairs) - 2 : pairs[At(k)] \in Pair
  BY <1>1, <1>2
<1>5. Others(i, j) \in [1 .. Len(pairs) - 2 -> Pair]
  BY <1>3, <1>4
<1>6. Others(i, j) \in Seq(Pair)
  BY <1>1, <1>5, FunctionsAreSequences
<1>7. DOMAIN Others(i, j) = 1 .. Len(pairs) - 2
  BY <1>3
<1>8. Len(Others(i, j)) = Len(pairs) - 2
  BY <1>1, <1>6, <1>7, LengthIsDomain
<1>9. \A k \in DOMAIN Others(i, j) : Others(i, j)[k] = pairs[At(k)] /\ At(k) \in DOMAIN pairs
  BY <1>1, <1>2, <1>3, <1>7
<1> QED
  BY <1>6, <1>8, <1>9

\* A sound pair after sound pairs.
LEMMA SoundAppended ==
    ASSUME NEW s \in Seq(Pair), \A i \in DOMAIN s : SoundPair(s[i]), NEW p, SoundPair(p)
    PROVE  /\ Append(s, p) \in Seq(Pair) /\ Len(Append(s, p)) = Len(s) + 1
           /\ \A i \in DOMAIN Append(s, p) : SoundPair(Append(s, p)[i])
<1>1. p \in Pair
  BY DEF SoundPair
<1>2. /\ Append(s, p) \in Seq(Pair) /\ Len(Append(s, p)) = Len(s) + 1
      /\ \A i \in 1 .. Len(s) : Append(s, p)[i] = s[i]
      /\ Append(s, p)[Len(s) + 1] = p
  BY <1>1, AppendProperties
<1>3. DOMAIN Append(s, p) = 1 .. Len(s) + 1 /\ DOMAIN s = 1 .. Len(s) /\ Len(s) \in Nat
  BY <1>2
<1>4. ASSUME NEW i \in 1 .. Len(s) + 1
      PROVE  SoundPair(Append(s, p)[i])
  <2>1. CASE i \in 1 .. Len(s)
    BY <1>2, <1>3, <2>1
  <2>2. CASE i = Len(s) + 1
    BY <1>2, <2>2
  <2> QED
    BY <1>3, <2>1, <2>2
<1> QED
  BY <1>2, <1>3, <1>4

LEMMA GenerateKeeps ==
    ASSUME PurifyInv, NEW f \in Fidelities, Generate(f)
    PROVE  PurifyInv'
<1> DEFINE p == [fidelity |-> f, of |-> {}]
<1>1. SoundPair(p)
  BY ProtocolAssumption DEF SoundPair, Pair, Probability, Fractions
<1>2. pairs' = Append(pairs, p) /\ generated' = generated + 1 /\ consumed' = consumed
  BY DEF Generate
<1> HIDE DEF p
<1>3. /\ pairs' \in Seq(Pair) /\ Len(pairs') = Len(pairs) + 1
      /\ \A i \in DOMAIN pairs' : SoundPair(pairs'[i])
  BY <1>1, <1>2, SoundAppended DEF PurifyInv
<1> QED
  BY <1>2, <1>3 DEF PurifyInv

LEMMA PurifyKeeps ==
    ASSUME PurifyInv, NEW i \in DOMAIN pairs, NEW j \in DOMAIN pairs, Purify(i, j)
    PROVE  PurifyInv'
<1> DEFINE f == pairs[i].fidelity
           g == pairs[j].fidelity
           out == [fidelity |-> OutputFidelity(f, g), of |-> {f, g}]
           rest == Others(i, j)
<1>1. /\ pairs \in Seq(Pair) /\ generated \in Nat /\ consumed \in Nat /\ Len(pairs) \in Nat
      /\ \A k \in DOMAIN pairs : SoundPair(pairs[k])
      /\ consumed <= 2 * (generated - Len(pairs))
  BY DEF PurifyInv
<1>2. /\ i # j /\ InDomain(f) /\ InDomain(g) /\ pairs' \in {Append(rest, out), rest}
      /\ consumed' = consumed + 2 /\ generated' = generated
  BY DEF Purify
<1>3. Probability(f) /\ Probability(g)
  BY <1>1 DEF SoundPair
<1> HIDE DEF f, g
<1>4. /\ Probability(OutputFidelity(f, g)) /\ InDomain(OutputFidelity(f, g))
      /\ ~ Less(<<1, 1>>, OutputFidelity(f, g))
      /\ Better(f, OutputFidelity(f, g)) \/ Better(g, OutputFidelity(f, g))
  BY <1>2, <1>3, PumpingGives
<1>5. out.fidelity = OutputFidelity(f, g) /\ out.of = {f, g}
  OBVIOUS
<1>6. out \in Pair
  BY <1>3, <1>4 DEF Pair, Probability
<1> HIDE DEF out
<1>7. Improved(out)
  <2>1. \E h \in out.of : Better(h, out.fidelity)
    BY <1>4, <1>5
  <2>2. ASSUME Cardinality(out.of) = 1
        PROVE  \A h \in out.of : Better(h, out.fidelity)
    <3>1. IsFiniteSet(out.of)
      <4>1. IsFiniteSet({f}) /\ out.of = {f} \cup {g}
        BY <1>5, FS_Singleton
      <4> QED
        BY <4>1, FS_AddElement
    <3>2. \E x : out.of = {x}
      BY <2>2, <3>1, FS_Singleton
    <3>3. f = g
      BY <1>5, <3>2
    <3> QED
      BY <1>4, <1>5, <3>3
  <2>3. InDomain(out.fidelity) /\ Less(Half, out.fidelity) /\ ~ Less(<<1, 1>>, out.fidelity)
    BY <1>4, <1>5 DEF InDomain
  <2> QED
    BY <2>1, <2>2, <2>3 DEF Improved, Better
<1>8. SoundPair(out)
  BY <1>4, <1>5, <1>6, <1>7 DEF SoundPair
<1>9. /\ rest \in Seq(Pair) /\ Len(rest) = Len(pairs) - 2
      /\ \A k \in DOMAIN rest : SoundPair(rest[k])
  BY <1>1, <1>2, OthersAreOld
<1> HIDE DEF rest
<1>10. CASE pairs' = rest
  BY <1>1, <1>2, <1>9, <1>10 DEF PurifyInv
<1>11. CASE pairs' = Append(rest, out)
  <2>1. /\ pairs' \in Seq(Pair) /\ Len(pairs') = Len(rest) + 1
        /\ \A k \in DOMAIN pairs' : SoundPair(pairs'[k])
    BY <1>8, <1>9, <1>11, SoundAppended
  <2> QED
    BY <1>1, <1>2, <1>9, <2>1 DEF PurifyInv
<1> QED
  BY <1>2, <1>10, <1>11

\* A purified pair is better than the worse of the two it came from and within the domain
\* of the next round, for every fidelity; two pairs are paid for each (purify).
THEOREM PumpingAlwaysImproves == PurifySpec => []PumpingImproves
<1>1. PurifyInit => PurifyInv
  <2> SUFFICES ASSUME PurifyInit
               PROVE  PurifyInv
    OBVIOUS
  <2>1. pairs \in Seq(Pair) /\ Len(pairs) = 0 /\ DOMAIN pairs = {}
    BY DEF PurifyInit
  <2> QED
    BY <2>1 DEF PurifyInit, PurifyInv
<1>2. PurifyInv /\ [PurifyNext]_purifyVars => PurifyInv'
  <2> SUFFICES ASSUME PurifyInv, [PurifyNext]_purifyVars
               PROVE  PurifyInv'
    OBVIOUS
  <2>1. CASE \E f \in Fidelities : Generate(f)
    BY <2>1, GenerateKeeps
  <2>2. CASE \E i, j \in DOMAIN pairs : Purify(i, j)
    BY <2>2, PurifyKeeps
  <2>3. CASE UNCHANGED purifyVars
    BY <2>3 DEF purifyVars, PurifyInv
  <2> QED
    BY <2>1, <2>2, <2>3 DEF PurifyNext
<1>3. PurifyInv => PumpingImproves
  BY DEF PurifyInv, SoundPair, Improved, PumpingImproves
<1> QED
  BY <1>1, <1>2, <1>3, PTL DEF PurifySpec

-----------------------------------------------------------------------------
(* Replicated data types: merging.                                           *)

Counts == UNION {[D -> Nat] : D \in SUBSET Nat}

LEMMA CountsTyped ==
    ASSUME NEW f \in Counts
    PROVE  /\ DOMAIN f \in SUBSET Nat /\ f = [k \in DOMAIN f |-> f[k]]
           /\ \A k \in DOMAIN f : f[k] \in Nat
           /\ \A k : Get(f, k) \in Nat /\ (k \notin DOMAIN f => Get(f, k) = 0)
<1>1. PICK D \in SUBSET Nat : f \in [D -> Nat]
  BY DEF Counts
<1> QED
  BY <1>1 DEF Get

IsMax(m, f, g) == /\ m \in Counts /\ DOMAIN m = DOMAIN f \cup DOMAIN g
                  /\ \A k : Get(m, k) = Greater(Get(f, k), Get(g, k))

\* The pointwise maximum has the keys of both, and a missing key counts as 0 in it.
LEMMA MaxTyped ==
    ASSUME NEW f \in Counts, NEW g \in Counts
    PROVE  IsMax(PointwiseMax(f, g), f, g)
<1> DEFINE D == DOMAIN f \cup DOMAIN g
<1>1. /\ D \in SUBSET Nat
      /\ \A k : Get(f, k) \in Nat /\ Get(g, k) \in Nat /\ Greater(Get(f, k), Get(g, k)) \in Nat
      /\ \A k : k \notin D => Get(f, k) = 0 /\ Get(g, k) = 0
  BY CountsTyped DEF Greater
<1>2. PointwiseMax(f, g) = [k \in D |-> Greater(Get(f, k), Get(g, k))]
  BY DEF PointwiseMax
<1>3. PointwiseMax(f, g) \in [D -> Nat]
  BY <1>1, <1>2
<1>4. ASSUME NEW k
      PROVE  Get(PointwiseMax(f, g), k) = Greater(Get(f, k), Get(g, k))
  <2>1. CASE k \in D
    <3>1. PointwiseMax(f, g)[k] = Greater(Get(f, k), Get(g, k)) /\ k \in DOMAIN PointwiseMax(f, g)
      BY <1>2, <2>1
    <3> QED
      BY <3>1 DEF Get
  <2>2. CASE k \notin D
    <3>1. k \notin DOMAIN PointwiseMax(f, g)
      BY <1>2, <2>2
    <3>2. Get(PointwiseMax(f, g), k) = 0
      BY <3>1 DEF Get
    <3>3. Greater(0, 0) = 0
      BY DEF Greater
    <3> QED
      BY <1>1, <2>2, <3>2, <3>3
  <2> QED
    BY <2>1, <2>2
<1> QED
  BY <1>1, <1>2, <1>3, <1>4 DEF Counts, IsMax

LEMMA CountsEqual ==
    ASSUME NEW f \in Counts, NEW g \in Counts, DOMAIN f = DOMAIN g, \A k : Get(f, k) = Get(g, k)
    PROVE  f = g
<1>1. /\ f = [k \in DOMAIN f |-> f[k]] /\ g = [k \in DOMAIN g |-> g[k]]
  BY CountsTyped
<1>2. \A k \in DOMAIN f : f[k] = g[k]
  BY DEF Get
<1> QED
  BY <1>1, <1>2

LEMMA LargerLaws ==
    ASSUME NEW a \in Nat, NEW b \in Nat, NEW c \in Nat
    PROVE  /\ Greater(a, b) \in Nat /\ Greater(a, a) = a /\ Greater(a, b) = Greater(b, a)
           /\ Greater(Greater(a, b), b) = Greater(a, b)
           /\ Greater(Greater(a, b), c) = Greater(a, Greater(b, c))
  BY DEF Greater

LEMMA MaxLaws ==
    ASSUME NEW f \in Counts, NEW g \in Counts, NEW h \in Counts
    PROVE  /\ PointwiseMax(f, f) = f /\ PointwiseMax(f, g) = PointwiseMax(g, f)
           /\ PointwiseMax(PointwiseMax(f, g), g) = PointwiseMax(f, g)
           /\ PointwiseMax(PointwiseMax(f, g), h) = PointwiseMax(f, PointwiseMax(g, h))
<1>1. \A k : Get(f, k) \in Nat /\ Get(g, k) \in Nat /\ Get(h, k) \in Nat
  BY CountsTyped
<1>2. PICK m : m = PointwiseMax(f, g) /\ IsMax(m, f, g)
  BY MaxTyped
<1>3. PICK n : n = PointwiseMax(g, h) /\ IsMax(n, g, h)
  BY MaxTyped
<1>4. PICK w : w = PointwiseMax(g, f) /\ IsMax(w, g, f)
  BY MaxTyped
<1>5. PICK x : x = PointwiseMax(f, f) /\ IsMax(x, f, f)
  BY MaxTyped
<1>6. m \in Counts /\ n \in Counts /\ w \in Counts /\ x \in Counts
  BY <1>2, <1>3, <1>4, <1>5 DEF IsMax
<1>7. PICK y : y = PointwiseMax(m, g) /\ IsMax(y, m, g)
  BY <1>6, MaxTyped
<1>8. PICK u : u = PointwiseMax(m, h) /\ IsMax(u, m, h)
  BY <1>6, MaxTyped
<1>9. PICK v : v = PointwiseMax(f, n) /\ IsMax(v, f, n)
  BY <1>6, MaxTyped
<1>10. y \in Counts /\ u \in Counts /\ v \in Counts
  BY <1>7, <1>8, <1>9 DEF IsMax
<1>11. ASSUME NEW k
       PROVE  /\ Get(x, k) = Get(f, k) /\ Get(m, k) = Get(w, k)
              /\ Get(y, k) = Get(m, k) /\ Get(u, k) = Get(v, k)
  <2>1. /\ Get(x, k) = Greater(Get(f, k), Get(f, k)) /\ Get(w, k) = Greater(Get(g, k), Get(f, k))
        /\ Get(m, k) = Greater(Get(f, k), Get(g, k)) /\ Get(n, k) = Greater(Get(g, k), Get(h, k))
        /\ Get(y, k) = Greater(Get(m, k), Get(g, k)) /\ Get(u, k) = Greater(Get(m, k), Get(h, k))
        /\ Get(v, k) = Greater(Get(f, k), Get(n, k))
    BY <1>2, <1>3, <1>4, <1>5, <1>7, <1>8, <1>9 DEF IsMax
  <2> QED
    BY <1>1, <2>1, LargerLaws
<1>12. /\ DOMAIN x = DOMAIN f /\ DOMAIN m = DOMAIN w /\ DOMAIN y = DOMAIN m /\ DOMAIN u = DOMAIN v
  BY <1>2, <1>3, <1>4, <1>5, <1>7, <1>8, <1>9 DEF IsMax
<1>13. x = f /\ m = w /\ y = m /\ u = v
  BY <1>6, <1>10, <1>11, <1>12, CountsEqual
<1> QED
  BY <1>2, <1>3, <1>4, <1>5, <1>7, <1>8, <1>9, <1>13

LWWStates == [value : Nat, timestamp : Nat, writer : Nat, version : Counts]

\* The total order that decides when the version vectors do not.
Beats(a, b) ==
    \/ a.timestamp > b.timestamp
    \/ a.timestamp = b.timestamp /\ a.writer > b.writer
    \/ a.timestamp = b.timestamp /\ a.writer = b.writer /\ TextAfter(a.value, b.value)

SameWrite(a, b) == a.timestamp = b.timestamp /\ a.writer = b.writer /\ a.value = b.value

LEMMA BeatsIsTotal ==
    ASSUME NEW a \in LWWStates, NEW b \in LWWStates, NEW c \in LWWStates
    PROVE  /\ ~ Beats(a, a)
           /\ Beats(a, b) => ~ Beats(b, a)
           /\ Beats(a, b) \/ Beats(b, a) \/ SameWrite(a, b)
           /\ Beats(a, b) /\ Beats(b, c) => Beats(a, c)
           /\ SameWrite(a, b) => (Beats(a, c) <=> Beats(b, c)) /\ (Beats(c, a) <=> Beats(c, b))
<1>1. /\ a.timestamp \in Nat /\ a.writer \in Nat /\ a.value \in Nat
      /\ b.timestamp \in Nat /\ b.writer \in Nat /\ b.value \in Nat
      /\ c.timestamp \in Nat /\ c.writer \in Nat /\ c.value \in Nat
  BY DEF LWWStates
<1> QED
  BY <1>1 DEF Beats, SameWrite, TextAfter, NoValue

IsMerged(m, a, b) == /\ m \in LWWStates /\ m.version = PointwiseMax(a.version, b.version)
                     /\ Beats(a, b) => SameWrite(m, a)
                     /\ ~ Beats(a, b) => SameWrite(m, b)

LEMMA MergeLWWTyped ==
    ASSUME kind.policy # "VERSION_VECTOR", NEW a \in LWWStates, NEW b \in LWWStates
    PROVE  IsMerged(MergeLWW(a, b), a, b)
<1>1. Dominates(a, b) <=> Beats(a, b)
  BY DEF Dominates, Beats
<1> DEFINE win == IF Dominates(a, b) THEN a ELSE b
           version == PointwiseMax(a.version, b.version)
<1>2. win \in LWWStates /\ version \in Counts
  BY MaxTyped DEF LWWStates, IsMax
<1>3. MergeLWW(a, b) = [win EXCEPT !.version = version]
  BY DEF MergeLWW
<1>4. (Beats(a, b) => win = a) /\ (~ Beats(a, b) => win = b)
  BY <1>1
<1> HIDE DEF win, version
<1>5. [win EXCEPT !.version = version] \in LWWStates
  BY <1>2 DEF LWWStates
<1>6. /\ [win EXCEPT !.version = version].version = version
      /\ SameWrite([win EXCEPT !.version = version], win)
  BY <1>2 DEF LWWStates, SameWrite
<1> QED
  BY <1>3, <1>4, <1>5, <1>6 DEF IsMerged, version

\* What it takes of a merged state from any policy.
LEMMA MergeLWWInStates ==
    ASSUME NEW a \in LWWStates, NEW b \in LWWStates
    PROVE  MergeLWW(a, b) \in LWWStates
<1> DEFINE win == IF Dominates(a, b) THEN a ELSE b
           version == PointwiseMax(a.version, b.version)
<1>1. win \in LWWStates /\ version \in Counts
  BY MaxTyped DEF LWWStates, IsMax
<1>2. MergeLWW(a, b) = [win EXCEPT !.version = version]
  BY DEF MergeLWW
<1> HIDE DEF win, version
<1> QED
  BY <1>1, <1>2 DEF LWWStates

LEMMA SameStates ==
    ASSUME NEW a \in LWWStates, NEW b \in LWWStates, SameWrite(a, b), a.version = b.version
    PROVE  a = b
  BY DEF LWWStates, SameWrite

LEMMA LWWLaws ==
    ASSUME kind.policy # "VERSION_VECTOR",
           NEW a \in LWWStates, NEW b \in LWWStates, NEW c \in LWWStates
    PROVE  /\ MergeLWW(a, a) = a /\ MergeLWW(a, b) = MergeLWW(b, a)
           /\ MergeLWW(MergeLWW(a, b), b) = MergeLWW(a, b)
           /\ MergeLWW(MergeLWW(a, b), c) = MergeLWW(a, MergeLWW(b, c))
<1>1. PICK m : m = MergeLWW(a, b) /\ IsMerged(m, a, b)
  BY MergeLWWTyped
<1>2. PICK n : n = MergeLWW(b, c) /\ IsMerged(n, b, c)
  BY MergeLWWTyped
<1>3. PICK w : w = MergeLWW(b, a) /\ IsMerged(w, b, a)
  BY MergeLWWTyped
<1>4. PICK x : x = MergeLWW(a, a) /\ IsMerged(x, a, a)
  BY MergeLWWTyped
<1>5. m \in LWWStates /\ n \in LWWStates /\ w \in LWWStates /\ x \in LWWStates
  BY <1>1, <1>2, <1>3, <1>4 DEF IsMerged
<1>6. PICK y : y = MergeLWW(m, b) /\ IsMerged(y, m, b)
  BY <1>5, MergeLWWTyped
<1>7. PICK u : u = MergeLWW(m, c) /\ IsMerged(u, m, c)
  BY <1>5, MergeLWWTyped
<1>8. PICK v : v = MergeLWW(a, n) /\ IsMerged(v, a, n)
  BY <1>5, MergeLWWTyped
<1>9. y \in LWWStates /\ u \in LWWStates /\ v \in LWWStates
  BY <1>6, <1>7, <1>8 DEF IsMerged
<1>10. /\ x.version = a.version /\ m.version = w.version /\ y.version = m.version
       /\ u.version = v.version
  <2>1. a.version \in Counts /\ b.version \in Counts /\ c.version \in Counts
    BY DEF LWWStates
  <2> QED
    BY <1>1, <1>2, <1>3, <1>4, <1>6, <1>7, <1>8, <2>1, MaxLaws DEF IsMerged
<1>11. SameWrite(x, a) /\ SameWrite(m, w)
  BY <1>1, <1>3, <1>4, BeatsIsTotal DEF IsMerged, SameWrite
<1>12. SameWrite(y, m)
  BY <1>1, <1>5, <1>6, BeatsIsTotal DEF IsMerged, SameWrite
<1>13. SameWrite(u, v)
  <2>1. CASE Beats(a, b) /\ Beats(b, c)
    BY <1>1, <1>2, <1>5, <1>7, <1>8, <2>1, BeatsIsTotal DEF IsMerged, SameWrite
  <2>2. CASE Beats(a, b) /\ ~ Beats(b, c)
    BY <1>1, <1>2, <1>5, <1>7, <1>8, <2>2, BeatsIsTotal DEF IsMerged, SameWrite
  <2>3. CASE ~ Beats(a, b) /\ Beats(b, c)
    BY <1>1, <1>2, <1>5, <1>7, <1>8, <2>3, BeatsIsTotal DEF IsMerged, SameWrite
  <2>4. CASE ~ Beats(a, b) /\ ~ Beats(b, c)
    BY <1>1, <1>2, <1>5, <1>7, <1>8, <2>4, BeatsIsTotal DEF IsMerged, SameWrite
  <2> QED
    BY <2>1, <2>2, <2>3, <2>4
<1>14. x = a /\ m = w /\ y = m /\ u = v
  BY <1>5, <1>9, <1>10, <1>11, <1>12, <1>13, SameStates
<1> QED
  BY <1>1, <1>2, <1>3, <1>4, <1>6, <1>7, <1>8, <1>14

Tags == Nat \X Nat
PNStates    == [positive : Counts, negative : Counts]
ORSetStates == [adds : SUBSET (Nat \X Tags), removed : SUBSET Tags, counter : Nat]

\* What a replica of the object's type may hold.
StatesOf == CASE kind.type = "GCounter"  -> [counts : Counts]
              [] kind.type = "PNCounter" -> PNStates
              [] kind.type = "GSet"      -> [elements : SUBSET Nat]
              [] kind.type = "ORSet"     -> ORSetStates
              [] kind.type = "LWW"       -> LWWStates

LEMMA StatesByType ==
    /\ kind.type = "GCounter"  => StatesOf = [counts : Counts]
    /\ kind.type = "PNCounter" => StatesOf = PNStates
    /\ kind.type = "GSet"      => StatesOf = [elements : SUBSET Nat]
    /\ kind.type = "ORSet"     => StatesOf = ORSetStates
    /\ kind.type = "LWW"       => StatesOf = LWWStates
  BY DEF StatesOf

LEMMA MergeByType ==
    ASSUME NEW a, NEW b
    PROVE  /\ kind.type = "GCounter"  => Merge(a, b) = [counts |-> PointwiseMax(a.counts, b.counts)]
           /\ kind.type = "PNCounter" =>
                 Merge(a, b) = [positive |-> PointwiseMax(a.positive, b.positive),
                                negative |-> PointwiseMax(a.negative, b.negative)]
           /\ kind.type = "GSet"      => Merge(a, b) = [elements |-> a.elements \cup b.elements]
           /\ kind.type = "ORSet"     => Merge(a, b) = MergeORSet(a, b)
           /\ kind.type = "LWW"       => Merge(a, b) = MergeLWW(a, b)
  BY DEF Merge

KnownType == kind.type \in {"GCounter", "PNCounter", "GSet", "ORSet", "LWW"}

LEMMA MergeTyped ==
    ASSUME KnownType, NEW a \in StatesOf, NEW b \in StatesOf
    PROVE  Merge(a, b) \in StatesOf
<1>1. CASE kind.type = "GCounter"
  <2>1. a.counts \in Counts /\ b.counts \in Counts
    <3>1. a \in [counts : Counts] /\ b \in [counts : Counts]
      BY <1>1, StatesByType
    <3> QED
      BY <3>1
  <2>2. PointwiseMax(a.counts, b.counts) \in Counts
    BY <2>1, MaxTyped DEF IsMax
  <2> QED
    BY <1>1, <2>2, StatesByType, MergeByType
<1>2. CASE kind.type = "PNCounter"
  <2>1. a \in PNStates /\ b \in PNStates
    BY <1>2, StatesByType
  <2>2. /\ PointwiseMax(a.positive, b.positive) \in Counts
        /\ PointwiseMax(a.negative, b.negative) \in Counts
    BY <2>1, MaxTyped DEF PNStates, IsMax
  <2> QED
    BY <1>2, <2>2, StatesByType, MergeByType DEF PNStates
<1>3. CASE kind.type = "GSet"
  <2>1. a.elements \in SUBSET Nat /\ b.elements \in SUBSET Nat
    <3>1. a \in [elements : SUBSET Nat] /\ b \in [elements : SUBSET Nat]
      BY <1>3, StatesByType
    <3> QED
      BY <3>1
  <2>2. a.elements \cup b.elements \in SUBSET Nat
    BY <2>1
  <2> QED
    BY <1>3, <2>2, StatesByType, MergeByType
<1>4. CASE kind.type = "ORSet"
  <2>1. a \in ORSetStates /\ b \in ORSetStates
    BY <1>4, StatesByType
  <2>2. MergeORSet(a, b) \in ORSetStates
    BY <2>1 DEF MergeORSet, ORSetStates, Greater
  <2> QED
    BY <1>4, <2>2, StatesByType, MergeByType
<1>5. CASE kind.type = "LWW"
  BY <1>5, StatesByType, MergeByType, MergeLWWInStates
<1> QED
  BY <1>1, <1>2, <1>3, <1>4, <1>5 DEF KnownType

\* The order in which the states are merged decides, but for the version vectors' policy,
\* nothing.
MergeIsLawful(a, b, c) ==
    /\ State(Merge(a, a)) = State(a) /\ State(Merge(a, b)) = State(Merge(b, a))
    /\ State(Merge(Merge(a, b), b)) = State(Merge(a, b))
    /\ State(Merge(Merge(a, b), c)) = State(Merge(a, Merge(b, c)))

Both(S, T) == S \cup T

LEMMA BothLaws ==
    ASSUME NEW S, NEW T, NEW U
    PROVE  /\ Both(S, S) = S /\ Both(S, T) = Both(T, S) /\ Both(Both(S, T), T) = Both(S, T)
           /\ Both(Both(S, T), U) = Both(S, Both(T, U))
  BY DEF Both

LEMMA AnyTypeIsLawful ==
    ASSUME KnownType, kind.type = "LWW" => kind.policy # "VERSION_VECTOR",
           NEW a \in StatesOf, NEW b \in StatesOf, NEW c \in StatesOf
    PROVE  MergeIsLawful(a, b, c)
<1>1. CASE kind.type = "GCounter"
  <2>1. a \in [counts : Counts] /\ b \in [counts : Counts] /\ c \in [counts : Counts]
    BY <1>1, StatesByType
  <2>2. /\ PointwiseMax(a.counts, a.counts) = a.counts
        /\ PointwiseMax(a.counts, b.counts) = PointwiseMax(b.counts, a.counts)
        /\ PointwiseMax(PointwiseMax(a.counts, b.counts), b.counts) = PointwiseMax(a.counts, b.counts)
        /\ PointwiseMax(PointwiseMax(a.counts, b.counts), c.counts)
           = PointwiseMax(a.counts, PointwiseMax(b.counts, c.counts))
    BY <2>1, MaxLaws
  <2>3. \A x, y : Merge(x, y) = [counts |-> PointwiseMax(x.counts, y.counts)]
    BY <1>1, MergeByType
  <2>4. a = [counts |-> a.counts]
    BY <2>1
  <2>5. \A x : State(x) = x
    BY <1>1 DEF State
  <2> QED
    BY <2>2, <2>3, <2>4, <2>5 DEF MergeIsLawful
<1>2. CASE kind.type = "PNCounter"
  <2>1. a \in PNStates /\ b \in PNStates /\ c \in PNStates
    BY <1>2, StatesByType
  <2>2. /\ a.positive \in Counts /\ b.positive \in Counts /\ c.positive \in Counts
        /\ a.negative \in Counts /\ b.negative \in Counts /\ c.negative \in Counts
    BY <2>1 DEF PNStates
  <2>3. /\ PointwiseMax(a.positive, a.positive) = a.positive
        /\ PointwiseMax(a.positive, b.positive) = PointwiseMax(b.positive, a.positive)
        /\ PointwiseMax(PointwiseMax(a.positive, b.positive), b.positive)
           = PointwiseMax(a.positive, b.positive)
        /\ PointwiseMax(PointwiseMax(a.positive, b.positive), c.positive)
           = PointwiseMax(a.positive, PointwiseMax(b.positive, c.positive))
    BY <2>2, MaxLaws
  <2>4. /\ PointwiseMax(a.negative, a.negative) = a.negative
        /\ PointwiseMax(a.negative, b.negative) = PointwiseMax(b.negative, a.negative)
        /\ PointwiseMax(PointwiseMax(a.negative, b.negative), b.negative)
           = PointwiseMax(a.negative, b.negative)
        /\ PointwiseMax(PointwiseMax(a.negative, b.negative), c.negative)
           = PointwiseMax(a.negative, PointwiseMax(b.negative, c.negative))
    BY <2>2, MaxLaws
  <2>5. \A x, y : Merge(x, y) = [positive |-> PointwiseMax(x.positive, y.positive),
                                 negative |-> PointwiseMax(x.negative, y.negative)]
    BY <1>2, MergeByType
  <2>6. a = [positive |-> a.positive, negative |-> a.negative]
    BY <2>1 DEF PNStates
  <2>7. \A x : State(x) = x
    BY <1>2 DEF State
  <2> QED
    BY <2>3, <2>4, <2>5, <2>6, <2>7 DEF MergeIsLawful
<1>3. CASE kind.type = "GSet"
  <2>1. a \in [elements : SUBSET Nat]
    BY <1>3, StatesByType
  <2>2. \A x, y : Merge(x, y) = [elements |-> x.elements \cup y.elements]
    BY <1>3, MergeByType
  <2>3. a = [elements |-> a.elements]
    BY <2>1
  <2>4. \A x : State(x) = x
    BY <1>3 DEF State
  <2> QED
    BY <2>2, <2>3, <2>4 DEF MergeIsLawful
<1>4. CASE kind.type = "ORSet"
  <2>1. \A x, y : Merge(x, y) = MergeORSet(x, y)
    BY <1>4, MergeByType
  <2>2. \A x : State(x) = [adds |-> x.adds, removed |-> x.removed]
    BY <1>4 DEF State
  <2>3. \A x, y : /\ MergeORSet(x, y).adds = Both(x.adds, y.adds)
                  /\ MergeORSet(x, y).removed = Both(x.removed, y.removed)
    BY DEF MergeORSet, Both
  <2>4. \A x, y : State(Merge(x, y)) = [adds |-> Both(x.adds, y.adds),
                                        removed |-> Both(x.removed, y.removed)]
    BY <2>1, <2>2, <2>3
  <2>5. \A x, y : /\ Merge(x, y).adds = Both(x.adds, y.adds)
                  /\ Merge(x, y).removed = Both(x.removed, y.removed)
    BY <2>1, <2>3
  <2>6. State(Merge(a, a)) = State(a) /\ State(Merge(a, b)) = State(Merge(b, a))
    BY <2>2, <2>4, BothLaws
  <2>7. State(Merge(Merge(a, b), b)) = State(Merge(a, b))
    BY <2>4, <2>5, BothLaws
  <2>8. State(Merge(Merge(a, b), c)) = State(Merge(a, Merge(b, c)))
    BY <2>4, <2>5, BothLaws
  <2> QED
    BY <2>6, <2>7, <2>8 DEF MergeIsLawful
<1>5. CASE kind.type = "LWW"
  <2>1. a \in LWWStates /\ b \in LWWStates /\ c \in LWWStates
    BY <1>5, StatesByType
  <2>2. \A x, y : Merge(x, y) = MergeLWW(x, y)
    BY <1>5, MergeByType
  <2>3. \A x : State(x) = x
    BY <1>5 DEF State
  <2> QED
    BY <1>5, <2>1, <2>2, <2>3, LWWLaws DEF MergeIsLawful
<1> QED
  BY <1>1, <1>2, <1>3, <1>4, <1>5 DEF KnownType

-----------------------------------------------------------------------------
(* Replicated data types: what the replicas hold.                            *)

Runs  == [running : {TRUE}, pair : Replicas \X Replicas, changed : BOOLEAN, rounds : Nat]
Rests == [running : {FALSE}, converged : BOOLEAN, rounds : Nat]
Rounds == {x \in Runs : NumReplicas > 1} \cup Rests

HeldInv == kind \in Kinds /\ replicas \in [Replicas -> StatesOf] /\ round \in Rounds

LEMMA KindIsKnown == ASSUME HeldInv PROVE KnownType /\ kind.given \subseteq Nat
  BY CrdtAssumption DEF HeldInv, KnownType

LEMMA HeldByKind ==
    ASSUME HeldInv, kind' = kind, replicas' \in [Replicas -> StatesOf], round' \in Rounds
    PROVE  HeldInv'
<1>1. StatesOf' = StatesOf
  BY DEF StatesOf
<1> QED
  BY <1>1 DEF HeldInv

LEMMA UpdateHolds ==
    ASSUME HeldInv, NEW r \in Replicas, NEW s \in StatesOf, NEW log, Update(r, s, log)
    PROVE  HeldInv'
  BY HeldByKind DEF Update, HeldInv

LEMMA ExchangeHolds ==
    ASSUME HeldInv, NEW a \in Replicas, NEW b \in Replicas, Exchange(a, b), round' \in Rounds
    PROVE  HeldInv'
<1>1. Merge(replicas[a], replicas[b]) \in StatesOf
  BY MergeTyped, KindIsKnown DEF HeldInv
<1>2. replicas' = BothSides(a, b, Merge(replicas[a], replicas[b])) /\ kind' = kind
  BY DEF Exchange
<1>3. replicas' \in [Replicas -> StatesOf]
  BY <1>1, <1>2 DEF HeldInv, BothSides
<1> QED
  BY <1>2, <1>3, HeldByKind

LEMMA PutTyped ==
    ASSUME NEW f \in Counts, NEW k \in Nat, NEW v \in Nat
    PROVE  Put(f, k, v) \in Counts
<1> DEFINE D == DOMAIN f \cup {k}
<1>1. D \in SUBSET Nat /\ \A j \in D : (IF j = k THEN v ELSE f[j]) \in Nat
  BY CountsTyped
<1>2. Put(f, k, v) = [j \in D |-> IF j = k THEN v ELSE f[j]]
  BY DEF Put
<1>3. Put(f, k, v) \in [D -> Nat]
  BY <1>1, <1>2
<1> QED
  BY <1>1, <1>3 DEF Counts

LEMMA IncrementHolds ==
    ASSUME HeldInv, NEW r \in Replicas, NEW n \in kind.given, Increment(r, n) \/ Decrement(r, n)
    PROVE  HeldInv'
<1>1. n \in Nat /\ r \in Nat /\ replicas[r] \in StatesOf
  BY KindIsKnown, CrdtAssumption DEF HeldInv, Replicas
<1>2. CASE kind.type = "GCounter"
  <2>1. replicas[r] \in [counts : Counts]
    BY <1>1, <1>2, StatesByType
  <2>2. replicas[r].counts \in Counts
    BY <2>1
  <2>3. Get(replicas[r].counts, r) + n \in Nat
    BY <1>1, <2>2, CountsTyped
  <2>4. Put(replicas[r].counts, r, Get(replicas[r].counts, r) + n) \in Counts
    BY <1>1, <2>2, <2>3, PutTyped
  <2>5. [counts |-> Put(replicas[r].counts, r, Get(replicas[r].counts, r) + n)] \in StatesOf
    BY <1>2, <2>4, StatesByType
  <2> QED
    BY <1>2, <2>5, UpdateHolds DEF Increment, Decrement
<1>3. CASE kind.type = "PNCounter"
  <2>1. replicas[r] \in PNStates
    BY <1>1, <1>3, StatesByType
  <2> DEFINE plus == Put(replicas[r].positive, r, Get(replicas[r].positive, r) + n)
             minus == Put(replicas[r].negative, r, Get(replicas[r].negative, r) + n)
  <2>2. replicas[r].positive \in Counts /\ replicas[r].negative \in Counts
    BY <2>1 DEF PNStates
  <2>3. /\ Get(replicas[r].positive, r) + n \in Nat /\ Get(replicas[r].negative, r) + n \in Nat
    BY <1>1, <2>2, CountsTyped
  <2>4. plus \in Counts /\ minus \in Counts
    BY <1>1, <2>2, <2>3, PutTyped
  <2>5. /\ Increment(r, n) => Update(r, [replicas[r] EXCEPT !.positive = plus], Log("add", n))
        /\ Decrement(r, n) => Update(r, [replicas[r] EXCEPT !.negative = minus], Log("add", -n))
    BY <1>3 DEF Increment, Decrement
  <2> HIDE DEF plus, minus
  <2>6. /\ [replicas[r] EXCEPT !.positive = plus] \in PNStates
        /\ [replicas[r] EXCEPT !.negative = minus] \in PNStates
    BY <2>1, <2>4 DEF PNStates
  <2>7. /\ [replicas[r] EXCEPT !.positive = plus] \in StatesOf
        /\ [replicas[r] EXCEPT !.negative = minus] \in StatesOf
    BY <1>3, <2>6, StatesByType
  <2> QED
    BY <2>5, <2>7, UpdateHolds
<1> QED
  BY <1>2, <1>3 DEF Increment, Decrement

LEMMA ElementHolds ==
    ASSUME HeldInv, NEW r \in Replicas, NEW e \in Elements, Add(r, e) \/ Discard(r, e)
    PROVE  HeldInv'
<1>1. e \in Nat /\ r \in Nat /\ replicas[r] \in StatesOf
  BY CrdtAssumption DEF HeldInv, Replicas
<1>2. CASE kind.type = "GSet"
  <2>1. replicas[r] \in [elements : SUBSET Nat]
    BY <1>1, <1>2, StatesByType
  <2>2. replicas[r].elements \cup {e} \in SUBSET Nat
    BY <1>1, <2>1
  <2>3. [elements |-> replicas[r].elements \cup {e}] \in StatesOf
    BY <1>2, <2>2, StatesByType
  <2> QED
    BY <1>2, <2>3, UpdateHolds DEF Add, Discard
<1>3. CASE kind.type = "ORSet"
  <2> DEFINE s == replicas[r]
             more == s.adds \cup {<<e, FreshTag(r)>>}
             less == s.removed \cup {a[2] : a \in {x \in s.adds : x[1] = e}}
  <2>1. s \in ORSetStates
    BY <1>1, <1>3, StatesByType
  <2>2. s.adds \in SUBSET (Nat \X Tags) /\ s.removed \in SUBSET Tags /\ s.counter \in Nat
    BY <2>1 DEF ORSetStates
  <2>3. FreshTag(r) \in Tags
    BY <1>1, <2>2 DEF FreshTag, Tags
  <2>4. more \in SUBSET (Nat \X Tags) /\ less \in SUBSET Tags /\ s.counter + 1 \in Nat
    BY <1>1, <2>2, <2>3
  <2>5. /\ Add(r, e) => Update(r, [s EXCEPT !.adds = more, !.counter = s.counter + 1], Log("add", e))
        /\ Discard(r, e) => Update(r, [s EXCEPT !.removed = less], Log("remove", e))
    BY <1>3 DEF Add, Discard
  <2> HIDE DEF s, more, less
  <2>6. /\ [s EXCEPT !.adds = more, !.counter = s.counter + 1] \in ORSetStates
        /\ [s EXCEPT !.removed = less] \in ORSetStates
    BY <2>1, <2>4 DEF ORSetStates
  <2>7. /\ [s EXCEPT !.adds = more, !.counter = s.counter + 1] \in StatesOf
        /\ [s EXCEPT !.removed = less] \in StatesOf
    BY <1>3, <2>6, StatesByType
  <2> QED
    BY <2>5, <2>7, UpdateHolds
<1> QED
  BY <1>2, <1>3 DEF Add, Discard

LEMMA SetHolds ==
    ASSUME HeldInv, NEW r \in Replicas, NEW v \in Elements, NEW t \in Nat, SetAt(r, v, t)
    PROVE  HeldInv'
<1>1. v \in Nat /\ r \in Nat /\ kind.type = "LWW" /\ replicas[r] \in LWWStates
  BY CrdtAssumption, StatesByType DEF HeldInv, Replicas, SetAt
<1>2. replicas[r].version \in Counts
  BY <1>1 DEF LWWStates
<1>3. Greater(Get(replicas[r].version, r), t) \in Nat
  BY <1>2, CountsTyped, LargerLaws
<1> DEFINE version == Put(replicas[r].version, r, Greater(Get(replicas[r].version, r), t))
           s == [value |-> v, timestamp |-> t, writer |-> r, version |-> version]
<1>4. version \in Counts
  BY <1>1, <1>2, <1>3, PutTyped
<1>5. PICK log : Update(r, s, log)
  BY DEF SetAt
<1> HIDE DEF version
<1>6. s \in StatesOf
  BY <1>1, <1>4, StatesByType DEF LWWStates
<1> HIDE DEF s
<1> QED
  BY <1>5, <1>6, UpdateHolds

LEMMA NextPairTyped ==
    ASSUME NEW p \in Replicas \X Replicas
    PROVE  NextPair(p) \in Replicas \X Replicas
  BY CrdtAssumption DEF NextPair, Replicas

LEMMA RoundHolds ==
    ASSUME HeldInv, Converge \/ EndOfRound
    PROVE  HeldInv'
<1>1. replicas' \in [Replicas -> StatesOf] /\ kind' = kind
  BY DEF Converge, EndOfRound, HeldInv
<1>2. CASE Converge
  <2>1. round' = [running |-> TRUE, pair |-> <<1, 2>>, changed |-> FALSE, rounds |-> 1]
    BY <1>2 DEF Converge
  <2>2. <<1, 2>> \in Replicas \X Replicas
    BY <1>2, CrdtAssumption DEF Converge, Replicas
  <2>3. round' \in Rounds
    BY <1>2, <2>1, <2>2 DEF Runs, Rounds, Converge
  <2> QED
    BY <1>1, <2>3, HeldByKind
<1>3. CASE EndOfRound
  <2>1. round \in Runs /\ NumReplicas > 1 /\ round.pair = <<NumReplicas, NumReplicas>>
    BY <1>3 DEF EndOfRound, HeldInv, Rounds, Rests
  <2>2. round.pair \in Replicas \X Replicas /\ round.rounds \in Nat
    BY <2>1 DEF Runs
  <2> DEFINE start == <<1, 2>>
             later == round.rounds + 1
  <2>3. start \in Replicas \X Replicas /\ later \in Nat
    BY <2>1, <2>2, CrdtAssumption DEF Replicas
  <2>4. \/ round' = [running |-> FALSE, converged |-> AllEqual, rounds |-> round.rounds]
        \/ round' = [round EXCEPT !.pair = start, !.changed = FALSE, !.rounds = later]
    BY <1>3 DEF EndOfRound
  <2> HIDE DEF start, later
  <2>5. CASE round' = [running |-> FALSE, converged |-> AllEqual, rounds |-> round.rounds]
    <3>1. AllEqual \in BOOLEAN
      BY DEF AllEqual
    <3>2. round' \in Rounds
      BY <2>2, <2>5, <3>1 DEF Rests, Rounds
    <3> QED
      BY <1>1, <3>2, HeldByKind
  <2>6. CASE round' = [round EXCEPT !.pair = start, !.changed = FALSE, !.rounds = later]
    <3>1. round' \in Runs
      BY <2>1, <2>2, <2>3, <2>6 DEF Runs
    <3> QED
      BY <1>1, <2>1, <3>1, HeldByKind DEF Rounds
  <2> QED
    BY <2>4, <2>5, <2>6
<1> QED
  BY <1>2, <1>3

LEMMA ConvergePairHolds ==
    ASSUME HeldInv, ConvergePair
    PROVE  HeldInv'
<1>1. round \in Runs /\ NumReplicas > 1
  BY DEF ConvergePair, HeldInv, Rounds, Rests
<1>2. round.pair \in Replicas \X Replicas /\ round.changed \in BOOLEAN
  BY <1>1 DEF Runs
<1> DEFINE next == NextPair(round.pair)
           changed == round.changed \/ Differs(round.pair)
<1>3. next \in Replicas \X Replicas /\ changed \in BOOLEAN
  BY <1>2, NextPairTyped
<1>4. /\ Exchange(round.pair[1], round.pair[2])
      /\ round' = [round EXCEPT !.pair = next, !.changed = changed]
  BY DEF ConvergePair
<1> HIDE DEF next, changed
<1>5. round' \in Rounds
  BY <1>1, <1>3, <1>4 DEF Runs, Rounds
<1>6. round.pair[1] \in Replicas /\ round.pair[2] \in Replicas
  BY <1>2
<1> QED
  BY <1>4, <1>5, <1>6, ExchangeHolds

LEMMA InitHolds == CrdtInit => HeldInv
<1> SUFFICES ASSUME CrdtInit
             PROVE  HeldInv
  OBVIOUS
<1>1. kind \in Kinds /\ KnownType
  BY CrdtAssumption DEF CrdtInit, KnownType
<1>2. EmptyDict \in Counts
  <2>1. EmptyDict \in [{} -> Nat]
    BY DEF EmptyDict
  <2> QED
    BY <2>1 DEF Counts
<1>3. ASSUME NEW r \in Replicas
      PROVE  (IF kind.type = "LWW" THEN [New EXCEPT !.writer = r] ELSE New) \in StatesOf
  <2>1. CASE kind.type = "GCounter"
    BY <1>2, <2>1, StatesByType DEF New
  <2>2. CASE kind.type = "PNCounter"
    BY <1>2, <2>2, StatesByType DEF New, PNStates
  <2>3. CASE kind.type = "GSet"
    BY <2>3, StatesByType DEF New
  <2>4. CASE kind.type = "ORSet"
    BY <2>4, StatesByType DEF New, ORSetStates
  <2>5. CASE kind.type = "LWW"
    <3>1. New \in LWWStates /\ r \in Nat
      BY <1>2, <2>5, CrdtAssumption DEF New, LWWStates, NoValue, Replicas
    <3>2. [New EXCEPT !.writer = r] \in LWWStates
      BY <3>1 DEF LWWStates
    <3> QED
      BY <2>5, <3>2, StatesByType
  <2> QED
    BY <1>1, <2>1, <2>2, <2>3, <2>4, <2>5 DEF KnownType
<1>4. replicas \in [Replicas -> StatesOf]
  BY <1>3 DEF CrdtInit
<1>5. round \in Rounds
  BY DEF CrdtInit, Idle, Rests, Rounds
<1> QED
  BY <1>1, <1>4, <1>5 DEF HeldInv

LEMMA ReplicasAreHeld == CrdtSpec => []HeldInv
<1>1. HeldInv /\ [CrdtNext]_crdtVars => HeldInv'
  <2> SUFFICES ASSUME HeldInv, [CrdtNext]_crdtVars
               PROVE  HeldInv'
    OBVIOUS
  <2>1. CASE \E r \in Replicas : \E n \in kind.given : Increment(r, n) \/ Decrement(r, n)
    BY <2>1, IncrementHolds
  <2>2. CASE \E r \in Replicas : \E e \in Elements : Add(r, e) \/ Discard(r, e)
    BY <2>2, ElementHolds
  <2>3. CASE \E r \in Replicas : \E e \in Elements : Set(r, e)
    <3>1. PICK r \in Replicas, e \in Elements : SetAt(r, e, replicas[r].timestamp + 1)
      BY <2>3 DEF Set
    <3>2. replicas[r] \in LWWStates
      BY <3>1, StatesByType DEF SetAt, HeldInv
    <3>3. replicas[r].timestamp + 1 \in Nat
      BY <3>2 DEF LWWStates
    <3> QED
      BY <3>1, <3>3, SetHolds
  <2>4. CASE \E r \in Replicas : \E e \in Elements, t \in kind.given : SetAt(r, e, t)
    BY <2>4, SetHolds, KindIsKnown
  <2>5. CASE \E a, b \in Replicas : Sync(a, b)
    <3>1. PICK a \in Replicas, b \in Replicas : Exchange(a, b) /\ round' = round
      BY <2>5 DEF Sync
    <3> QED
      BY <3>1, ExchangeHolds DEF HeldInv
  <2>6. CASE Converge \/ EndOfRound
    BY <2>6, RoundHolds
  <2>7. CASE ConvergePair
    BY <2>7, ConvergePairHolds
  <2>8. CASE UNCHANGED crdtVars
    BY <2>8, HeldByKind DEF crdtVars, HeldInv
  <2> QED
    BY <2>1, <2>2, <2>3, <2>4, <2>5, <2>6, <2>7, <2>8 DEF CrdtNext
<1> QED
  BY <1>1, InitHolds, PTL DEF CrdtSpec

\* Whatever the replicas hold can be merged in any order and any number of times, except
\* under the policy that looks at the version vectors first (merge, verify_crdt_laws).
THEOREM MergesAreLawful ==
    CrdtSpec => [](kind.type # "LWW" \/ kind.policy # "VERSION_VECTOR" => MergeLaws)
<1>1. HeldInv => (kind.type # "LWW" \/ kind.policy # "VERSION_VECTOR" => MergeLaws)
  <2> SUFFICES ASSUME HeldInv, kind.type = "LWW" => kind.policy # "VERSION_VECTOR"
               PROVE  MergeLaws
    OBVIOUS
  <2>1. \A r \in Replicas : replicas[r] \in StatesOf
    BY DEF HeldInv
  <2>2. \A r, s, t \in Replicas : MergeIsLawful(replicas[r], replicas[s], replicas[t])
    BY <2>1, KindIsKnown, AnyTypeIsLawful
  <2> QED
    BY <2>2 DEF MergeIsLawful, MergeLaws
<1> QED
  BY <1>1, ReplicasAreHeld, PTL

-----------------------------------------------------------------------------
(* Replicated sets: the values are those of the updates.                     *)

IsSetKind == kind.type \in {"GSet", "ORSet"}
LogRecord == [op : {"add", "remove"}, of : Elements, seen : SUBSET Nat]

LogInv == /\ updates \in Seq(LogRecord) /\ seen \in [Replicas -> SUBSET (1 .. Len(updates))]
          /\ \A u \in 1 .. Len(updates) : \A v \in updates[u].seen : v \in 1 .. u - 1

GSetInv == \A r \in Replicas : \A x : x \in replicas[r].elements <=> \E u \in seen[r] : x = updates[u].of

\* The adds among the updates whose tags replica r holds as removed: some remove that has
\* reached r had seen them.
Observed(r) == {v \in 1 .. Len(updates) :
                   /\ updates[v].op = "add"
                   /\ \E w \in Ops(r, "remove") : updates[w].of = updates[v].of /\ v \in updates[w].seen}

\* Each add has a tag of its own, not after the counter of the replica that gave it.
Tagged(tag) ==
    /\ tag \in [1 .. Len(updates) -> Tags]
    /\ \A u, v \in 1 .. Len(updates) :
          updates[u].op = "add" /\ updates[v].op = "add" /\ tag[u] = tag[v] => u = v
    /\ \A r \in Replicas : \A u \in 1 .. Len(updates) :
          updates[u].op = "add" /\ tag[u][1] = r => tag[u][2] <= replicas[r].counter
    /\ \A r \in Replicas : \A x :
          x \in replicas[r].adds <=> \E u \in Ops(r, "add") : x = <<updates[u].of, tag[u]>>
    /\ \A r \in Replicas : \A t :
          t \in replicas[r].removed <=> \E v \in Observed(r) : t = tag[v]

SetsInv == IsSetKind => /\ LogInv
                        /\ kind.type = "GSet" => GSetInv
                        /\ kind.type = "ORSet" => \E tag : Tagged(tag)

\* An update of replica r in the log, with what r had seen.
Logs(r, op, e) ==
    LET n == Len(updates) + 1
    IN  /\ updates' \in Seq(LogRecord) /\ Len(updates') = n
        /\ \A u \in 1 .. Len(updates) : updates'[u] = updates[u]
        /\ updates'[n].op = op /\ updates'[n].of = e /\ updates'[n].seen = seen[r]
        /\ seen' \in [Replicas -> SUBSET (1 .. n)]
        /\ seen'[r] = seen[r] \cup {n} /\ \A q \in Replicas \ {r} : seen'[q] = seen[q]

LEMMA UpdateLogs ==
    ASSUME LogInv, NEW r \in Replicas, NEW s, NEW op \in {"add", "remove"}, NEW e \in Elements,
           Update(r, s, Log(op, e))
    PROVE  Logs(r, op, e)
<1> DEFINE log == [Log(op, e) EXCEPT !.seen = seen[r]]
           n == Len(updates) + 1
<1>1. /\ updates \in Seq(LogRecord) /\ Len(updates) \in Nat
      /\ seen \in [Replicas -> SUBSET (1 .. Len(updates))]
  BY DEF LogInv
<1>2. seen[r] \in SUBSET Nat
  BY <1>1
<1>3. log.op = op /\ log.of = e /\ log.seen = seen[r] /\ log \in LogRecord
  BY <1>2 DEF Log, LogRecord
<1>4. updates' = Append(updates, log) /\ seen' = [seen EXCEPT ![r] = @ \cup {n}]
  BY DEF Update
<1> HIDE DEF log
<1>5. /\ updates' \in Seq(LogRecord) /\ Len(updates') = n
      /\ \A u \in 1 .. Len(updates) : updates'[u] = updates[u]
      /\ updates'[n] = log
  BY <1>1, <1>3, <1>4, AppendProperties
<1>6. /\ seen' \in [Replicas -> SUBSET (1 .. n)] /\ seen'[r] = seen[r] \cup {n}
      /\ \A q \in Replicas \ {r} : seen'[q] = seen[q]
  BY <1>1, <1>4
<1> QED
  BY <1>3, <1>5, <1>6 DEF Logs

LEMMA LogsKeeps ==
    ASSUME LogInv, NEW r \in Replicas, NEW op, NEW e, Logs(r, op, e)
    PROVE  LogInv'
<1> DEFINE n == Len(updates) + 1
<1>1. /\ updates' \in Seq(LogRecord) /\ Len(updates') = n /\ Len(updates) \in Nat
      /\ \A u \in 1 .. Len(updates) : updates'[u] = updates[u]
      /\ updates'[n].seen = seen[r] /\ seen[r] \in SUBSET (1 .. Len(updates))
      /\ seen' \in [Replicas -> SUBSET (1 .. n)]
      /\ \A u \in 1 .. Len(updates) : \A v \in updates[u].seen : v \in 1 .. u - 1
  BY DEF Logs, LogInv
<1>2. ASSUME NEW u \in 1 .. n, NEW v \in updates'[u].seen
      PROVE  v \in 1 .. u - 1
  <2>1. CASE u = n
    BY <1>1, <1>2, <2>1
  <2>2. CASE u # n
    <3>1. u \in 1 .. Len(updates) /\ updates'[u] = updates[u]
      BY <1>1, <1>2, <2>2
    <3> QED
      BY <1>1, <1>2, <3>1
  <2> QED
    BY <2>1, <2>2
<1> QED
  BY <1>1, <1>2 DEF LogInv

\* Which updates of a kind have reached a replica after one of replica r.
LEMMA OpsAfter ==
    ASSUME LogInv, NEW r \in Replicas, NEW op, NEW e, Logs(r, op, e), NEW q \in Replicas, NEW o
    PROVE  \A u : u \in Ops(q, o)' <=> \/ u \in Ops(q, o)
                                       \/ q = r /\ o = op /\ u = Len(updates) + 1
<1> DEFINE n == Len(updates) + 1
<1>1. /\ \A u \in seen[q] : u \in 1 .. Len(updates) /\ updates'[u] = updates[u] /\ u # n
      /\ Len(updates) \in Nat
      /\ updates'[n].op = op /\ seen'[r] = seen[r] \cup {n}
      /\ q # r => seen'[q] = seen[q]
  BY DEF Logs, LogInv
<1>2. \A u : u \in Ops(q, o)' <=> u \in seen'[q] /\ updates'[u].op = o
  BY DEF Ops
<1>3. \A u : u \in Ops(q, o) <=> u \in seen[q] /\ updates[u].op = o
  BY DEF Ops
<1>4. CASE q = r
  BY <1>1, <1>2, <1>3, <1>4
<1>5. CASE q # r
  BY <1>1, <1>2, <1>3, <1>5
<1> QED
  BY <1>4, <1>5

LEMMA GSetAdds ==
    ASSUME HeldInv, LogInv, GSetInv, kind.type = "GSet", NEW r \in Replicas, NEW e \in Elements, Add(r, e)
    PROVE  LogInv' /\ GSetInv'
<1> DEFINE n == Len(updates) + 1
<1>1. Update(r, [elements |-> replicas[r].elements \cup {e}], Log("add", e))
  BY DEF Add
<1>2. Logs(r, "add", e)
  BY <1>1, UpdateLogs
<1>3. /\ \A q \in Replicas : \A u \in seen[q] : updates'[u] = updates[u]
      /\ updates'[n].of = e /\ seen'[r] = seen[r] \cup {n}
      /\ \A q \in Replicas \ {r} : seen'[q] = seen[q]
  BY <1>2 DEF Logs, LogInv
<1>4. /\ replicas' = [replicas EXCEPT ![r] = [elements |-> replicas[r].elements \cup {e}]]
      /\ replicas \in [Replicas -> StatesOf]
  BY <1>1 DEF Update, HeldInv
<1>5. /\ replicas'[r].elements = replicas[r].elements \cup {e}
      /\ \A q \in Replicas \ {r} : replicas'[q] = replicas[q]
  BY <1>4
<1>6. ASSUME NEW q \in Replicas, NEW x
      PROVE  x \in replicas'[q].elements <=> \E u \in seen'[q] : x = updates'[u].of
  <2>1. x \in replicas[q].elements <=> \E u \in seen[q] : x = updates[u].of
    BY DEF GSetInv
  <2>2. CASE q = r
    BY <1>3, <1>5, <2>1, <2>2
  <2>3. CASE q # r
    BY <1>3, <1>5, <2>1, <2>3
  <2> QED
    BY <2>2, <2>3
<1> QED
  BY <1>2, <1>6, LogsKeeps DEF GSetInv

\* What the exchange of a and b leaves in a replica is from either.
LEMMA ExchangeSees ==
    ASSUME LogInv, NEW a \in Replicas, NEW b \in Replicas, Exchange(a, b)
    PROVE  /\ LogInv' /\ updates' = updates
           /\ seen'[a] = seen[a] \cup seen[b] /\ seen'[b] = seen[a] \cup seen[b]
           /\ \A q \in Replicas \ {a, b} : seen'[q] = seen[q]
<1>1. /\ seen \in [Replicas -> SUBSET (1 .. Len(updates))] /\ updates' = updates
      /\ seen' = [seen EXCEPT ![a] = seen[a] \cup seen[b], ![b] = seen[a] \cup seen[b]]
  BY DEF Exchange, LogInv
<1>2. /\ seen'[a] = seen[a] \cup seen[b] /\ seen'[b] = seen[a] \cup seen[b]
      /\ \A q \in Replicas \ {a, b} : seen'[q] = seen[q]
      /\ seen' \in [Replicas -> SUBSET (1 .. Len(updates))]
  BY <1>1
<1> QED
  BY <1>1, <1>2 DEF LogInv

LEMMA ExchangeMerges ==
    ASSUME HeldInv, NEW a \in Replicas, NEW b \in Replicas, Exchange(a, b)
    PROVE  /\ replicas'[a] = Merge(replicas[a], replicas[b])
           /\ replicas'[b] = Merge(replicas[a], replicas[b])
           /\ \A q \in Replicas \ {a, b} : replicas'[q] = replicas[q]
           /\ kind' = kind
  BY DEF Exchange, BothSides, HeldInv

LEMMA GSetExchanges ==
    ASSUME HeldInv, LogInv, GSetInv, kind.type = "GSet", NEW a \in Replicas, NEW b \in Replicas,
           Exchange(a, b)
    PROVE  GSetInv'
<1>1. /\ updates' = updates
      /\ seen'[a] = seen[a] \cup seen[b] /\ seen'[b] = seen[a] \cup seen[b]
      /\ \A q \in Replicas \ {a, b} : seen'[q] = seen[q]
  BY ExchangeSees
<1>2. /\ replicas'[a] = Merge(replicas[a], replicas[b])
      /\ replicas'[b] = Merge(replicas[a], replicas[b])
      /\ \A q \in Replicas \ {a, b} : replicas'[q] = replicas[q]
  BY ExchangeMerges
<1>3. Merge(replicas[a], replicas[b]).elements = replicas[a].elements \cup replicas[b].elements
  BY MergeByType
<1>4. ASSUME NEW q \in Replicas, NEW x
      PROVE  x \in replicas'[q].elements <=> \E u \in seen'[q] : x = updates'[u].of
  <2>1. \A s \in Replicas : x \in replicas[s].elements <=> \E u \in seen[s] : x = updates[u].of
    BY DEF GSetInv
  <2>2. CASE q \in {a, b}
    BY <1>1, <1>2, <1>3, <2>1, <2>2
  <2>3. CASE q \notin {a, b}
    BY <1>1, <1>2, <2>1, <2>3
  <2> QED
    BY <2>2, <2>3
<1> QED
  BY <1>4 DEF GSetInv

\* A remove observes the adds of its element that its replica has seen, an add none.
LEMMA ObservedAfter ==
    ASSUME LogInv, NEW r \in Replicas, NEW op \in {"add", "remove"}, NEW e, Logs(r, op, e),
           NEW q \in Replicas, NEW v
    PROVE  v \in Observed(q)' <=> \/ v \in Observed(q)
                                  \/ op = "remove" /\ q = r /\ v \in Ops(r, "add") /\ updates[v].of = e
<1> DEFINE n == Len(updates) + 1
           Saw(w) == updates[w].of = updates[v].of /\ v \in updates[w].seen
           Sees(w) == updates'[w].of = updates'[v].of /\ v \in updates'[w].seen
<1>1. /\ Len(updates) \in Nat /\ Len(updates') = n
      /\ \A u \in 1 .. Len(updates) : updates'[u] = updates[u]
      /\ updates'[n].op = op /\ updates'[n].of = e /\ updates'[n].seen = seen[r]
  BY DEF Logs, LogInv
<1>2. /\ \A s \in Replicas : seen[s] \in SUBSET (1 .. Len(updates))
      /\ \A u \in 1 .. Len(updates) : \A k \in updates[u].seen : k \in 1 .. u - 1
  BY DEF LogInv
<1>3. \A w \in Ops(q, "remove") : w \in 1 .. Len(updates)
  BY <1>2 DEF Ops
<1>4. v \in Observed(q)' <=> /\ v \in 1 .. n /\ updates'[v].op = "add"
                             /\ \E w \in Ops(q, "remove")' : Sees(w)
  BY <1>1 DEF Observed
<1>5. v \in Observed(q) <=> /\ v \in 1 .. Len(updates) /\ updates[v].op = "add"
                            /\ \E w \in Ops(q, "remove") : Saw(w)
  BY DEF Observed
<1>6. \A w : w \in Ops(q, "remove")' <=> \/ w \in Ops(q, "remove")
                                         \/ q = r /\ op = "remove" /\ w = n
  BY OpsAfter
<1>7. CASE v \in 1 .. Len(updates)
  <2>1. \A w \in Ops(q, "remove") : Sees(w) <=> Saw(w)
    BY <1>1, <1>3, <1>7
  <2>2. Sees(n) <=> e = updates[v].of /\ v \in seen[r]
    BY <1>1, <1>7
  <2>3. v \in Ops(r, "add") <=> v \in seen[r] /\ updates[v].op = "add"
    BY DEF Ops
  <2>4. v \in 1 .. n /\ updates'[v] = updates[v]
    BY <1>1, <1>7
  <2> HIDE DEF Saw, Sees, n
  <2> QED
    BY <1>4, <1>5, <1>6, <1>7, <2>1, <2>2, <2>3, <2>4
<1>8. CASE v \notin 1 .. Len(updates)
  <2>1. v \notin Ops(r, "add") /\ v \notin Observed(q)
    BY <1>2, <1>5, <1>8 DEF Ops
  <2>2. ASSUME NEW w \in Ops(q, "remove")', Sees(w)
        PROVE  FALSE
    <3>1. CASE w \in Ops(q, "remove")
      <4>1. w \in 1 .. Len(updates) /\ updates'[w] = updates[w]
        BY <1>1, <1>3, <3>1
      <4>2. v \in updates[w].seen
        BY <2>2, <4>1
      <4>3. v \in 1 .. w - 1
        BY <1>2, <4>1, <4>2
      <4> QED
        BY <1>1, <1>8, <4>1, <4>3
    <3>2. CASE w = n
      BY <1>1, <1>2, <1>8, <2>2, <3>2
    <3> QED
      BY <1>6, <3>1, <3>2
  <2> QED
    BY <1>4, <2>1, <2>2
<1> QED
  BY <1>7, <1>8

\* The replicas' sets change as the log does.
LEMMA ORSetAdds ==
    ASSUME HeldInv, LogInv, kind.type = "ORSet", NEW tag, Tagged(tag),
           NEW r \in Replicas, NEW e \in Elements, Add(r, e)
    PROVE  LogInv' /\ \E t : Tagged(t)'
<1> DEFINE n == Len(updates) + 1
           s == replicas[r]
           more == s.adds \cup {<<e, FreshTag(r)>>}
           next == s.counter + 1
<1>1. Update(r, [s EXCEPT !.adds = more, !.counter = next], Log("add", e))
  BY DEF Add
<1>2. Logs(r, "add", e)
  BY <1>1, UpdateLogs
<1>3. s \in ORSetStates /\ r \in Nat
  BY CrdtAssumption, StatesByType DEF HeldInv, Replicas
<1>4. s.counter \in Nat /\ FreshTag(r) = <<r, next>> /\ FreshTag(r) \in Tags
  BY <1>3 DEF ORSetStates, FreshTag, Tags
<1>5. replicas' = [replicas EXCEPT ![r] = [s EXCEPT !.adds = more, !.counter = next]]
  BY <1>1 DEF Update
<1>6. /\ replicas'[r].adds = s.adds \cup {<<e, FreshTag(r)>>} /\ replicas'[r].removed = s.removed
      /\ replicas'[r].counter = next
      /\ \A q \in Replicas \ {r} : replicas'[q] = replicas[q]
  <2>1. /\ replicas'[r] = [s EXCEPT !.adds = more, !.counter = next]
        /\ \A q \in Replicas \ {r} : replicas'[q] = replicas[q]
    BY <1>5 DEF HeldInv
  <2> HIDE DEF s, next
  <2>2. /\ [s EXCEPT !.adds = more, !.counter = next].adds = more
        /\ [s EXCEPT !.adds = more, !.counter = next].removed = s.removed
        /\ [s EXCEPT !.adds = more, !.counter = next].counter = next
    BY <1>3 DEF ORSetStates
  <2> QED
    BY <2>1, <2>2
<1> PICK fresh : fresh = FreshTag(r)
  OBVIOUS
<1> PICK t : t = [u \in 1 .. n |-> IF u = n THEN fresh ELSE tag[u]]
  OBVIOUS
<1>7. /\ Len(updates) \in Nat /\ Len(updates') = n
      /\ \A u \in 1 .. Len(updates) : updates'[u] = updates[u]
      /\ updates'[n].op = "add" /\ updates'[n].of = e
      /\ \A q \in Replicas : seen[q] \in SUBSET (1 .. Len(updates))
  BY <1>2 DEF Logs, LogInv
<1>8. /\ tag \in [1 .. Len(updates) -> Tags]
      /\ \A u, v \in 1 .. Len(updates) :
            updates[u].op = "add" /\ updates[v].op = "add" /\ tag[u] = tag[v] => u = v
      /\ \A q \in Replicas : \A u \in 1 .. Len(updates) :
            updates[u].op = "add" /\ tag[u][1] = q => tag[u][2] <= replicas[q].counter
      /\ \A q \in Replicas : \A x :
            x \in replicas[q].adds <=> \E u \in Ops(q, "add") : x = <<updates[u].of, tag[u]>>
      /\ \A q \in Replicas : \A x :
            x \in replicas[q].removed <=> \E v \in Observed(q) : x = tag[v]
  BY DEF Tagged
<1>9. /\ t \in [1 .. n -> Tags] /\ t[n] = fresh
      /\ \A u \in 1 .. Len(updates) : t[u] = tag[u] /\ u \in 1 .. n /\ u # n
      /\ \A u \in 1 .. n : u = n \/ u \in 1 .. Len(updates)
  BY <1>4, <1>7, <1>8
<1>10. fresh[1] = r /\ fresh[2] = next
  BY <1>4
<1>11. \A u \in 1 .. Len(updates) : updates[u].op = "add" => tag[u] # fresh
  <2> SUFFICES ASSUME NEW u \in 1 .. Len(updates), updates[u].op = "add", tag[u] = fresh
               PROVE  FALSE
    OBVIOUS
  <2>1. next <= s.counter
    BY <1>8, <1>10
  <2> QED
    BY <1>4, <2>1
<1>12. \A u, v \in 1 .. n : updates'[u].op = "add" /\ updates'[v].op = "add" /\ t[u] = t[v] => u = v
  <2> SUFFICES ASSUME NEW u \in 1 .. n, NEW v \in 1 .. n, updates'[u].op = "add",
                      updates'[v].op = "add", t[u] = t[v], u # v
               PROVE  FALSE
    OBVIOUS
  <2>1. CASE u = n
    BY <1>7, <1>9, <1>11, <2>1
  <2>2. CASE v = n
    BY <1>7, <1>9, <1>11, <2>2
  <2>3. CASE u # n /\ v # n
    BY <1>7, <1>8, <1>9, <2>3
  <2> QED
    BY <2>1, <2>2, <2>3
<1>13. \A q \in Replicas : \A u \in 1 .. n :
          updates'[u].op = "add" /\ t[u][1] = q => t[u][2] <= replicas'[q].counter
  <2> SUFFICES ASSUME NEW q \in Replicas, NEW u \in 1 .. n, updates'[u].op = "add", t[u][1] = q
               PROVE  t[u][2] <= replicas'[q].counter
    OBVIOUS
  <2>1. CASE u = n
    BY <1>4, <1>6, <1>9, <1>10, <2>1
  <2>2. CASE u # n
    <3>1. u \in 1 .. Len(updates) /\ t[u] = tag[u] /\ updates[u].op = "add" /\ t[u] \in Tags
      BY <1>7, <1>9, <2>2
    <3>2. t[u][2] <= replicas[q].counter /\ t[u][2] \in Nat
      BY <1>8, <3>1 DEF Tags
    <3>3. CASE q = r
      BY <1>4, <1>6, <3>2, <3>3
    <3>4. CASE q # r
      BY <1>6, <3>2, <3>4
    <3> QED
      BY <3>3, <3>4
  <2> QED
    BY <2>1, <2>2
<1>14. \A q \in Replicas : \A u : u \in Ops(q, "add")' <=> u \in Ops(q, "add") \/ (q = r /\ u = n)
  BY <1>2, OpsAfter
<1>15. \A q \in Replicas : \A u \in Ops(q, "add") : u \in 1 .. Len(updates)
  BY <1>7 DEF Ops
<1>16. ASSUME NEW q \in Replicas, NEW x
       PROVE  x \in replicas'[q].adds <=> \E u \in Ops(q, "add")' : x = <<updates'[u].of, t[u]>>
  <2>1. \A u \in Ops(q, "add") : <<updates'[u].of, t[u]>> = <<updates[u].of, tag[u]>>
    BY <1>7, <1>9, <1>15
  <2>2. <<updates'[n].of, t[n]>> = <<e, fresh>>
    BY <1>7, <1>9
  <2>3. x \in replicas[q].adds <=> \E u \in Ops(q, "add") : x = <<updates[u].of, tag[u]>>
    BY <1>8
  <2>4. CASE q = r
    <3>1. x \in replicas'[q].adds <=> x \in replicas[q].adds \/ x = <<e, fresh>>
      BY <1>6, <2>4
    <3> QED
      BY <1>14, <2>1, <2>2, <2>3, <2>4, <3>1
  <2>5. CASE q # r
    <3>1. replicas'[q].adds = replicas[q].adds
      BY <1>6, <2>5
    <3> QED
      BY <1>14, <2>1, <2>3, <2>5, <3>1
  <2> QED
    BY <2>4, <2>5
<1>17. ASSUME NEW q \in Replicas, NEW x
       PROVE  x \in replicas'[q].removed <=> \E v \in Observed(q)' : x = t[v]
  <2>1. \A v : v \in Observed(q)' <=> v \in Observed(q)
    BY <1>2, ObservedAfter
  <2>2. \A v \in Observed(q) : t[v] = tag[v]
    BY <1>9 DEF Observed
  <2>3. replicas'[q].removed = replicas[q].removed
    BY <1>6
  <2>4. x \in replicas[q].removed <=> \E v \in Observed(q) : x = tag[v]
    BY <1>8
  <2> QED
    BY <2>1, <2>2, <2>3, <2>4
<1>18. Tagged(t)'
  BY <1>7, <1>9, <1>12, <1>13, <1>16, <1>17 DEF Tagged
<1> QED
  BY <1>2, <1>18, LogsKeeps

LEMMA ORSetRemoves ==
    ASSUME HeldInv, LogInv, kind.type = "ORSet", NEW tag, Tagged(tag),
           NEW r \in Replicas, NEW e \in Elements, Discard(r, e)
    PROVE  LogInv' /\ \E t : Tagged(t)'
<1> DEFINE n == Len(updates) + 1
           s == replicas[r]
           gone == {a[2] : a \in {x \in s.adds : x[1] = e}}
           less == s.removed \cup gone
<1>1. Update(r, [s EXCEPT !.removed = less], Log("remove", e))
  BY DEF Discard
<1>2. Logs(r, "remove", e)
  BY <1>1, UpdateLogs
<1>3. s \in ORSetStates
  BY StatesByType DEF HeldInv
<1>4. replicas' = [replicas EXCEPT ![r] = [s EXCEPT !.removed = less]]
  BY <1>1 DEF Update
<1>5. /\ replicas'[r].adds = s.adds /\ replicas'[r].removed = less
      /\ replicas'[r].counter = s.counter
      /\ \A q \in Replicas \ {r} : replicas'[q] = replicas[q]
  <2> HIDE DEF less
  <2>1. /\ replicas'[r] = [s EXCEPT !.removed = less]
        /\ \A q \in Replicas \ {r} : replicas'[q] = replicas[q]
    BY <1>4 DEF HeldInv
  <2> HIDE DEF s
  <2>2. /\ [s EXCEPT !.removed = less].adds = s.adds
        /\ [s EXCEPT !.removed = less].removed = less
        /\ [s EXCEPT !.removed = less].counter = s.counter
    BY <1>3 DEF ORSetStates
  <2> QED
    BY <2>1, <2>2
<1> PICK any : any = <<0, 0>>
  OBVIOUS
<1> PICK t : t = [u \in 1 .. n |-> IF u = n THEN any ELSE tag[u]]
  OBVIOUS
<1>6. /\ Len(updates) \in Nat /\ Len(updates') = n
      /\ \A u \in 1 .. Len(updates) : updates'[u] = updates[u]
      /\ updates'[n].op = "remove" /\ updates'[n].of = e
      /\ \A q \in Replicas : seen[q] \in SUBSET (1 .. Len(updates))
  BY <1>2 DEF Logs, LogInv
<1>7. /\ tag \in [1 .. Len(updates) -> Tags]
      /\ \A u, v \in 1 .. Len(updates) :
            updates[u].op = "add" /\ updates[v].op = "add" /\ tag[u] = tag[v] => u = v
      /\ \A q \in Replicas : \A u \in 1 .. Len(updates) :
            updates[u].op = "add" /\ tag[u][1] = q => tag[u][2] <= replicas[q].counter
      /\ \A q \in Replicas : \A x :
            x \in replicas[q].adds <=> \E u \in Ops(q, "add") : x = <<updates[u].of, tag[u]>>
      /\ \A q \in Replicas : \A x :
            x \in replicas[q].removed <=> \E v \in Observed(q) : x = tag[v]
  BY DEF Tagged
<1>8. any \in Tags
  BY DEF Tags
<1>9. /\ t \in [1 .. n -> Tags]
      /\ \A u \in 1 .. Len(updates) : t[u] = tag[u] /\ u \in 1 .. n /\ u # n
      /\ \A u \in 1 .. n : u = n \/ u \in 1 .. Len(updates)
  BY <1>6, <1>7, <1>8
<1>10. \A u \in 1 .. n : updates'[u].op = "add" =>
          u \in 1 .. Len(updates) /\ t[u] = tag[u] /\ updates[u].op = "add"
  BY <1>6, <1>9
<1>11. \A u, v \in 1 .. n : updates'[u].op = "add" /\ updates'[v].op = "add" /\ t[u] = t[v] => u = v
  BY <1>7, <1>10
<1>12. \A q \in Replicas : \A u \in 1 .. n :
          updates'[u].op = "add" /\ t[u][1] = q => t[u][2] <= replicas'[q].counter
  <2>1. \A q \in Replicas : replicas'[q].counter = replicas[q].counter
    BY <1>5
  <2> QED
    BY <1>7, <1>10, <2>1
<1>13. \A q \in Replicas : \A u : u \in Ops(q, "add")' <=> u \in Ops(q, "add")
  BY <1>2, OpsAfter
<1>14. \A q \in Replicas : \A u \in Ops(q, "add") : u \in 1 .. Len(updates)
  BY <1>6 DEF Ops
<1>15. ASSUME NEW q \in Replicas, NEW x
       PROVE  x \in replicas'[q].adds <=> \E u \in Ops(q, "add")' : x = <<updates'[u].of, t[u]>>
  <2>1. \A u \in Ops(q, "add") : <<updates'[u].of, t[u]>> = <<updates[u].of, tag[u]>>
    BY <1>6, <1>9, <1>14
  <2>2. x \in replicas[q].adds <=> \E u \in Ops(q, "add") : x = <<updates[u].of, tag[u]>>
    BY <1>7
  <2>3. replicas'[q].adds = replicas[q].adds
    BY <1>5
  <2> QED
    BY <1>13, <2>1, <2>2, <2>3
<1>16. ASSUME NEW x
       PROVE  x \in gone <=> \E u \in Ops(r, "add") : updates[u].of = e /\ x = tag[u]
  <2>1. x \in gone <=> \E a \in s.adds : a[1] = e /\ x = a[2]
    OBVIOUS
  <2>2. \A a : a \in s.adds <=> \E u \in Ops(r, "add") : a = <<updates[u].of, tag[u]>>
    BY <1>7
  <2> HIDE DEF gone, s
  <2>3. \A u \in Ops(r, "add") : <<updates[u].of, tag[u]>> \in s.adds
    BY <2>2
  <2>4. \A u : /\ <<updates[u].of, tag[u]>>[1] = updates[u].of
               /\ <<updates[u].of, tag[u]>>[2] = tag[u]
    OBVIOUS
  <2>5. ASSUME x \in gone
        PROVE  \E u \in Ops(r, "add") : updates[u].of = e /\ x = tag[u]
    <3>1. PICK a \in s.adds : a[1] = e /\ x = a[2]
      BY <2>1, <2>5
    <3>2. PICK u \in Ops(r, "add") : a = <<updates[u].of, tag[u]>>
      BY <2>2
    <3> QED
      BY <2>4, <3>1, <3>2
  <2>6. ASSUME NEW u \in Ops(r, "add"), updates[u].of = e, x = tag[u]
        PROVE  x \in gone
    BY <2>1, <2>3, <2>4, <2>6
  <2> QED
    BY <2>5, <2>6
<1>17. ASSUME NEW q \in Replicas, NEW x
       PROVE  x \in replicas'[q].removed <=> \E v \in Observed(q)' : x = t[v]
  <2>1. \A v : v \in Observed(q)' <=> \/ v \in Observed(q)
                                      \/ q = r /\ v \in Ops(r, "add") /\ updates[v].of = e
    BY <1>2, ObservedAfter
  <2>2. /\ \A v \in Observed(q) : t[v] = tag[v]
        /\ \A v \in Ops(r, "add") : t[v] = tag[v]
    BY <1>9, <1>14 DEF Observed
  <2>3. x \in replicas[q].removed <=> \E v \in Observed(q) : x = tag[v]
    BY <1>7
  <2>4. CASE q = r
    <3>1. x \in replicas'[q].removed <=> x \in replicas[q].removed \/ x \in gone
      BY <1>5, <2>4
    <3> HIDE DEF gone, s, less
    <3>2. x \in gone <=> \E u \in Ops(r, "add") : updates[u].of = e /\ x = tag[u]
      BY <1>16
    <3>3. \A v : v \in Observed(q)' <=> v \in Observed(q) \/ (v \in Ops(r, "add") /\ updates[v].of = e)
      BY <2>1, <2>4
    <3> QED
      BY <2>2, <2>3, <3>1, <3>2, <3>3
  <2>5. CASE q # r
    <3>1. replicas'[q].removed = replicas[q].removed
      BY <1>5, <2>5
    <3> HIDE DEF gone, s, less
    <3> QED
      BY <2>1, <2>2, <2>3, <2>5, <3>1
  <2> QED
    BY <2>4, <2>5
<1>18. Tagged(t)'
  <2> HIDE DEF gone, s, less
  <2> QED
    BY <1>6, <1>9, <1>11, <1>12, <1>15, <1>17 DEF Tagged
<1> QED
  BY <1>2, <1>18, LogsKeeps

LEMMA ORSetExchanges ==
    ASSUME HeldInv, LogInv, kind.type = "ORSet", NEW tag, Tagged(tag),
           NEW a \in Replicas, NEW b \in Replicas, Exchange(a, b)
    PROVE  Tagged(tag)'
<1>1. /\ updates' = updates
      /\ seen'[a] = seen[a] \cup seen[b] /\ seen'[b] = seen[a] \cup seen[b]
      /\ \A q \in Replicas \ {a, b} : seen'[q] = seen[q]
  BY ExchangeSees
<1>2. /\ replicas'[a] = Merge(replicas[a], replicas[b])
      /\ replicas'[b] = Merge(replicas[a], replicas[b])
      /\ \A q \in Replicas \ {a, b} : replicas'[q] = replicas[q]
  BY ExchangeMerges
<1>3. Merge(replicas[a], replicas[b]) = MergeORSet(replicas[a], replicas[b])
  BY MergeByType
<1>4. /\ MergeORSet(replicas[a], replicas[b]).adds = replicas[a].adds \cup replicas[b].adds
      /\ MergeORSet(replicas[a], replicas[b]).removed = replicas[a].removed \cup replicas[b].removed
      /\ MergeORSet(replicas[a], replicas[b]).counter = Greater(replicas[a].counter, replicas[b].counter)
  BY DEF MergeORSet
<1>5. \A q \in Replicas : replicas[q].counter \in Nat
  BY StatesByType DEF HeldInv, ORSetStates
<1>6. \A q \in Replicas : replicas'[q].counter >= replicas[q].counter
  BY <1>2, <1>3, <1>4, <1>5 DEF Greater
<1>7. \A q \in Replicas : replicas'[q].counter \in Nat
  BY <1>2, <1>3, <1>4, <1>5 DEF Greater
<1>8. /\ tag \in [1 .. Len(updates) -> Tags]
      /\ \A u, v \in 1 .. Len(updates) :
            updates[u].op = "add" /\ updates[v].op = "add" /\ tag[u] = tag[v] => u = v
      /\ \A q \in Replicas : \A u \in 1 .. Len(updates) :
            updates[u].op = "add" /\ tag[u][1] = q => tag[u][2] <= replicas[q].counter
      /\ \A q \in Replicas : \A x :
            x \in replicas[q].adds <=> \E u \in Ops(q, "add") : x = <<updates[u].of, tag[u]>>
      /\ \A q \in Replicas : \A x :
            x \in replicas[q].removed <=> \E v \in Observed(q) : x = tag[v]
  BY DEF Tagged
<1>9. ASSUME NEW q \in Replicas, NEW u \in 1 .. Len(updates), updates[u].op = "add", tag[u][1] = q
      PROVE  tag[u][2] <= replicas'[q].counter
  <2>1. tag[u][2] <= replicas[q].counter /\ tag[u][2] \in Nat
    BY <1>8, <1>9 DEF Tags
  <2> QED
    BY <1>5, <1>6, <1>7, <2>1
<1>10. \A o : /\ \A u : u \in Ops(a, o)' <=> u \in Ops(a, o) \/ u \in Ops(b, o)
              /\ \A u : u \in Ops(b, o)' <=> u \in Ops(a, o) \/ u \in Ops(b, o)
              /\ \A q \in Replicas \ {a, b} : \A u : u \in Ops(q, o)' <=> u \in Ops(q, o)
  BY <1>1 DEF Ops
<1>11. /\ \A v : v \in Observed(a)' <=> v \in Observed(a) \/ v \in Observed(b)
       /\ \A v : v \in Observed(b)' <=> v \in Observed(a) \/ v \in Observed(b)
       /\ \A q \in Replicas \ {a, b} : \A v : v \in Observed(q)' <=> v \in Observed(q)
  BY <1>1, <1>10 DEF Observed
<1>12. ASSUME NEW q \in Replicas, NEW x
       PROVE  /\ x \in replicas'[q].adds <=> \E u \in Ops(q, "add")' : x = <<updates'[u].of, tag[u]>>
              /\ x \in replicas'[q].removed <=> \E v \in Observed(q)' : x = tag[v]
  <2>1. \A s \in {a, b, q} :
           /\ x \in replicas[s].adds <=> \E u \in Ops(s, "add") : x = <<updates[u].of, tag[u]>>
           /\ x \in replicas[s].removed <=> \E v \in Observed(s) : x = tag[v]
    BY <1>8
  <2>2. CASE q \in {a, b}
    <3>1. /\ x \in replicas'[q].adds <=> x \in replicas[a].adds \/ x \in replicas[b].adds
          /\ x \in replicas'[q].removed <=> x \in replicas[a].removed \/ x \in replicas[b].removed
      BY <1>2, <1>3, <1>4, <2>2
    <3>2. /\ \A u : u \in Ops(q, "add")' <=> u \in Ops(a, "add") \/ u \in Ops(b, "add")
          /\ \A v : v \in Observed(q)' <=> v \in Observed(a) \/ v \in Observed(b)
      BY <1>10, <1>11, <2>2
    <3>3. /\ x \in replicas[a].adds <=> \E u \in Ops(a, "add") : x = <<updates[u].of, tag[u]>>
          /\ x \in replicas[b].adds <=> \E u \in Ops(b, "add") : x = <<updates[u].of, tag[u]>>
          /\ x \in replicas[a].removed <=> \E v \in Observed(a) : x = tag[v]
          /\ x \in replicas[b].removed <=> \E v \in Observed(b) : x = tag[v]
      BY <2>1
    <3> QED
      BY <1>1, <3>1, <3>2, <3>3
  <2>3. CASE q \notin {a, b}
    BY <1>1, <1>2, <1>10, <1>11, <2>1, <2>3
  <2> QED
    BY <2>2, <2>3
<1> QED
  BY <1>1, <1>8, <1>9, <1>12 DEF Tagged

LEMMA AddRemoveKeepSets ==
    ASSUME HeldInv, SetsInv, NEW r \in Replicas, NEW e \in Elements, Add(r, e) \/ Discard(r, e)
    PROVE  SetsInv'
<1>1. IsSetKind /\ kind' = kind
  BY DEF Add, Discard, Update, IsSetKind
<1>2. CASE kind.type = "GSet"
  <2>1. Add(r, e) /\ LogInv /\ GSetInv
    BY <1>1, <1>2 DEF Discard, SetsInv
  <2>2. LogInv' /\ GSetInv'
    BY <1>2, <2>1, GSetAdds
  <2> QED
    BY <1>1, <1>2, <2>2 DEF SetsInv, IsSetKind
<1>3. CASE kind.type = "ORSet"
  <2>1. PICK tag : Tagged(tag)
    BY <1>1, <1>3 DEF SetsInv
  <2>2. LogInv
    BY <1>1 DEF SetsInv
  <2>3. LogInv' /\ \E t : Tagged(t)'
    BY <1>3, <2>1, <2>2, ORSetAdds, ORSetRemoves
  <2> QED
    BY <1>1, <1>3, <2>3 DEF SetsInv, IsSetKind
<1> QED
  BY <1>1, <1>2, <1>3 DEF IsSetKind

LEMMA ExchangeKeepsSets ==
    ASSUME HeldInv, SetsInv, NEW a \in Replicas, NEW b \in Replicas, Exchange(a, b)
    PROVE  SetsInv'
<1>1. kind' = kind
  BY DEF Exchange
<1>2. CASE kind.type = "GSet"
  <2>1. LogInv /\ GSetInv
    BY <1>2 DEF SetsInv, IsSetKind
  <2>2. LogInv' /\ GSetInv'
    BY <1>2, <2>1, GSetExchanges, ExchangeSees
  <2> QED
    BY <1>1, <1>2, <2>2 DEF SetsInv, IsSetKind
<1>3. CASE kind.type = "ORSet"
  <2>1. LogInv /\ \E tag : Tagged(tag)
    BY <1>3 DEF SetsInv, IsSetKind
  <2>2. PICK tag : Tagged(tag)
    BY <2>1
  <2>3. LogInv' /\ Tagged(tag)'
    BY <1>3, <2>1, <2>2, ORSetExchanges, ExchangeSees
  <2> QED
    BY <1>1, <1>3, <2>3 DEF SetsInv, IsSetKind
<1>4. CASE ~IsSetKind
  BY <1>1, <1>4 DEF SetsInv, IsSetKind
<1> QED
  BY <1>2, <1>3, <1>4 DEF IsSetKind

LEMMA StillSets ==
    ASSUME SetsInv, UNCHANGED <<kind, replicas, updates, seen>>
    PROVE  SetsInv'
<1>1. IsSetKind' <=> IsSetKind
  BY DEF IsSetKind
<1>2. LogInv' <=> LogInv
  BY DEF LogInv
<1>3. GSetInv' <=> GSetInv
  BY DEF GSetInv
<1>4. \A r, o : Ops(r, o)' = Ops(r, o)
  BY DEF Ops
<1>5. \A r : Observed(r)' = Observed(r)
  BY <1>4 DEF Observed
<1>6. ASSUME NEW tag, Tagged(tag)
      PROVE  Tagged(tag)'
  BY <1>4, <1>5, <1>6 DEF Tagged
<1> QED
  BY <1>1, <1>2, <1>3, <1>6 DEF SetsInv

LEMMA SetsStart == CrdtInit => SetsInv
<1> SUFFICES ASSUME CrdtInit, IsSetKind
             PROVE  SetsInv
  BY DEF SetsInv
<1>1. updates = << >> /\ seen = [r \in Replicas |-> {}]
  BY DEF CrdtInit
<1>2. Len(updates) = 0 /\ updates \in Seq(LogRecord)
  BY <1>1
<1>3. LogInv
  BY <1>1, <1>2 DEF LogInv
<1>4. kind.type # "LWW"
  BY DEF IsSetKind
<1>5. \A r \in Replicas : replicas[r] = New
  BY <1>4 DEF CrdtInit
<1>6. CASE kind.type = "GSet"
  <2>1. New = [elements |-> {}]
    BY <1>6 DEF New
  <2>2. GSetInv
    BY <1>1, <1>5, <2>1 DEF GSetInv
  <2> QED
    BY <1>3, <1>6, <2>2 DEF SetsInv
<1>7. CASE kind.type = "ORSet"
  <2>1. New = [adds |-> {}, removed |-> {}, counter |-> 0]
    BY <1>7 DEF New
  <2>2. \A r \in Replicas : Ops(r, "add") = {} /\ Observed(r) = {}
    BY <1>1, <1>2 DEF Ops, Observed
  <2>3. PICK tag : tag = [u \in 1 .. 0 |-> <<0, 0>>]
    OBVIOUS
  <2>4. tag \in [1 .. 0 -> Tags]
    BY <2>3 DEF Tags
  <2>5. Tagged(tag)
    BY <1>2, <1>5, <2>1, <2>2, <2>4 DEF Tagged
  <2> QED
    BY <1>3, <1>7, <2>5 DEF SetsInv
<1> QED
  BY <1>6, <1>7 DEF IsSetKind

LEMMA SetsAreSound == CrdtSpec => [](HeldInv /\ SetsInv)
<1>1. HeldInv /\ SetsInv /\ [CrdtNext]_crdtVars => SetsInv'
  <2> SUFFICES ASSUME HeldInv, SetsInv, [CrdtNext]_crdtVars
               PROVE  SetsInv'
    OBVIOUS
  <2>1. CASE \E r \in Replicas : \E n \in kind.given : Increment(r, n) \/ Decrement(r, n)
    <3>1. ~IsSetKind /\ kind' = kind
      BY <2>1 DEF Increment, Decrement, Update, IsSetKind
    <3> QED
      BY <3>1 DEF SetsInv, IsSetKind
  <2>2. CASE \E r \in Replicas : \E e \in Elements : Add(r, e) \/ Discard(r, e)
    BY <2>2, AddRemoveKeepSets
  <2>3. CASE \E r \in Replicas, e \in Elements : Set(r, e) \/ \E t \in kind.given : SetAt(r, e, t)
    <3>1. \E r \in Replicas, e \in Elements : \E t : SetAt(r, e, t)
      BY <2>3 DEF Set
    <3>2. ~IsSetKind /\ kind' = kind
      BY <3>1 DEF SetAt, Update, IsSetKind
    <3> QED
      BY <3>2 DEF SetsInv, IsSetKind
  <2>4. CASE \E a, b \in Replicas : Sync(a, b)
    BY <2>4, ExchangeKeepsSets DEF Sync
  <2>5. CASE Converge \/ EndOfRound
    BY <2>5, StillSets DEF Converge, EndOfRound
  <2>6. CASE ConvergePair
    <3>1. round.pair[1] \in Replicas /\ round.pair[2] \in Replicas
      BY <2>6 DEF ConvergePair, HeldInv, Rounds, Runs, Rests
    <3> QED
      BY <2>6, <3>1, ExchangeKeepsSets DEF ConvergePair
  <2>7. CASE UNCHANGED crdtVars
    BY <2>7, StillSets DEF crdtVars
  <2> QED
    BY <2>1, <2>2, <2>3, <2>4, <2>5, <2>6, <2>7 DEF CrdtNext
<1>2. CrdtInit => SetsInv
  BY SetsStart
<1> QED
  BY <1>1, <1>2, ReplicasAreHeld, PTL DEF CrdtSpec

\* The elements of an observed-remove set: tags are not shared, so a tag is removed when
\* and only when its own add was observed.
LEMMA ORSetValue ==
    ASSUME LogInv, NEW tag, Tagged(tag), NEW r \in Replicas
    PROVE  {a[1] : a \in {x \in replicas[r].adds : x[2] \notin replicas[r].removed}} =
           {updates[u].of : u \in {v \in Ops(r, "add") :
               \A w \in Ops(r, "remove") : updates[w].of = updates[v].of =>
                                           v \notin updates[w].seen}}
<1>1. /\ \A u, v \in 1 .. Len(updates) :
            updates[u].op = "add" /\ updates[v].op = "add" /\ tag[u] = tag[v] => u = v
      /\ \A x : x \in replicas[r].adds <=> \E u \in Ops(r, "add") : x = <<updates[u].of, tag[u]>>
      /\ \A x : x \in replicas[r].removed <=> \E v \in Observed(r) : x = tag[v]
  BY DEF Tagged
<1>2. \A u \in Ops(r, "add") : u \in 1 .. Len(updates) /\ updates[u].op = "add"
  BY DEF LogInv, Ops
<1>3. \A v \in Observed(r) : v \in 1 .. Len(updates) /\ updates[v].op = "add"
  BY DEF Observed
<1>4. \A u \in Ops(r, "add") : tag[u] \in replicas[r].removed <=> u \in Observed(r)
  BY <1>1, <1>2, <1>3
<1>5. \A u \in Ops(r, "add") :
         u \notin Observed(r) <=> \A w \in Ops(r, "remove") : updates[w].of = updates[u].of =>
                                                             u \notin updates[w].seen
  BY <1>2 DEF Observed
<1>6. \A u : /\ <<updates[u].of, tag[u]>>[1] = updates[u].of
             /\ <<updates[u].of, tag[u]>>[2] = tag[u]
  OBVIOUS
<1> DEFINE kept == {x \in replicas[r].adds : x[2] \notin replicas[r].removed}
           live1 == {v \in Ops(r, "add") : \A w \in Ops(r, "remove") :
                        updates[w].of = updates[v].of => v \notin updates[w].seen}
<1>7. ASSUME NEW a \in kept
      PROVE  \E u \in live1 : a[1] = updates[u].of
  <2>1. PICK u \in Ops(r, "add") : a = <<updates[u].of, tag[u]>>
    BY <1>1
  <2>2. a[1] = updates[u].of /\ a[2] = tag[u] /\ tag[u] \notin replicas[r].removed
    BY <1>6, <2>1
  <2> QED
    BY <1>4, <1>5, <2>2
<1>8. ASSUME NEW u \in live1
      PROVE  \E a \in kept : a[1] = updates[u].of
  <2>1. <<updates[u].of, tag[u]>> \in replicas[r].adds /\ tag[u] \notin replicas[r].removed
    BY <1>1, <1>4, <1>5
  <2>2. <<updates[u].of, tag[u]>> \in kept
    BY <1>6, <2>1
  <2> QED
    BY <1>6, <2>2
<1> HIDE DEF kept, live1
<1>9. {a[1] : a \in kept} = {updates[u].of : u \in live1}
  BY <1>7, <1>8
<1> QED
  BY <1>9 DEF kept, live1

\* A replica of a set holds the elements that the updates that have reached it leave, over
\* whatever path and however often they did, and can be merged in any order (GSet.add,
\* ORSet.add, remove, value, merge, AntiEntropy.sync, converge).
THEOREM SetsConverge == CrdtSpec => [](IsSetKind => ReplicasConverge)
<1>1. HeldInv /\ SetsInv => (IsSetKind => ValueOfUpdates)
  <2> SUFFICES ASSUME HeldInv, SetsInv, IsSetKind
               PROVE  ValueOfUpdates
    OBVIOUS
  <2>1. CASE kind.type = "GSet"
    <3>1. \A r \in Replicas : replicas[r].elements = {updates[u].of : u \in seen[r]}
      BY <2>1 DEF SetsInv, GSetInv
    <3> QED
      BY <2>1, <3>1 DEF ValueOfUpdates
  <2>2. CASE kind.type = "ORSet"
    <3>1. PICK tag : LogInv /\ Tagged(tag)
      BY <2>2 DEF SetsInv
    <3>2. \A r \in Replicas :
             {a[1] : a \in {x \in replicas[r].adds : x[2] \notin replicas[r].removed}} =
             {updates[u].of : u \in {v \in Ops(r, "add") :
                 \A w \in Ops(r, "remove") : updates[w].of = updates[v].of =>
                                             v \notin updates[w].seen}}
      BY <3>1, ORSetValue
    <3> QED
      BY <2>2, <3>2 DEF ValueOfUpdates
  <2> QED
    BY <2>1, <2>2 DEF IsSetKind
<1>2. IsSetKind => kind.type # "LWW" \/ kind.policy # "VERSION_VECTOR"
  BY DEF IsSetKind
<1>3. ValueOfUpdates /\ MergeLaws <=> ReplicasConverge
  BY DEF ReplicasConverge
<1> QED
  BY <1>1, <1>2, <1>3, SetsAreSound, MergesAreLawful, PTL

-----------------------------------------------------------------------------
(* The protocol compiler.                                                    *)

\* A set of natural numbers that has a member has a least one.
LEMMA LeastNumber ==
    ASSUME NEW X \in SUBSET Nat, X # {}
    PROVE  \E x \in X : \A y \in X : x <= y
<1> DEFINE R == OpToRel(<, Nat)
<1>1. IsWellFoundedOn(R, Nat)
  BY NatLessThanWellFounded
<1>2. PICK x \in X : \A y \in X : <<y, x>> \notin R
  <2> HIDE DEF R
  <2> QED
    BY <1>1, WFMin
<1>3. ASSUME NEW y \in X
      PROVE  x <= y
  <2>1. <<y, x>> \in Nat \X Nat /\ <<y, x>>[1] = y /\ <<y, x>>[2] = x
    OBVIOUS
  <2>2. ~(y < x)
    BY <1>2, <2>1 DEF OpToRel
  <2> QED
    BY <2>2
<1> QED
  BY <1>3

\* And one that has a bound has a greatest one.
LEMMA GreatestNumber ==
    ASSUME NEW n \in Nat, NEW X \in SUBSET (1 .. n), X # {}
    PROVE  \E x \in X : \A y \in X : y <= x
<1> DEFINE Y == {n - x : x \in X}
<1>1. Y \in SUBSET Nat /\ Y # {}
  <2>1. \A x \in X : x \in Nat /\ n - x \in Nat
    OBVIOUS
  <2> QED
    BY <2>1
<1>2. PICK z \in Y : \A y \in Y : z <= y
  <2> HIDE DEF Y
  <2> QED
    BY <1>1, LeastNumber
<1>3. PICK x \in X : z = n - x
  OBVIOUS
<1>4. ASSUME NEW y \in X
      PROVE  y <= x
  <2>1. z <= n - y
    BY <1>2
  <2> QED
    BY <2>1, <1>3
<1> QED
  BY <1>4

LEMMA FunctionsAreSeqs == ASSUME NEW S, NEW n \in Nat, NEW f, f = [i \in 1 .. n |-> f[i]],
                                \A i \in 1 .. n : f[i] \in S
                         PROVE  f \in Seq(S) /\ Len(f) = n
  OBVIOUS

ProtocolRow == [op : STRING, node : STRING \ {NoPeer}, link : STRING]
StepKinds == {"EPR_GENERATE", "EPR_HERALD", "LOCAL_BELL", "MEASURE", "CLASSICAL_SEND", "CLASSICAL_RECV",
              "PAULI_CORRECT", "OWNERSHIP_TRANSFER"}
PlanStep == [kind : StepKinds, link : STRING, row : Nat, deps : SUBSET Nat,
             node : STRING \cup {PeerNode(row) : row \in ProtocolRow}]

\* The fields of a template's step.
LEMMA StepFields ==
    \A what, side, dep : /\ St(what, side, dep).kind = what /\ St(what, side, dep).side = side
                         /\ St(what, side, dep).dep = dep
  BY DEF St

LEMMA TemplateTyped ==
    ASSUME NEW op \in SupportedOps
    PROVE  /\ Len(Template(op)) \in Nat \ {0}
           /\ DOMAIN Template(op) = 1 .. Len(Template(op))
           /\ \A k \in 1 .. Len(Template(op)) :
                  Template(op)[k].kind \in StepKinds /\ Template(op)[k].side \in {"a", "b"}
<1> SUFFICES ASSUME NEW t, t = Template(op)
             PROVE  /\ Len(t) \in Nat \ {0} /\ DOMAIN t = 1 .. Len(t)
                    /\ \A k \in 1 .. Len(t) : t[k].kind \in StepKinds /\ t[k].side \in {"a", "b"}
  OBVIOUS
<1>1. CASE op = "ENTANGLE_LINK"
  BY <1>1, StepFields DEF Template, StepKinds
<1>2. CASE op = "EPR_RESERVE"
  BY <1>2, StepFields DEF Template, StepKinds
<1>3. CASE op = "EPR_RELEASE"
  BY <1>3, StepFields DEF Template, StepKinds
<1>4. CASE op = "HERALD"
  BY <1>4, StepFields DEF Template, StepKinds
<1>5. CASE op = "TELEPORT"
  BY <1>5, StepFields DEF Template, StepKinds
<1>6. CASE op = "REMOTE_CNOT"
  BY <1>6, StepFields DEF Template, StepKinds
<1>7. CASE op = "REMOTE_CONTROL"
  BY <1>7, StepFields DEF Template, StepKinds
<1>8. CASE op = "REMOTE_MEASURE"
  BY <1>8, StepFields DEF Template, StepKinds
<1>9. CASE op = "ENTANGLEMENT_SWAP"
  BY <1>9, StepFields DEF Template, StepKinds
<1>10. CASE op = "PURIFY"
  BY <1>10, StepFields DEF Template, StepKinds
<1>11. CASE op = "CLASSICAL_FEEDBACK"
  BY <1>11, StepFields DEF Template, StepKinds
<1>12. CASE op = "QCHANNEL_SEND"
  BY <1>12, StepFields DEF Template, StepKinds
<1>13. CASE op = "QCHANNEL_RECEIVE"
  BY <1>13, StepFields DEF Template, StepKinds
<1>14. CASE op = "SYNC_QCLOCK"
  BY <1>14, StepFields DEF Template, StepKinds
<1> QED
  BY <1>1, <1>2, <1>3, <1>4, <1>5, <1>6, <1>7, <1>8, <1>9, <1>10, <1>11, <1>12, <1>13, <1>14 DEF SupportedOps

\* A template is a chain: each step follows the one before it.
LEMMA TemplateIsChain ==
    ASSUME NEW op \in SupportedOps
    PROVE  \A k \in 1 .. Len(Template(op)) : Template(op)[k].dep = k - 1
<1> SUFFICES ASSUME NEW t, t = Template(op)
             PROVE  \A k \in 1 .. Len(t) : t[k].dep = k - 1
  OBVIOUS
<1>1. CASE op = "ENTANGLE_LINK"
  BY <1>1, StepFields DEF Template
<1>2. CASE op = "EPR_RESERVE"
  BY <1>2, StepFields DEF Template
<1>3. CASE op = "EPR_RELEASE"
  BY <1>3, StepFields DEF Template
<1>4. CASE op = "HERALD"
  BY <1>4, StepFields DEF Template
<1>5. CASE op = "TELEPORT"
  BY <1>5, StepFields DEF Template
<1>6. CASE op = "REMOTE_CNOT"
  BY <1>6, StepFields DEF Template
<1>7. CASE op = "REMOTE_CONTROL"
  BY <1>7, StepFields DEF Template
<1>8. CASE op = "REMOTE_MEASURE"
  BY <1>8, StepFields DEF Template
<1>9. CASE op = "ENTANGLEMENT_SWAP"
  BY <1>9, StepFields DEF Template
<1>10. CASE op = "PURIFY"
  BY <1>10, StepFields DEF Template
<1>11. CASE op = "CLASSICAL_FEEDBACK"
  BY <1>11, StepFields DEF Template
<1>12. CASE op = "QCHANNEL_SEND"
  BY <1>12, StepFields DEF Template
<1>13. CASE op = "QCHANNEL_RECEIVE"
  BY <1>13, StepFields DEF Template
<1>14. CASE op = "SYNC_QCLOCK"
  BY <1>14, StepFields DEF Template
<1> QED
  BY <1>1, <1>2, <1>3, <1>4, <1>5, <1>6, <1>7, <1>8, <1>9, <1>10, <1>11, <1>12, <1>13, <1>14 DEF SupportedOps

\* Before the correction of a template its side receives, before that the other side
\* sends, and before that it measures, unless the row only forwards a bit.
CorrectionGated(op, t, k) ==
    t[k].kind = "PAULI_CORRECT" =>
        /\ k - 2 \in 1 .. Len(t) /\ k - 1 \in 1 .. Len(t)
        /\ t[k - 1].kind = "CLASSICAL_RECV" /\ t[k - 1].side = t[k].side
        /\ t[k - 2].kind = "CLASSICAL_SEND" /\ t[k - 2].side # t[k].side
        /\ \/ op = "CLASSICAL_FEEDBACK"
           \/ k - 3 \in 1 .. Len(t) /\ t[k - 3].kind = "MEASURE" /\ t[k - 3].side = t[k - 2].side
ReceiveGated(t, k) ==
    t[k].kind = "CLASSICAL_RECV" => k - 1 \in 1 .. Len(t) /\ t[k - 1].kind = "CLASSICAL_SEND"

LEMMA TemplateIsGated ==
    ASSUME NEW op \in SupportedOps
    PROVE  \A k \in 1 .. Len(Template(op)) :
               CorrectionGated(op, Template(op), k) /\ ReceiveGated(Template(op), k)
<1> SUFFICES ASSUME NEW t, t = Template(op)
             PROVE  \A k \in 1 .. Len(t) : CorrectionGated(op, t, k) /\ ReceiveGated(t, k)
  OBVIOUS
<1>1. CASE op = "ENTANGLE_LINK"
  BY <1>1, StepFields, SMTT(30) DEF Template, CorrectionGated, ReceiveGated
<1>2. CASE op = "EPR_RESERVE"
  BY <1>2, StepFields, SMTT(30) DEF Template, CorrectionGated, ReceiveGated
<1>3. CASE op = "EPR_RELEASE"
  BY <1>3, StepFields, SMTT(30) DEF Template, CorrectionGated, ReceiveGated
<1>4. CASE op = "HERALD"
  BY <1>4, StepFields, SMTT(30) DEF Template, CorrectionGated, ReceiveGated
<1>5. CASE op = "TELEPORT"
  BY <1>5, StepFields, SMTT(30) DEF Template, CorrectionGated, ReceiveGated
<1>6. CASE op = "REMOTE_CNOT"
  BY <1>6, StepFields, SMTT(30) DEF Template, CorrectionGated, ReceiveGated
<1>7. CASE op = "REMOTE_CONTROL"
  BY <1>7, StepFields, SMTT(30) DEF Template, CorrectionGated, ReceiveGated
<1>8. CASE op = "REMOTE_MEASURE"
  BY <1>8, StepFields, SMTT(30) DEF Template, CorrectionGated, ReceiveGated
<1>9. CASE op = "ENTANGLEMENT_SWAP"
  BY <1>9, StepFields, SMTT(30) DEF Template, CorrectionGated, ReceiveGated
<1>10. CASE op = "PURIFY"
  BY <1>10, StepFields, SMTT(30) DEF Template, CorrectionGated, ReceiveGated
<1>11. CASE op = "CLASSICAL_FEEDBACK"
  BY <1>11, StepFields, SMTT(30) DEF Template, CorrectionGated, ReceiveGated
<1>12. CASE op = "QCHANNEL_SEND"
  BY <1>12, StepFields, SMTT(30) DEF Template, CorrectionGated, ReceiveGated
<1>13. CASE op = "QCHANNEL_RECEIVE"
  BY <1>13, StepFields, SMTT(30) DEF Template, CorrectionGated, ReceiveGated
<1>14. CASE op = "SYNC_QCLOCK"
  BY <1>14, StepFields, SMTT(30) DEF Template, CorrectionGated, ReceiveGated
<1> QED
  BY <1>1, <1>2, <1>3, <1>4, <1>5, <1>6, <1>7, <1>8, <1>9, <1>10, <1>11, <1>12, <1>13, <1>14 DEF SupportedOps

\* The peer of a row is not its node.
LEMMA PeerIsOther ==
    ASSUME NEW row \in ProtocolRow
    PROVE  PeerNode(row) # row.node
  BY DEF ProtocolRow, PeerNode

\* The last step of a link is one of its steps, and none is later.
LEMMA PriorIsLast ==
    ASSUME NEW done \in Seq(PlanStep), NEW link, NEW p \in Prior(done, link)
    PROVE  /\ Prior(done, link) = {p} /\ p \in 1 .. Len(done) /\ done[p].link = link
           /\ \A j \in 1 .. Len(done) : done[j].link = link => j <= p
<1> DEFINE X == OnLink(done, link)
           q == CHOOSE i \in X : \A j \in X : j <= i
<1>1. X \subseteq 1 .. Len(done) /\ Len(done) \in Nat
  BY DEF OnLink
<1>2. X # {} /\ Prior(done, link) = {q}
  BY DEF Prior
<1>3. \E i \in X : \A j \in X : j <= i
  <2> HIDE DEF X
  <2> QED
    BY <1>1, <1>2, GreatestNumber
<1>4. q \in X /\ \A j \in X : j <= q
  BY <1>3
<1>5. p = q
  BY <1>2
<1> HIDE DEF q
<1> QED
  BY <1>1, <1>2, <1>4, <1>5 DEF OnLink

\* A link with a step has a last one.
LEMMA PriorIsThere ==
    ASSUME NEW done, NEW link, link # NoLink, OnLink(done, link) # {}
    PROVE  Prior(done, link) # {}
  BY DEF Prior

\* What the compiler emits: step i of a plan stands at place k of the template of row r.
InPlace(all, row, i, r, k) ==
    /\ all[i].kind = Template(row.op)[k].kind /\ all[i].row = r /\ all[i].link = row.link
    /\ all[i].node = IF Template(row.op)[k].side = "a" THEN row.node ELSE PeerNode(row)
    /\ k > 1 => all[i].deps = {i - 1}
InRow(all, rows, i) ==
    LET row == rows[all[i].row]
    IN  \E k \in 1 .. Len(Template(row.op)) :
           /\ k <= i
           /\ \A j \in 1 .. Len(Template(row.op)) :
                 i - k + j \in 1 .. Len(all) /\ InPlace(all, row, i - k + j, all[i].row, j)
Tied(all, i, j) == all[i].row = all[j].row \/ (all[i].link = all[j].link /\ all[i].link # NoLink)
Chained(all, i) ==
    \A j \in 1 .. i - 1 : Tied(all, i, j) =>
        \E p \in all[i].deps : j <= p /\ (p = j \/ Tied(all, p, j))

\* A plan of the first n rows: it has their steps, one row after the other, each row's at
\* the places of its template, and each step depends on earlier steps, among them one
\* that is not before any earlier step of its row or link.
PlanOf(all, rows, n) ==
    /\ all \in Seq(PlanStep) /\ n <= Len(all)
    /\ \A i \in 1 .. Len(all) : all[i].row \in 1 .. n /\ all[i].deps \subseteq 1 .. i - 1
    /\ \A i, j \in 1 .. Len(all) : i <= j => all[i].row <= all[j].row
    /\ \A i \in 1 .. Len(all) : InRow(all, rows, i)
    /\ \A i \in 1 .. Len(all) : Chained(all, i)

Supported(rows) == rows \in Seq(ProtocolRow) /\ \A r \in 1 .. Len(rows) : rows[r].op \in SupportedOps

\* The steps a row adds to a plan.
Appended(all, t, done, row, r) ==
    /\ all \in Seq(PlanStep) /\ Len(all) = Len(done) + Len(t) /\ Len(t) \in Nat \ {0}
    /\ \A i \in 1 .. Len(done) : all[i] = done[i]
    /\ \A k \in 1 .. Len(t) : InPlace(all, row, Len(done) + k, r, k)
    /\ all[Len(done) + 1].deps = Prior(done, row.link)
LEMMA RowAppended ==
    ASSUME NEW done \in Seq(PlanStep), NEW row \in ProtocolRow, row.op \in SupportedOps,
           NEW r \in Nat \ {0}
    PROVE  Appended(done \o RowSteps(done, row, r), Template(row.op), done, row, r)
<1> SUFFICES ASSUME NEW all, all = done \o RowSteps(done, row, r),
                    NEW t, t = Template(row.op)
             PROVE  Appended(all, t, done, row, r)
  OBVIOUS
<1> DEFINE new == RowSteps(done, row, r)
<1>1. /\ Len(t) \in Nat \ {0} /\ DOMAIN t = 1 .. Len(t)
      /\ \A k \in 1 .. Len(t) : t[k].kind \in StepKinds /\ t[k].side \in {"a", "b"} /\ t[k].dep = k - 1
  BY TemplateTyped, TemplateIsChain
<1>2. new = [k \in 1 .. Len(t) |->
                [kind |-> t[k].kind, link |-> row.link, row |-> r,
                 node |-> IF t[k].side = "a" THEN row.node ELSE PeerNode(row),
                 deps |-> IF t[k].dep > 0 THEN {Len(done) + t[k].dep}
                          ELSE IF k = 1 THEN Prior(done, row.link) ELSE {}]]
  BY <1>1 DEF RowSteps
<1>3. Prior(done, row.link) \in SUBSET Nat
  BY PriorIsLast
<1>4. ASSUME NEW k \in 1 .. Len(t)
      PROVE  /\ new[k].kind = t[k].kind /\ new[k].link = row.link /\ new[k].row = r
             /\ new[k].node = IF t[k].side = "a" THEN row.node ELSE PeerNode(row)
             /\ new[k].deps = IF k > 1 THEN {Len(done) + k - 1} ELSE Prior(done, row.link)
             /\ new[k] \in PlanStep
  <2>1. t[k].dep = k - 1 /\ t[k].kind \in StepKinds /\ Len(done) \in Nat
    BY <1>1
  <2>2. new[k] = [kind |-> t[k].kind, link |-> row.link, row |-> r,
                  node |-> IF t[k].side = "a" THEN row.node ELSE PeerNode(row),
                  deps |-> IF t[k].dep > 0 THEN {Len(done) + t[k].dep}
                           ELSE IF k = 1 THEN Prior(done, row.link) ELSE {}]
    BY <1>2
  <2>3. new[k].deps = IF k > 1 THEN {Len(done) + k - 1} ELSE Prior(done, row.link)
    BY <2>1, <2>2
  <2>4. new[k].deps \in SUBSET Nat
    BY <2>1, <2>3, <1>3
  <2>5. new[k].node \in STRING \cup {PeerNode(x) : x \in ProtocolRow} /\ row.link \in STRING
    BY <2>2 DEF ProtocolRow
  <2> QED
    BY <2>1, <2>2, <2>3, <2>4, <2>5 DEF PlanStep
<1> HIDE DEF new
<1>5. new \in Seq(PlanStep) /\ Len(new) = Len(t)
  <2>1. new = [k \in 1 .. Len(t) |-> new[k]]
    BY <1>2
  <2>2. Len(t) \in Nat /\ \A k \in 1 .. Len(t) : new[k] \in PlanStep
    BY <1>1, <1>4
  <2> QED
    BY <2>1, <2>2, FunctionsAreSeqs
<1>6. all \in Seq(PlanStep) /\ Len(all) = Len(done) + Len(t)
  BY <1>5, ConcatProperties DEF new
<1>7. \A i \in 1 .. Len(done) : all[i] = done[i]
  BY <1>5, ConcatProperties DEF new
<1>8. \A k \in 1 .. Len(t) : all[Len(done) + k] = new[k]
  <2> SUFFICES ASSUME NEW k \in 1 .. Len(t)
               PROVE  all[Len(done) + k] = new[k]
    OBVIOUS
  <2>1. Len(done) \in Nat /\ Len(done) + k \in 1 .. Len(done) + Len(new)
        /\ ~(Len(done) + k <= Len(done)) /\ Len(done) + k - Len(done) = k
    BY <1>1, <1>5
  <2> QED
    BY <2>1, <1>5, ConcatProperties DEF new
<1>9. \A k \in 1 .. Len(t) : InPlace(all, row, Len(done) + k, r, k)
  <2> SUFFICES ASSUME NEW k \in 1 .. Len(t)
               PROVE  InPlace(all, row, Len(done) + k, r, k)
    OBVIOUS
  <2>1. all[Len(done) + k] = new[k]
    BY <1>8
  <2>2. k > 1 => new[k].deps = {Len(done) + k - 1}
    BY <1>4
  <2>3. /\ new[k].kind = Template(row.op)[k].kind /\ new[k].row = r /\ new[k].link = row.link
        /\ new[k].node = IF Template(row.op)[k].side = "a" THEN row.node ELSE PeerNode(row)
    BY <1>4
  <2> QED
    BY <2>1, <2>2, <2>3 DEF InPlace
<1>10. all[Len(done) + 1].deps = Prior(done, row.link)
  <2>1. 1 \in 1 .. Len(t) /\ ~(1 > 1)
    BY <1>1
  <2>2. all[Len(done) + 1] = new[1]
    BY <2>1, <1>8
  <2>3. new[1].deps = Prior(done, row.link)
    BY <2>1, <1>4
  <2> QED
    BY <2>2, <2>3
<1> QED
  BY <1>1, <1>6, <1>7, <1>9, <1>10 DEF Appended

\* Adding a row to a plan of the rows before it makes a plan of one row more.
LEMMA RowKeepsPlan ==
    ASSUME NEW rows, Supported(rows), NEW r \in 1 .. Len(rows), NEW done,
           PlanOf(done, rows, r - 1)
    PROVE  PlanOf(done \o RowSteps(done, rows[r], r), rows, r)
<1> DEFINE L == Len(done)
           row == rows[r]
           t == Template(rows[r].op)
           m == Len(t)
<1> SUFFICES ASSUME NEW all, all = done \o RowSteps(done, rows[r], r)
             PROVE  PlanOf(all, rows, r)
  OBVIOUS
<1>1. /\ row \in ProtocolRow /\ row.op \in SupportedOps /\ r \in Nat \ {0} /\ done \in Seq(PlanStep)
      /\ L \in Nat /\ r - 1 <= L
  BY DEF Supported, PlanOf
<1>2. /\ all \in Seq(PlanStep) /\ Len(all) = L + m /\ m \in Nat \ {0}
      /\ \A i \in 1 .. L : all[i] = done[i]
      /\ \A k \in 1 .. m : InPlace(all, row, L + k, r, k)
      /\ all[L + 1].deps = Prior(done, row.link)
  <2> HIDE DEF m, L, t
  <2>1. all = done \o RowSteps(done, row, r) /\ t = Template(row.op)
    BY DEF t
  <2> HIDE DEF row
  <2>2. Appended(all, t, done, row, r)
    <3>1. done \in Seq(PlanStep) /\ row \in ProtocolRow /\ row.op \in SupportedOps /\ r \in Nat \ {0}
      BY <1>1
    <3> QED
      BY <3>1, <2>1, RowAppended
  <2> QED
    BY <2>2 DEF L, m, Appended
<1> HIDE DEF L, row, t, m
<1>3. ASSUME NEW i \in 1 .. Len(all)
      PROVE  i \in 1 .. L \/ (i - L \in 1 .. m /\ i = L + (i - L) /\ i > L)
  BY <1>1, <1>2
<1>4. ASSUME NEW k \in 1 .. m
      PROVE  all[L + k].row = r /\ all[L + k].link = row.link /\ (k > 1 => all[L + k].deps = {(L + k) - 1})
  <2>1. InPlace(all, row, L + k, r, k)
    BY <1>2
  <2> QED
    BY <2>1 DEF InPlace
<1>5. ASSUME NEW i \in 1 .. L
      PROVE  all[i].row \in 1 .. r - 1 /\ all[i].deps \subseteq 1 .. i - 1 /\ i \in 1 .. Len(all)
  <2>1. all[i] = done[i]
    BY <1>2
  <2>2. done[i].row \in 1 .. r - 1 /\ done[i].deps \subseteq 1 .. i - 1
    BY DEF PlanOf, L
  <2> QED
    BY <2>1, <2>2, <1>1, <1>2
<1>6. r <= Len(all)
  BY <1>1, <1>2
<1>7. ASSUME NEW i \in 1 .. Len(all)
      PROVE  all[i].row \in 1 .. r /\ all[i].deps \subseteq 1 .. i - 1
  <2>1. CASE i \in 1 .. L
    <3>1. all[i].row \in 1 .. r - 1 /\ all[i].deps \subseteq 1 .. i - 1
      BY <2>1, <1>5
    <3>2. 1 .. r - 1 \subseteq 1 .. r
      BY <1>1
    <3> QED
      BY <3>1, <3>2
  <2>2. CASE i - L \in 1 .. m /\ i = L + (i - L) /\ i > L
    <3>1. all[i].row = r
      BY <2>2, <1>4
    <3>2. CASE i - L > 1
      <4>1. all[i].deps = {(L + (i - L)) - 1}
        BY <2>2, <1>4, <3>2
      <4> QED
        BY <4>1, <2>2, <3>1, <3>2, <1>1
    <3>3. CASE i - L = 1
      <4>1. all[i].deps = Prior(done, row.link)
        BY <3>3, <2>2, <1>1, <1>2
      <4>2. \A p \in Prior(done, row.link) : p \in 1 .. L
        BY <1>1, PriorIsLast DEF L
      <4> QED
        BY <4>1, <4>2, <3>1, <3>3, <2>2, <1>1
    <3> QED
      BY <3>2, <3>3, <2>2, <1>2
  <2> QED
    BY <2>1, <2>2, <1>3
<1>8. ASSUME NEW i \in 1 .. Len(all), NEW j \in 1 .. Len(all), i <= j
      PROVE  all[i].row <= all[j].row
  <2>1. CASE j \in 1 .. L
    <3>1. i \in 1 .. L /\ all[i] = done[i] /\ all[j] = done[j]
      BY <1>8, <2>1, <1>1, <1>2
    <3> QED
      BY <3>1, <2>1, <1>8 DEF PlanOf, L
  <2>2. CASE j - L \in 1 .. m /\ j = L + (j - L) /\ j > L
    <3>1. all[j].row = r /\ all[i].row \in 1 .. r
      BY <2>2, <1>4, <1>7
    <3> QED
      BY <3>1, <1>1
  <2> QED
    BY <2>1, <2>2, <1>3
<1>9. ASSUME NEW i \in 1 .. Len(all)
      PROVE  InRow(all, rows, i)
  <2>1. CASE i \in 1 .. L
    <3>1. InRow(done, rows, i) /\ all[i] = done[i]
      BY <2>1, <1>2 DEF PlanOf, L
    <3> DEFINE was == rows[done[i].row]
    <3>2. PICK k \in 1 .. Len(Template(was.op)) :
             /\ k <= i
             /\ \A j \in 1 .. Len(Template(was.op)) :
                   i - k + j \in 1 .. L /\ InPlace(done, was, i - k + j, done[i].row, j)
      BY <3>1 DEF InRow, L
    <3>3. ASSUME NEW j \in 1 .. Len(Template(was.op))
          PROVE  i - k + j \in 1 .. Len(all) /\ InPlace(all, was, i - k + j, all[i].row, j)
      <4>1. i - k + j \in 1 .. L /\ InPlace(done, was, i - k + j, done[i].row, j)
        BY <3>2
      <4>2. all[i - k + j] = done[i - k + j]
        BY <4>1, <1>2
      <4>3. i - k + j \in 1 .. Len(all)
        BY <4>1, <1>5
      <4> QED
        BY <4>1, <4>2, <4>3, <3>1 DEF InPlace
    <3> QED
      BY <3>1, <3>2, <3>3 DEF InRow
  <2>2. CASE i - L \in 1 .. m /\ i = L + (i - L) /\ i > L
    <3>1. all[i].row = r
      BY <2>2, <1>4
    <3>2. ASSUME NEW j \in 1 .. m
          PROVE  i - (i - L) + j \in 1 .. Len(all) /\ InPlace(all, row, i - (i - L) + j, r, j)
      <4>1. L \in Nat /\ m \in Nat /\ Len(all) = L + m
        BY <1>1, <1>2
      <4>2. L + j \in 1 .. Len(all)
        BY <4>1
      <4>3. i - (i - L) + j = L + j
        BY <4>1
      <4>4. InPlace(all, row, L + j, r, j)
        BY <1>2
      <4> QED
        BY <4>2, <4>3, <4>4
    <3>3. i - L <= i /\ i - L \in 1 .. m
      BY <2>2, <1>1
    <3> QED
      BY <3>1, <3>2, <3>3 DEF InRow, row, m, t
  <2> QED
    BY <2>1, <2>2, <1>3
<1>10. ASSUME NEW i \in 1 .. Len(all)
       PROVE  Chained(all, i)
  <2>1. CASE i \in 1 .. L
    <3>1. Chained(done, i) /\ all[i] = done[i] /\ done[i].deps \subseteq 1 .. i - 1
      BY <2>1, <1>2 DEF PlanOf, L
    <3>2. ASSUME NEW j \in 1 .. i - 1, Tied(all, i, j)
          PROVE  \E p \in all[i].deps : j <= p /\ (p = j \/ Tied(all, p, j))
      <4>1. all[j] = done[j] /\ \A p \in 1 .. i - 1 : all[p] = done[p]
        <5>1. \A p \in 1 .. i - 1 : p \in 1 .. L
          BY <2>1, <1>1
        <5> QED
          BY <5>1, <1>2
      <4>2. Tied(done, i, j)
        BY <4>1, <3>1, <3>2 DEF Tied
      <4>3. PICK p \in done[i].deps : j <= p /\ (p = j \/ Tied(done, p, j))
        BY <4>2, <3>1 DEF Chained
      <4>4. all[p] = done[p]
        BY <4>1, <3>1
      <4> QED
        BY <4>1, <4>3, <4>4, <3>1 DEF Tied
    <3> QED
      BY <3>2 DEF Chained
  <2>2. CASE i - L \in 1 .. m /\ i = L + (i - L) /\ i > L
    <3>1. all[i].row = r /\ all[i].link = row.link
      BY <2>2, <1>4
    <3>2. ASSUME NEW j \in 1 .. i - 1, Tied(all, i, j)
          PROVE  \E p \in all[i].deps : j <= p /\ (p = j \/ Tied(all, p, j))
      <4>1. CASE i - L > 1
        <5>1. all[i].deps = {i - 1} /\ i - 1 - L \in 1 .. m /\ i - 1 = L + (i - 1 - L)
          <6>1. all[i].deps = {(L + (i - L)) - 1}
            BY <2>2, <1>4, <4>1
          <6> QED
            BY <6>1, <2>2, <4>1, <1>1, <1>2
        <5>2. all[i - 1].row = r /\ all[i - 1].link = row.link
          BY <5>1, <1>4
        <5>3. Tied(all, i - 1, j)
          BY <5>2, <3>1, <3>2 DEF Tied
        <5>4. j <= i - 1
          BY <2>2, <1>1
        <5> QED
          BY <5>1, <5>3, <5>4
      <4>2. CASE i - L = 1
        <5>1. all[i].deps = Prior(done, row.link) /\ j \in 1 .. L
          <6>1. i = L + 1
            BY <4>2, <2>2
          <6>2. j \in 1 .. L
            BY <6>1, <1>1
          <6> QED
            BY <6>1, <6>2, <1>2
        <5>2. all[j].row # r /\ all[j] = done[j]
          <6>1. j \in 1 .. L /\ all[j] = done[j]
            BY <5>1, <1>2
          <6>2. all[j].row \in 1 .. r - 1
            BY <6>1, <1>5
          <6> QED
            BY <6>1, <6>2, <1>1
        <5>3. all[j].link = row.link /\ row.link # NoLink
          BY <5>2, <3>1, <3>2 DEF Tied
        <5>4. j \in OnLink(done, row.link)
          BY <5>1, <5>2, <5>3, <1>1 DEF OnLink, L
        <5>5. PICK p \in Prior(done, row.link) : TRUE
          BY <5>3, <5>4, PriorIsThere
        <5>6. p \in 1 .. L /\ done[p].link = row.link /\ j <= p
          BY <5>1, <5>2, <5>3, <1>1, PriorIsLast DEF L
        <5>7. Tied(all, p, j)
          BY <5>3, <5>6, <1>2 DEF Tied
        <5> QED
          BY <5>1, <5>5, <5>6, <5>7
      <4> QED
        BY <4>1, <4>2, <2>2, <1>2
    <3> QED
      BY <3>2 DEF Chained
  <2> QED
    BY <2>1, <2>2, <1>3
<1> QED
  BY <1>2, <1>6, <1>7, <1>8, <1>9, <1>10 DEF PlanOf

\* What one row makes of the plan so far, and the plans after each row.
Extended(f, i, rows) == IF i = 0 THEN <<>> ELSE f[i - 1] \o RowSteps(f[i - 1], rows[i], i)
Extends(f, n, rows) == f = [i \in 0 .. n |-> Extended(f, i, rows)]

\* The recursion of Compiled defines something, whatever the rows.
LEMMA PlansExist ==
    ASSUME NEW rows, NEW n \in Nat
    PROVE  \E f : Extends(f, n, rows)
<1> DEFINE Bad == {m \in Nat : ~\E f : Extends(f, m, rows)}
<1> SUFFICES ASSUME Bad # {} PROVE FALSE
  OBVIOUS
<1>1. PICK m \in Bad : \A y \in Bad : m <= y
  <2>1. Bad \in SUBSET Nat
    OBVIOUS
  <2> HIDE DEF Bad
  <2> QED
    BY <2>1, LeastNumber
<1>2. m \in Nat /\ ~\E f : Extends(f, m, rows)
  BY <1>1
<1>3. CASE m = 0
  <2>1. Extends([i \in 0 .. 0 |-> <<>>], 0, rows)
    BY DEF Extends, Extended
  <2> QED
    BY <1>2, <1>3, <2>1
<1>4. CASE m # 0
  <2>1. m - 1 \in Nat /\ m - 1 \notin Bad
    BY <1>1, <1>2, <1>4
  <2>2. PICK f : Extends(f, m - 1, rows)
    BY <2>1
  <2> DEFINE g == [i \in 0 .. m |-> IF i = m THEN Extended(f, m, rows) ELSE f[i]]
  <2>3. ASSUME NEW i \in 0 .. m
        PROVE  g[i] = Extended(g, i, rows)
    <3>1. CASE i = 0
      BY <2>2, <3>1, <1>2, <1>4 DEF Extends, Extended
    <3>2. CASE i # 0
      <4>1. i - 1 \in 0 .. m /\ i - 1 # m /\ g[i - 1] = f[i - 1]
        BY <1>2, <3>2
      <4>2. Extended(g, i, rows) = Extended(f, i, rows)
        BY <4>1, <3>2 DEF Extended
      <4>3. CASE i = m
        BY <4>2, <4>3
      <4>4. CASE i # m
        <5>1. i \in 0 .. m - 1
          BY <4>4, <1>2
        <5>2. f[i] = Extended(f, i, rows)
          BY <2>2, <5>1 DEF Extends
        <5> QED
          BY <4>2, <4>4, <5>2
      <4> QED
        BY <4>3, <4>4
    <3> QED
      BY <3>1, <3>2
  <2>4. g = [i \in 0 .. m |-> g[i]]
    OBVIOUS
  <2>5. [i \in 0 .. m |-> g[i]] = [i \in 0 .. m |-> Extended(g, i, rows)]
    BY <2>3
  <2>6. Extends(g, m, rows)
    BY <2>4, <2>5 DEF Extends
  <2> QED
    BY <2>6, <1>2
<1> QED
  BY <1>3, <1>4

\* What the compiler makes of the rows of a supported program is their plan.
LEMMA CompiledIsPlan ==
    ASSUME NEW rows, Supported(rows)
    PROVE  PlanOf(Compiled(rows), rows, Len(rows))
<1>1. Len(rows) \in Nat
  BY DEF Supported
<1> DEFINE done == CHOOSE f : f = [r \in 0 .. Len(rows) |-> Extended(f, r, rows)]
<1>2. Compiled(rows) = done[Len(rows)]
  BY DEF Compiled, Extended
<1>3. Extends(done, Len(rows), rows)
  BY <1>1, PlansExist DEF Extends
<1> HIDE DEF done
<1>4. \A r \in 0 .. Len(rows) : done[r] = Extended(done, r, rows)
  BY <1>3 DEF Extends
<1> DEFINE Bad == {m \in Nat : m <= Len(rows) /\ ~PlanOf(done[m], rows, m)}
<1>5. Bad = {}
  <2> SUFFICES ASSUME Bad # {} PROVE FALSE
    OBVIOUS
  <2>1. PICK m \in Bad : \A y \in Bad : m <= y
    <3>1. Bad \in SUBSET Nat
      OBVIOUS
    <3> HIDE DEF Bad
    <3> QED
      BY <3>1, LeastNumber
  <2>2. m \in 0 .. Len(rows) /\ ~PlanOf(done[m], rows, m) /\ done[m] = Extended(done, m, rows)
    BY <2>1, <1>1, <1>4
  <2>3. CASE m = 0
    <3>1. done[m] = <<>>
      BY <2>2, <2>3 DEF Extended
    <3>2. PlanOf(<<>>, rows, 0)
      BY DEF PlanOf
    <3> QED
      BY <3>1, <3>2, <2>2, <2>3
  <2>4. CASE m # 0
    <3>1. m \in 1 .. Len(rows) /\ m - 1 \in Nat /\ m - 1 <= Len(rows) /\ ~(m <= m - 1)
      BY <2>2, <2>4, <1>1
    <3>2. m - 1 \notin Bad
      BY <3>1, <2>1
    <3>3. PlanOf(done[m - 1], rows, m - 1)
      BY <3>1, <3>2
    <3>4. done[m] = done[m - 1] \o RowSteps(done[m - 1], rows[m], m)
      BY <2>2, <2>4 DEF Extended
    <3> HIDE DEF Bad
    <3> QED
      BY <3>1, <3>3, <3>4, <2>2, RowKeepsPlan
  <2> QED
    BY <2>3, <2>4
<1>6. PlanOf(done[Len(rows)], rows, Len(rows))
  BY <1>1, <1>5
<1> QED
  BY <1>2, <1>6

\* What one pass of the topological order places, and the passes.
PlacedIn(f, n, all) == IF n = 0 THEN {} ELSE {i \in DOMAIN all : all[i].deps \subseteq f[n - 1]}
Passes(f, n, all) == f = [i \in 0 .. n |-> PlacedIn(f, i, all)]

\* The recursion of Placed defines something.
LEMMA PassesExist ==
    ASSUME NEW all, NEW n \in Nat
    PROVE  \E f : Passes(f, n, all)
<1> DEFINE Bad == {m \in Nat : ~\E f : Passes(f, m, all)}
<1> SUFFICES ASSUME Bad # {} PROVE FALSE
  OBVIOUS
<1>1. PICK m \in Bad : \A y \in Bad : m <= y
  <2>1. Bad \in SUBSET Nat
    OBVIOUS
  <2> HIDE DEF Bad
  <2> QED
    BY <2>1, LeastNumber
<1>2. m \in Nat /\ ~\E f : Passes(f, m, all)
  BY <1>1
<1>3. CASE m = 0
  <2>1. Passes([i \in 0 .. 0 |-> {}], 0, all)
    BY DEF Passes, PlacedIn
  <2> QED
    BY <1>2, <1>3, <2>1
<1>4. CASE m # 0
  <2>1. m - 1 \in Nat /\ m - 1 \notin Bad
    BY <1>1, <1>2, <1>4
  <2>2. PICK f : Passes(f, m - 1, all)
    BY <2>1
  <2> DEFINE g == [i \in 0 .. m |-> IF i = m THEN PlacedIn(f, m, all) ELSE f[i]]
  <2>3. ASSUME NEW i \in 0 .. m
        PROVE  g[i] = PlacedIn(g, i, all)
    <3>1. CASE i = 0
      BY <2>2, <3>1, <1>2, <1>4 DEF Passes, PlacedIn
    <3>2. CASE i # 0
      <4>1. i - 1 \in 0 .. m /\ i - 1 # m /\ g[i - 1] = f[i - 1]
        BY <1>2, <3>2
      <4>2. PlacedIn(g, i, all) = PlacedIn(f, i, all)
        BY <4>1, <3>2 DEF PlacedIn
      <4>3. CASE i = m
        BY <4>2, <4>3
      <4>4. CASE i # m
        <5>1. i \in 0 .. m - 1
          BY <4>4, <1>2
        <5>2. f[i] = PlacedIn(f, i, all)
          BY <2>2, <5>1 DEF Passes
        <5> QED
          BY <4>2, <4>4, <5>2
      <4> QED
        BY <4>3, <4>4
    <3> QED
      BY <3>1, <3>2
  <2>4. g = [i \in 0 .. m |-> g[i]]
    OBVIOUS
  <2>5. [i \in 0 .. m |-> g[i]] = [i \in 0 .. m |-> PlacedIn(g, i, all)]
    BY <2>3
  <2>6. Passes(g, m, all)
    BY <2>4, <2>5 DEF Passes
  <2> QED
    BY <2>6, <1>2
<1> QED
  BY <1>3, <1>4

\* Steps that depend on earlier steps only can be ordered.
LEMMA EarlierIsPlaced ==
    ASSUME NEW all \in Seq(PlanStep), \A i \in 1 .. Len(all) : all[i].deps \subseteq 1 .. i - 1
    PROVE  Placed(all) = DOMAIN all
<1>1. Len(all) \in Nat /\ DOMAIN all = 1 .. Len(all)
  OBVIOUS
<1> DEFINE placed == CHOOSE f : f = [n \in 0 .. Len(all) |-> PlacedIn(f, n, all)]
<1>2. Placed(all) = placed[Len(all)]
  BY DEF Placed, PlacedIn
<1>3. Passes(placed, Len(all), all)
  BY <1>1, PassesExist DEF Passes
<1> HIDE DEF placed
<1>4. \A n \in 0 .. Len(all) : placed[n] = PlacedIn(placed, n, all)
  BY <1>3 DEF Passes
<1> DEFINE Bad == {n \in Nat : n <= Len(all) /\ ~(1 .. n \subseteq placed[n])}
<1>5. Bad = {}
  <2> SUFFICES ASSUME Bad # {} PROVE FALSE
    OBVIOUS
  <2>1. PICK n \in Bad : \A y \in Bad : n <= y
    <3>1. Bad \in SUBSET Nat
      OBVIOUS
    <3> HIDE DEF Bad
    <3> QED
      BY <3>1, LeastNumber
  <2>2. n \in 0 .. Len(all) /\ ~(1 .. n \subseteq placed[n]) /\ placed[n] = PlacedIn(placed, n, all)
    BY <2>1, <1>1, <1>4
  <2>3. n # 0
    BY <2>2
  <2>4. n - 1 \in Nat /\ n - 1 <= Len(all) /\ ~(n <= n - 1)
    BY <2>2, <2>3, <1>1
  <2>5. n - 1 \notin Bad
    BY <2>4, <2>1
  <2>6. 1 .. n - 1 \subseteq placed[n - 1]
    BY <2>4, <2>5
  <2>7. placed[n] = {i \in DOMAIN all : all[i].deps \subseteq placed[n - 1]}
    BY <2>2, <2>3 DEF PlacedIn
  <2>8. ASSUME NEW i \in 1 .. n
        PROVE  i \in placed[n]
    <3>1. i \in 1 .. Len(all) /\ 1 .. i - 1 \subseteq 1 .. n - 1
      BY <2>2, <1>1
    <3>2. all[i].deps \subseteq placed[n - 1]
      BY <3>1, <2>6
    <3> QED
      BY <3>1, <3>2, <2>7, <1>1
  <2> QED
    BY <2>2, <2>8
<1>6. 1 .. Len(all) \subseteq placed[Len(all)]
  BY <1>1, <1>5
<1>7. placed[Len(all)] \subseteq DOMAIN all
  <2>1. placed[Len(all)] = PlacedIn(placed, Len(all), all)
    BY <1>1, <1>4
  <2> QED
    BY <2>1 DEF PlacedIn
<1> QED
  BY <1>1, <1>2, <1>6, <1>7

\* The place of a step and the steps before it in its row.
LEMMA PlaceOf ==
    ASSUME NEW all, NEW rows, NEW n, PlanOf(all, rows, n), NEW i \in 1 .. Len(all),
           NEW t, t = Template(rows[all[i].row].op)
    PROVE  \E k \in 1 .. Len(t) :
              /\ k <= i /\ all[i].kind = t[k].kind
              /\ \A j \in 1 .. Len(t) :
                    /\ i - k + j \in 1 .. Len(all)
                    /\ InPlace(all, rows[all[i].row], i - k + j, all[i].row, j)
<1>1. PICK k \in 1 .. Len(t) :
         /\ k <= i
         /\ \A j \in 1 .. Len(t) : /\ i - k + j \in 1 .. Len(all)
                                   /\ InPlace(all, rows[all[i].row], i - k + j, all[i].row, j)
  BY DEF PlanOf, InRow
<1>2. i - k + k = i
  OBVIOUS
<1>3. InPlace(all, rows[all[i].row], i, all[i].row, k)
  BY <1>1, <1>2
<1>4. all[i].kind = t[k].kind
  BY <1>3 DEF InPlace
<1> QED
  BY <1>1, <1>4

\* The plan of a supported program passes validate.
LEMMA PlanIsValid ==
    ASSUME NEW rows, Supported(rows), NEW all, PlanOf(all, rows, Len(rows))
    PROVE  Valid(all)
<1>1. all \in Seq(PlanStep) /\ DOMAIN all = 1 .. Len(all) /\ Len(all) \in Nat
  BY DEF PlanOf
<1>2. Placed(all) = DOMAIN all
  BY <1>1, EarlierIsPlaced DEF PlanOf
<1>3. ASSUME NEW i \in 1 .. Len(all)
      PROVE  /\ all[i].kind = "PAULI_CORRECT" => DependsOn(all, i, "CLASSICAL_RECV")
             /\ all[i].kind = "CLASSICAL_RECV" => DependsOn(all, i, "CLASSICAL_SEND")
  <2>1. PICK t : t = Template(rows[all[i].row].op)
    OBVIOUS
  <2>2. PICK k \in 1 .. Len(t) :
           /\ k <= i /\ all[i].kind = t[k].kind
           /\ \A j \in 1 .. Len(t) :
                 /\ i - k + j \in 1 .. Len(all)
                 /\ InPlace(all, rows[all[i].row], i - k + j, all[i].row, j)
    BY <2>1, PlaceOf
  <2>3. rows[all[i].row].op \in SupportedOps
    BY DEF PlanOf, Supported
  <2>4. CorrectionGated(rows[all[i].row].op, t, k) /\ ReceiveGated(t, k) /\ Len(t) \in Nat
    BY <2>1, <2>3, TemplateIsGated, TemplateTyped
  <2>5. ASSUME k - 1 \in 1 .. Len(t)
        PROVE  all[i].deps = {i - 1} /\ all[i - 1].kind = t[k - 1].kind
    <3>1. k > 1 /\ i - k + k = i /\ i - k + (k - 1) = i - 1
      BY <2>2, <2>4, <2>5
    <3>2. InPlace(all, rows[all[i].row], i, all[i].row, k)
      BY <3>1, <2>2
    <3>3. InPlace(all, rows[all[i].row], i - 1, all[i].row, k - 1)
      BY <3>1, <2>2, <2>5
    <3> QED
      BY <3>1, <3>2, <3>3, <2>1 DEF InPlace
  <2> QED
    BY <2>2, <2>4, <2>5 DEF CorrectionGated, ReceiveGated, DependsOn
<1> QED
  BY <1>1, <1>2, <1>3 DEF Valid

\* The steps are the plan of a supported program, or there are none; what has run is
\* closed under dependencies, and in the order of the plan in every row and on every link.
PlanInv ==
    /\ program \in ProtocolRows /\ ran \subseteq DOMAIN steps
    /\ \/ Supported(program) /\ PlanOf(steps, program, Len(program))
       \/ steps = <<>> /\ \E r \in DOMAIN program : program[r].op \notin SupportedOps
    /\ \A i \in ran : steps[i].deps \subseteq ran
    /\ \A i \in ran : \A j \in 1 .. i - 1 : Tied(steps, i, j) => j \in ran

LEMMA CompilerStarts == CompilerInit => PlanInv
<1> SUFFICES ASSUME CompilerInit
             PROVE  PlanInv
  OBVIOUS
<1>1. program \in ProtocolRows /\ ran = {} /\ program \in Seq(ProtocolRow)
  BY ProtocolAssumption DEF CompilerInit, ProtocolRow
<1>2. CASE \E r \in DOMAIN program : program[r].op \notin SupportedOps
  BY <1>1, <1>2 DEF CompilerInit, PlanInv
<1>3. CASE ~\E r \in DOMAIN program : program[r].op \notin SupportedOps
  <2>1. Supported(program)
    BY <1>1, <1>3 DEF Supported
  <2>2. PlanOf(Compiled(program), program, Len(program))
    BY <2>1, CompiledIsPlan
  <2>3. Valid(Compiled(program))
    BY <2>1, <2>2, PlanIsValid
  <2>4. steps = Compiled(program)
    BY <2>3, <1>3 DEF CompilerInit
  <2> QED
    BY <1>1, <2>1, <2>2, <2>4 DEF PlanInv
<1> QED
  BY <1>2, <1>3

LEMMA RunKeepsPlan ==
    ASSUME PlanInv, NEW i \in DOMAIN steps, Run(i)
    PROVE  PlanInv'
<1>1. ran' = ran \cup {i} /\ program' = program /\ steps' = steps /\ steps[i].deps \subseteq ran
  BY DEF Run
<1>2. PlanOf(steps, program, Len(program)) /\ Supported(program)
  BY DEF PlanInv
<1>3. DOMAIN steps = 1 .. Len(steps) /\ Len(steps) \in Nat
  BY <1>2 DEF PlanOf
<1>4. ASSUME NEW j \in 1 .. i - 1, Tied(steps, i, j)
      PROVE  j \in ran
  <2>1. PICK p \in steps[i].deps : j <= p /\ (p = j \/ Tied(steps, p, j))
    BY <1>2, <1>3, <1>4 DEF PlanOf, Chained
  <2>2. p \in ran /\ p \in 1 .. i - 1
    BY <2>1, <1>1, <1>2, <1>3 DEF PlanOf
  <2>3. p = j \/ j \in 1 .. p - 1
    BY <2>1, <2>2
  <2> QED
    BY <2>1, <2>2, <2>3 DEF PlanInv
<1>5. \A c \in ran \cup {i} : \A j \in 1 .. c - 1 : Tied(steps, c, j) => j \in ran \cup {i}
  BY <1>4 DEF PlanInv
<1>6. \A c \in ran \cup {i} : steps[c].deps \subseteq ran \cup {i}
  BY <1>1 DEF PlanInv
<1>7. \A c, j : Tied(steps, c, j)' = Tied(steps, c, j)
  BY <1>1 DEF Tied
<1>8. PlanOf(steps, program, Len(program))' /\ Supported(program)'
  BY <1>1, <1>2
<1> QED
  BY <1>1, <1>5, <1>6, <1>7, <1>8 DEF PlanInv

LEMMA PlansRun == CompilerSpec => []PlanInv
<1>1. PlanInv /\ [CompilerNext]_compilerVars => PlanInv'
  <2> SUFFICES ASSUME PlanInv, [CompilerNext]_compilerVars
               PROVE  PlanInv'
    OBVIOUS
  <2>1. CASE CompilerNext
    BY <2>1, RunKeepsPlan DEF CompilerNext
  <2>2. CASE UNCHANGED compilerVars
    <3>1. program' = program /\ steps' = steps /\ ran' = ran
      BY <2>2 DEF compilerVars
    <3> QED
      <4>1. \A c, j : Tied(steps, c, j)' = Tied(steps, c, j)
        BY <3>1 DEF Tied
      <4>2. PlanOf(steps, program, Len(program))' = PlanOf(steps, program, Len(program))
        BY <3>1
      <4>3. Supported(program)' = Supported(program)
        BY <3>1
      <4> QED
        BY <3>1, <4>1, <4>2, <4>3 DEF PlanInv
  <2> QED
    BY <2>1, <2>2
<1> QED
  BY <1>1, CompilerStarts, PTL DEF CompilerSpec

\* A correction that has run finds its bit received, sent and measured.
LEMMA RanIsGated == ASSUME PlanInv PROVE Gated
<1> SUFFICES ASSUME NEW c \in ran, steps[c].kind = "PAULI_CORRECT"
             PROVE  /\ \E r \in RanOf(steps[c].row, "CLASSICAL_RECV") : steps[r].node = steps[c].node
                    /\ \E s \in RanOf(steps[c].row, "CLASSICAL_SEND") :
                          /\ steps[s].node # steps[c].node
                          /\ \/ program[steps[c].row].op = "CLASSICAL_FEEDBACK"
                             \/ \E m \in RanOf(steps[c].row, "MEASURE") : steps[m].node = steps[s].node
  BY DEF Gated
<1>1. PlanOf(steps, program, Len(program)) /\ Supported(program) /\ c \in 1 .. Len(steps)
  BY DEF PlanInv, PlanOf
<1> DEFINE R == steps[c].row
           row == program[R]
<1>2. R \in 1 .. Len(program) /\ row \in ProtocolRow /\ row.op \in SupportedOps
  BY <1>1 DEF PlanOf, Supported
<1>3. PICK t : t = Template(row.op)
  OBVIOUS
<1>4. PICK k \in 1 .. Len(t) :
         /\ k <= c /\ steps[c].kind = t[k].kind
         /\ \A j \in 1 .. Len(t) : c - k + j \in 1 .. Len(steps) /\ InPlace(steps, row, c - k + j, R, j)
  BY <1>1, <1>3, PlaceOf
<1>5. /\ k - 2 \in 1 .. Len(t) /\ k - 1 \in 1 .. Len(t)
      /\ t[k - 1].kind = "CLASSICAL_RECV" /\ t[k - 1].side = t[k].side
      /\ t[k - 2].kind = "CLASSICAL_SEND" /\ t[k - 2].side # t[k].side
      /\ \/ row.op = "CLASSICAL_FEEDBACK"
         \/ k - 3 \in 1 .. Len(t) /\ t[k - 3].kind = "MEASURE" /\ t[k - 3].side = t[k - 2].side
  <2>1. CorrectionGated(row.op, t, k)
    BY <1>2, <1>3, TemplateIsGated
  <2> HIDE DEF row
  <2> QED
    BY <2>1, <1>4 DEF CorrectionGated
<1>6. \A j \in 1 .. Len(t) : t[j].side \in {"a", "b"}
  BY <1>2, <1>3, TemplateTyped
<1> DEFINE At(side) == IF side = "a" THEN row.node ELSE PeerNode(row)
<1>7. ASSUME NEW j \in 1 .. Len(t), j < k
      PROVE  /\ c - k + j \in ran /\ steps[c - k + j].row = R /\ steps[c - k + j].kind = t[j].kind
             /\ steps[c - k + j].node = At(t[j].side)
  <2>1. InPlace(steps, row, c - k + j, R, j) /\ c - k + j \in 1 .. Len(steps)
    BY <1>4
  <2>2. steps[c - k + j].row = R /\ steps[c - k + j].kind = t[j].kind
        /\ steps[c - k + j].node = At(t[j].side)
    BY <2>1, <1>3 DEF InPlace
  <2>3. Tied(steps, c, c - k + j)
    BY <2>2 DEF Tied
  <2>4. c - k + j \in 1 .. c - 1
    BY <2>1, <1>7, <1>1
  <2>5. c - k + j \in ran
    BY <2>3, <2>4 DEF PlanInv
  <2> QED
    BY <2>2, <2>5
<1>8. steps[c].node = At(t[k].side)
  <2>1. c - k + k = c
    BY <1>1
  <2>2. InPlace(steps, row, c, R, k)
    BY <2>1, <1>4
  <2> QED
    BY <2>2, <1>3 DEF InPlace
<1>9. At("a") # At("b")
  BY <1>2, PeerIsOther
<1>10. PICK r : r = c - k + (k - 1)
  OBVIOUS
<1>11. r \in ran /\ steps[r].row = R /\ steps[r].kind = "CLASSICAL_RECV" /\ steps[r].node = steps[c].node
  <2>1. k - 1 < k
    OBVIOUS
  <2> QED
    BY <2>1, <1>5, <1>7, <1>8, <1>10
<1>12. PICK s : s = c - k + (k - 2)
  OBVIOUS
<1>13. /\ s \in ran /\ steps[s].row = R /\ steps[s].kind = "CLASSICAL_SEND"
       /\ steps[s].node = At(t[k - 2].side)
  <2>1. k - 2 < k
    OBVIOUS
  <2> QED
    BY <2>1, <1>5, <1>7, <1>12
<1>14. steps[s].node # steps[c].node
  BY <1>5, <1>6, <1>8, <1>9, <1>13
<1>15. ASSUME row.op # "CLASSICAL_FEEDBACK"
       PROVE  \E m \in RanOf(R, "MEASURE") : steps[m].node = steps[s].node
  <2>1. k - 3 \in 1 .. Len(t) /\ t[k - 3].kind = "MEASURE" /\ t[k - 3].side = t[k - 2].side /\ k - 3 < k
    BY <1>5, <1>15
  <2>2. PICK m : m = c - k + (k - 3)
    OBVIOUS
  <2>3. m \in ran /\ steps[m].row = R /\ steps[m].kind = "MEASURE" /\ steps[m].node = steps[s].node
    BY <2>1, <2>2, <1>7, <1>13
  <2> QED
    BY <2>3 DEF RanOf
<1> QED
  BY <1>11, <1>13, <1>14, <1>15 DEF RanOf

\* Rows that share a link use it in turn.
LEMMA RanIsSerial == ASSUME PlanInv PROVE Serial
<1> SUFFICES ASSUME NEW i \in ran, NEW j \in DOMAIN steps, steps[j].link = steps[i].link,
                    steps[i].link # NoLink, steps[j].row < steps[i].row
             PROVE  j \in ran
  BY DEF Serial
<1>1. PlanOf(steps, program, Len(program)) /\ i \in 1 .. Len(steps) /\ j \in 1 .. Len(steps)
  BY DEF PlanInv, PlanOf
<1>2. steps[i].row \in Nat /\ steps[j].row \in Nat /\ (i <= j => steps[i].row <= steps[j].row)
  BY <1>1 DEF PlanOf
<1>3. j \in 1 .. i - 1
  BY <1>1, <1>2
<1> QED
  BY <1>3 DEF PlanInv, Tied

\* While a step is left, one can run.
LEMMA RanIsWhole == ASSUME PlanInv PROVE Whole
<1> SUFFICES ASSUME \A i \in DOMAIN steps \ ran : ~(steps[i].deps \subseteq ran), ran # DOMAIN steps
             PROVE  FALSE
  BY DEF Whole
<1>1. ran \subseteq DOMAIN steps
  BY DEF PlanInv
<1>2. DOMAIN steps # {}
  BY <1>1
<1>3. PlanOf(steps, program, Len(program))
  BY <1>2 DEF PlanInv
<1>4. DOMAIN steps = 1 .. Len(steps) /\ Len(steps) \in Nat
  BY <1>3 DEF PlanOf
<1> DEFINE left == DOMAIN steps \ ran
<1>5. left \in SUBSET Nat /\ left # {}
  <2>1. left \in SUBSET Nat
    BY <1>4
  <2>2. left # {}
    BY <1>1
  <2> QED
    BY <2>1, <2>2
<1>6. PICK i \in left : \A j \in left : i <= j
  <2> HIDE DEF left
  <2> QED
    BY <1>5, LeastNumber
<1>7. ASSUME NEW d \in steps[i].deps
      PROVE  d \in ran
  <2>1. d \in 1 .. i - 1
    BY <1>3, <1>4 DEF PlanOf
  <2>2. d \in DOMAIN steps /\ ~(i <= d)
    BY <2>1, <1>4
  <2> QED
    BY <2>2, <1>6
<1> QED
  BY <1>6, <1>7

\* Every plan the compiler makes, whatever the links, the program and the order its
\* steps are run in, corrects only after its bits, takes the rows of a link in turn,
\* never gets stuck, and is there for every supported program.
THEOREM PlansAreOrdered == CompilerSpec => []PlanIsOrdered
<1>1. PlanInv => PlanIsOrdered
  <2> SUFFICES ASSUME PlanInv
               PROVE  PlanIsOrdered
    OBVIOUS
  <2>1. ASSUME \A r \in DOMAIN program : program[r].op \in SupportedOps
        PROVE  steps = <<>> <=> program = <<>>
    <3>1. PlanOf(steps, program, Len(program)) /\ program \in Seq(ProtocolRow)
      BY <2>1 DEF PlanInv, Supported
    <3>2. steps \in Seq(PlanStep) /\ Len(program) <= Len(steps)
      BY <3>1 DEF PlanOf
    <3>3. ASSUME program = <<>>
          PROVE  steps = <<>>
      <4>1. \A i \in 1 .. Len(steps) : steps[i].row \in 1 .. 0
        BY <3>1, <3>3 DEF PlanOf
      <4>2. Len(steps) \in Nat /\ ~(1 \in 1 .. Len(steps))
        BY <4>1, <3>2
      <4> QED
        BY <4>2, <3>2
    <3> QED
      BY <3>1, <3>2, <3>3
  <2> QED
    BY <2>1, RanIsGated, RanIsSerial, RanIsWhole DEF PlanIsOrdered
<1> QED
  BY <1>1, PlansRun, PTL

-----------------------------------------------------------------------------
(* The consistency contract.                                                 *)

ContractInv == contract \in Contracts

\* The requests and the models stay well formed.
LEMMA ContractsAreTyped == ContractSpec => []ContractInv
<1>1. ContractInit => ContractInv
  BY ContractAssumption DEF ContractInit, ContractInv, Contracts, Profiles, Hard, Helps
<1>2. ContractInv /\ [ContractNext]_contract => ContractInv'
  <2> SUFFICES ASSUME ContractInv, [ContractNext]_contract
               PROVE  ContractInv'
    OBVIOUS
  <2>1. ASSUME NEW p \in Profiles, Restate(p)
        PROVE  ContractInv'
    BY <2>1 DEF ContractInv, Contracts, Restate
  <2>2. ASSUME NEW flag \in Hard \cup Helps, Redeclare(flag)
        PROVE  ContractInv'
    BY <2>2 DEF ContractInv, Contracts, Redeclare
  <2>3. ASSUME NEW n \in 1 .. MaxReplicas, NEW f \in 0 .. MaxFailures, Resize(n, f)
        PROVE  ContractInv'
    BY <2>3 DEF ContractInv, Contracts, Resize
  <2>4. CASE UNCHANGED contract
    BY <2>4 DEF ContractInv
  <2> QED
    BY <2>1, <2>2, <2>3, <2>4 DEF ContractNext
<1> QED
  BY <1>1, <1>2, PTL DEF ContractSpec

\* Half a number, rounded down, and more hazards or fewer helps.
LEMMA HalfIsMonotone ==
    ASSUME NEW m \in Nat, NEW n \in Nat, m <= n
    PROVE  m \div 2 + 1 <= n \div 2 + 1 /\ m \div 2 \in Nat /\ 2 * (m \div 2) <= m /\ m < 2 * (m \div 2) + 2
  OBVIOUS

LEMMA FlagsAreMonotone ==
    ASSUME NEW c, NEW d, Milder(c, d)
    PROVE  /\ \A flag \in Hard : On(c, flag) => On(d, flag)
           /\ \A flag \in Helps : On(d, flag) => On(c, flag)
  BY DEF Milder, On

\* A rule fires on its condition.
LEMMA WhenFires == \A condition, rule : When(condition, rule) = {} <=> ~condition
  BY DEF When

\* When a total order is admitted.
LEMMA OrderedIsAdmitted ==
    ASSUME NEW c \in Contracts, c.profile \in OrderedProfiles
    PROVE  ContractAdmits(c) <=>
              /\ ~(On(c, "partitions_possible") /\ c.replicas < 3)
              /\ ~(On(c, "partitions_possible") /\ c.failures >= QuorumOf(c))
              /\ ~(On(c, "byzantine") /\ c.replicas < 3 * c.failures + 1)
<1>1. c.profile = "LINEARIZABLE" \/ c.profile = "SEQUENTIAL"
  BY DEF OrderedProfiles
<1>2. RulesFired(c) = When(On(c, "partitions_possible") /\ c.replicas < 3, "C1")
                      \cup When(On(c, "partitions_possible") /\ c.failures >= QuorumOf(c), "C2")
                      \cup When(On(c, "byzantine") /\ c.replicas < 3 * c.failures + 1, "C3")
  BY <1>1 DEF RulesFired, OrderedProfiles
<1>4. ContractAdmits(c) <=> /\ When(On(c, "partitions_possible") /\ c.replicas < 3, "C1") = {}
                            /\ When(On(c, "partitions_possible") /\ c.failures >= QuorumOf(c), "C2") = {}
                            /\ When(On(c, "byzantine") /\ c.replicas < 3 * c.failures + 1, "C3") = {}
  BY <1>2 DEF ContractAdmits
<1> QED
  BY <1>4, WhenFires

\* Whatever is admitted under a model is admitted under every milder one.
LEMMA AdmissionIsMonotone ==
    ASSUME NEW c \in Contracts, NEW d \in Contracts, Milder(c, d), c.profile = d.profile, ContractAdmits(d)
    PROVE  ContractAdmits(c)
<1>1. /\ \A flag \in Hard : On(c, flag) => On(d, flag)
      /\ \A flag \in Helps : On(d, flag) => On(c, flag)
  BY FlagsAreMonotone
<1>2. /\ c.replicas \in Nat /\ d.replicas \in Nat /\ c.failures \in Nat /\ d.failures \in Nat
      /\ c.replicas >= d.replicas /\ c.failures <= d.failures /\ c.profile \in Profiles
  BY DEF Contracts, Milder
<1>3. CASE c.profile \in OrderedProfiles
  <2>1. QuorumOf(d) <= QuorumOf(c) /\ QuorumOf(c) \in Nat /\ QuorumOf(d) \in Nat
    BY <1>2, HalfIsMonotone DEF QuorumOf
  <2>2. /\ On(c, "partitions_possible") => On(d, "partitions_possible")
        /\ On(c, "byzantine") => On(d, "byzantine")
    BY <1>1 DEF Hard
  <2>3. /\ ~(On(d, "partitions_possible") /\ d.replicas < 3)
        /\ ~(On(d, "partitions_possible") /\ d.failures >= QuorumOf(d))
        /\ ~(On(d, "byzantine") /\ d.replicas < 3 * d.failures + 1)
    BY <1>3, OrderedIsAdmitted
  <2>4. /\ ~(On(c, "partitions_possible") /\ c.replicas < 3)
        /\ ~(On(c, "partitions_possible") /\ c.failures >= QuorumOf(c))
        /\ ~(On(c, "byzantine") /\ c.replicas < 3 * c.failures + 1)
    BY <1>2, <2>1, <2>2, <2>3
  <2> QED
    BY <1>3, <2>4, OrderedIsAdmitted
<1>4. CASE c.profile \notin OrderedProfiles
  <2>1. /\ On(c, "partitions_possible") => On(d, "partitions_possible")
        /\ On(c, "message_loss") => On(d, "message_loss")
        /\ On(c, "crash_stop") => On(d, "crash_stop")
        /\ On(c, "byzantine") => On(d, "byzantine")
    BY <1>1 DEF Hard
  <2>2. /\ On(d, "bounded_duration") => On(c, "bounded_duration")
        /\ On(d, "reliable_retransmit") => On(c, "reliable_retransmit")
        /\ On(d, "failover") => On(c, "failover")
        /\ On(d, "anti_entropy") => On(c, "anti_entropy")
        /\ On(d, "crdt_declared") => On(c, "crdt_declared")
    BY <1>1 DEF Helps
  <2>3. CASE c.profile = "CAUSAL"
    BY <2>1, <2>2, <2>3, <1>4 DEF ContractAdmits, RulesFired, When
  <2>4. CASE c.profile = "EVENTUAL"
    BY <2>1, <2>2, <2>4, <1>4 DEF ContractAdmits, RulesFired, RulesC5, When
  <2>5. CASE c.profile = "CRDT_DECLARED"
    BY <2>1, <2>2, <2>5, <1>4 DEF ContractAdmits, RulesFired, When
  <2>6. CASE c.profile = "SINGLE_OWNER"
    BY <2>1, <2>2, <2>6, <1>2, <1>4 DEF ContractAdmits, RulesFired, When
  <2>7. CASE c.profile = "IMMUTABLE_REPLICA"
    <3>1. RulesFired(c) = When(On(c, "byzantine"), "C9") /\ RulesFired(d) = When(On(d, "byzantine"), "C9")
      BY <2>7, <1>4 DEF RulesFired
    <3>2. (ContractAdmits(c) <=> ~On(c, "byzantine")) /\ (ContractAdmits(d) <=> ~On(d, "byzantine"))
      BY <3>1, WhenFires DEF ContractAdmits
    <3> QED
      BY <3>2, <2>1
  <2> QED
    BY <2>3, <2>4, <2>5, <2>6, <2>7, <1>2, <1>4 DEF Profiles
<1> QED
  BY <1>3, <1>4

\* What an admitted total order has left.
LEMMA AdmittedHasSurvivors == ASSUME ContractInv PROVE AdmittedSurvives
<1> SUFFICES ASSUME contract.profile \in OrderedProfiles, ContractAdmits(contract)
             PROVE  /\ On(contract, "partitions_possible") =>
                          /\ contract.replicas >= 3
                          /\ Survivors(contract) >= QuorumOf(contract)
                             <=> 2 * contract.failures # contract.replicas
                    /\ On(contract, "byzantine") => Survivors(contract) > 2 * contract.failures
  BY DEF AdmittedSurvives
<1>1. /\ ~(On(contract, "partitions_possible") /\ contract.replicas < 3)
      /\ ~(On(contract, "partitions_possible") /\ contract.failures >= QuorumOf(contract))
      /\ ~(On(contract, "byzantine") /\ contract.replicas < 3 * contract.failures + 1)
  BY OrderedIsAdmitted DEF ContractInv
<1> DEFINE n == contract.replicas
           f == contract.failures
<1>2. n \in Nat /\ f \in Nat
  BY DEF ContractInv, Contracts
<1>3. Survivors(contract) = n - f /\ QuorumOf(contract) = n \div 2 + 1
  BY DEF Survivors, QuorumOf
<1>4. On(contract, "partitions_possible") => ~(n < 3) /\ ~(f >= n \div 2 + 1)
  BY <1>1, <1>3
<1>5. On(contract, "byzantine") => ~(n < 3 * f + 1)
  BY <1>1
<1> HIDE DEF n, f
<1>6. n \div 2 \in Nat /\ n = 2 * (n \div 2) + (n % 2) /\ n % 2 \in {0, 1}
  BY <1>2
<1>7. On(contract, "partitions_possible") =>
         n >= 3 /\ (n - f >= n \div 2 + 1 <=> 2 * f # n)
  BY <1>2, <1>4, <1>6
<1>8. On(contract, "byzantine") => n - f > 2 * f
  BY <1>2, <1>5
<1> QED
  BY <1>3, <1>7, <1>8 DEF n, f

\* The contract judges soundly and monotonically, for any number of replicas and failures,
\* any declarations, and any changes to them.
THEOREM ContractsAreSound == ContractSpec => ContractIsSound
<1>1. ContractInv /\ ContractInv' /\ [ContractNext]_contract => [MilderIsAdmitted]_contract
  <2> SUFFICES ASSUME ContractInv, ContractInv', ContractAdmits(contract),
                      contract'.profile = contract.profile, Milder(contract', contract)
               PROVE  ContractAdmits(contract')
    BY DEF MilderIsAdmitted
  <2> QED
    BY AdmissionIsMonotone DEF ContractInv
<1>2. ContractInv => AdmittedSurvives
  BY AdmittedHasSurvivors
<1> QED
  BY <1>1, <1>2, ContractsAreTyped, PTL DEF ContractSpec, ContractIsSound
=============================================================================
