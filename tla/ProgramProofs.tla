---------------------------- MODULE ProgramProofs ----------------------------
(***************************************************************************)
(* Proofs about what programs use. EbitLedger, for any nodes, epochs and   *)
(* number of ebits: the types, that an ebit is spent once, where swapped   *)
(* pairs come from, and that entanglement across a cut is not free.        *)
(* OwnershipVerifier, for any menu of rows and any length of program: an   *)
(* accepted program uses the objects it has. CircuitRun, for any program   *)
(* and any memory: a plan fits, and a run ends as the rows deserve.        *)
(* ErrorAlgebra, for any declared terms: a combined term keeps what its    *)
(* sources were, and says no more than they. EventStructure, for any menu  *)
(* of rows and any length of program: rows that conflict keep their order. *)
(***************************************************************************)
EXTENDS EbitLedger, OwnershipVerifier, CircuitRun, ErrorAlgebra, EventStructure,
        FiniteSetTheorems, WellFoundedInduction, TLAPS

IInv == TypeOK /\ SpentOnce /\ Lineage

USE LedgerAssumption
-----------------------------------------------------------------------------
\* The far ends of two pairs that share one node are a pair.
LEMMA FarEndsPair ==
    ASSUME NEW X \in SUBSET Nodes, NEW Y \in SUBSET Nodes,
           Cardinality(X) = 2, Cardinality(Y) = 2, Cardinality(X \cap Y) = 1
    PROVE  /\ (X \cup Y) \ (X \cap Y) \in SUBSET Nodes
           /\ Cardinality((X \cup Y) \ (X \cap Y)) = 2
<1>1. IsFiniteSet(X) /\ IsFiniteSet(Y) /\ IsFiniteSet(X \cup Y)
  BY FS_Subset, FS_Union
<1>2. Cardinality(X \cup Y) = 3
  BY <1>1, FS_Union
<1>3. (X \cup Y) \cap (X \cap Y) = X \cap Y
  OBVIOUS
<1>4. Cardinality((X \cup Y) \ (X \cap Y))
        = Cardinality(X \cup Y) - Cardinality((X \cup Y) \cap (X \cap Y))
  BY <1>1, FS_Difference
<1> QED
  BY <1>2, <1>3, <1>4

\* Two distinct nodes are a pair.
LEMMA NodePair ==
    ASSUME NEW a \in Nodes, NEW b \in Nodes, a # b
    PROVE  Cardinality({a, b}) = 2
<1>1. IsFiniteSet({a}) /\ Cardinality({a}) = 1
  BY FS_Singleton
<1>2. {a, b} = {a} \cup {b} /\ b \notin {a}
  OBVIOUS
<1> QED
  BY <1>1, <1>2, FS_AddElement

\* The elements of a sequence over R are in R.
LEMMA ElementOf ==
    ASSUME NEW R, NEW seq \in Seq(R), NEW i \in 1..Len(seq)
    PROVE  seq[i] \in R
  OBVIOUS

\* What Append does to a sequence over R.
LEMMA Appending ==
    ASSUME NEW R, NEW seq \in Seq(R), NEW x \in R
    PROVE  /\ Append(seq, x) \in Seq(R) /\ Len(Append(seq, x)) = Len(seq) + 1
           /\ \A i \in 1..Len(seq) : Append(seq, x)[i] = seq[i]
           /\ Append(seq, x)[Len(seq) + 1] = x
  OBVIOUS

\* What a pair was swapped from are ebits of the ledger.
LEMMA FromIds ==
    ASSUME TypeOK, Lineage, NEW e \in Swapped
    PROVE  e \in Ids /\ origin[e].from \subseteq Ids
<1>1. e \in 1..Len(records) /\ Len(records) \in Nat /\ Len(origin) = Len(records)
  BY DEF Swapped, Ids, TypeOK
<1>2. origin[e].from \subseteq 1..MaxEbits
  <2>1. origin \in Seq([from : SUBSET (1..MaxEbits), fidelity : Fids])
    BY DEF TypeOK
  <2>2. e \in 1..Len(origin)
    BY <1>1
  <2>3. origin[e] \in [from : SUBSET (1..MaxEbits), fidelity : Fids]
    BY <2>1, <2>2, ElementOf
  <2> QED
    BY <2>3
<1>3. PICK x, y \in origin[e].from : origin[e].from = {x, y} /\ x < e /\ y < e
  BY DEF Lineage
<1>4. x \in 1..Len(records) /\ y \in 1..Len(records)
  BY <1>1, <1>2, <1>3
<1> QED
  BY <1>1, <1>3, <1>4 DEF Ids

\* A step that keeps the ends, and what was consumed, keeps the lineage.
LEMMA LineageKept ==
    ASSUME TypeOK, Lineage, UNCHANGED origin, Ids' = Ids,
           \A e \in Ids : /\ records'[e].ends = records[e].ends
                          /\ records[e].state = "CONSUMED" => records'[e].state = "CONSUMED"
    PROVE  Lineage'
<1>1. Swapped' = Swapped
  BY DEF Swapped
<1> SUFFICES ASSUME NEW e \in Swapped
             PROVE
        /\ \E x, y \in origin[e].from :
              /\ origin[e].from = {x, y} /\ x # y /\ x < e /\ y < e
              /\ records'[e].ends = (records'[x].ends \cup records'[y].ends)
                                       \ (records'[x].ends \cap records'[y].ends)
        /\ \A x \in origin[e].from : records'[x].state = "CONSUMED"
        /\ \A d \in Swapped \ {e} : origin[d].from \cap origin[e].from = {}
  BY <1>1 DEF Lineage
<1>2. e \in Ids /\ origin[e].from \subseteq Ids
  BY FromIds
<1>3. PICK x, y \in origin[e].from :
         /\ origin[e].from = {x, y} /\ x # y /\ x < e /\ y < e
         /\ records[e].ends = (records[x].ends \cup records[y].ends)
                                  \ (records[x].ends \cap records[y].ends)
  BY DEF Lineage
<1>4. /\ records'[e].ends = records[e].ends /\ records'[x].ends = records[x].ends
      /\ records'[y].ends = records[y].ends
  BY <1>2, <1>3
<1>5. \A z \in origin[e].from : records'[z].state = "CONSUMED"
  BY <1>2 DEF Lineage
<1>6. \A d \in Swapped \ {e} : origin[d].from \cap origin[e].from = {}
  BY DEF Lineage
<1> QED
  BY <1>3, <1>4, <1>5, <1>6

\* A step that appends no record and leaves every ebit's ends and consumption alone.
LEMMA RelabelKeeps ==
    ASSUME IInv, UNCHANGED <<uses, origin>>,
           records' \in Seq(Ebit), Len(records') = Len(records),
           \A e \in Ids : /\ records'[e].ends = records[e].ends
                          /\ records'[e].state = "CONSUMED"
                                 <=> records[e].state = "CONSUMED"
    PROVE  IInv'
<1>1. Ids' = Ids /\ Swapped' = Swapped
  BY DEF Ids, Swapped
<1>3. TypeOK' /\ SpentOnce'
  BY <1>1 DEF IInv, TypeOK, SpentOnce
<1>4. Lineage'
  BY <1>1, LineageKept DEF IInv
<1> QED
  BY <1>3, <1>4 DEF IInv

\* A step that consumes usable ebits.
LEMMA ConsumeKeeps ==
    ASSUME IInv, NEW es \in SUBSET Ids, ConsumeEach(es),
           \A e \in es : records[e].state \in Usable
    PROVE  IInv'
<1>1. /\ records \in Seq(Ebit) /\ uses \in Seq(Nat) /\ Len(uses) = Len(records)
      /\ Ids = 1..Len(records) /\ Len(records) \in Nat
  BY DEF IInv, TypeOK, Ids
<1>2. \A e \in Ids : records[e] \in Ebit /\ uses[e] \in Nat
  BY <1>1
<1>3. \A e \in Ids : Consumed(records[e]) \in Ebit
  BY <1>2 DEF Consumed, Ebit, States
<1>4. records' \in Seq(Ebit) /\ Len(records') = Len(records)
  BY <1>1, <1>2, <1>3 DEF ConsumeEach
<1>5. uses' \in Seq(Nat) /\ Len(uses') = Len(records)
  BY <1>1, <1>2 DEF ConsumeEach
<1>6. Ids' = Ids /\ Swapped' = Swapped /\ UNCHANGED origin
  BY <1>4 DEF Ids, Swapped, ConsumeEach
<1>7. TypeOK'
  BY <1>4, <1>5, <1>6 DEF IInv, TypeOK
<1>8. \A e \in Ids : /\ records'[e].ends = records[e].ends
                     /\ records[e].state = "CONSUMED" => records'[e].state = "CONSUMED"
  BY <1>1, <1>2 DEF ConsumeEach, Consumed, Ebit
<1>9. SpentOnce'
  BY <1>1, <1>2, <1>6 DEF IInv, SpentOnce, ConsumeEach, Consumed, Ebit, Usable
<1>10. Lineage'
  BY <1>6, <1>8, LineageKept DEF IInv
<1> QED
  BY <1>7, <1>9, <1>10 DEF IInv

\* A step that changes the state of one record by the table.
LEMMA TransitionKeeps ==
    ASSUME IInv, NEW e \in Ids, NEW new \in States \ {"CONSUMED"}, Transition(e, new)
    PROVE  IInv'
<1>1. records \in Seq(Ebit) /\ Ids = 1..Len(records) /\ Len(records) \in Nat
  BY DEF IInv, TypeOK, Ids
<1>2. records[e] \in Ebit /\ records[e].state # "CONSUMED"
  <2>1. records[e] \in Ebit
    BY <1>1
  <2> QED
    BY <2>1 DEF Transition, EBIT_TRANSITIONS, Ebit, States
<1>3. [records[e] EXCEPT !.state = new] \in Ebit
  BY <1>2 DEF Ebit
<1>4. /\ records' \in Seq(Ebit) /\ Len(records') = Len(records)
      /\ \A d \in Ids : /\ records'[d].ends = records[d].ends
                        /\ records'[d].state = "CONSUMED"
                              <=> records[d].state = "CONSUMED"
  BY <1>1, <1>2, <1>3 DEF Transition, Ebit
<1> QED
  BY <1>4, RelabelKeeps DEF Transition

LEMMA HeraldMeasuredKeeps ==
    ASSUME IInv, NEW e \in Ids, NEW f \in Fids, HeraldMeasured(e, f)
    PROVE  IInv'
<1>1. records \in Seq(Ebit) /\ Ids = 1..Len(records) /\ Len(records) \in Nat
  BY DEF IInv, TypeOK, Ids
<1> DEFINE s == IF "HERALDED" \in EBIT_TRANSITIONS[records[e].state]
                THEN "HERALDED" ELSE records[e].state
           r == [records[e] EXCEPT !.fidelity = f, !.state = s]
<1>2. records[e] \in Ebit
  BY <1>1
<1>3. s \in States /\ (s = "CONSUMED" <=> records[e].state = "CONSUMED")
  BY <1>2 DEF EBIT_TRANSITIONS, Ebit, States
<1>4. r \in Ebit /\ r.ends = records[e].ends /\ r.state = s
  BY <1>2, <1>3 DEF Ebit
<1>5. records' = [records EXCEPT ![e] = r]
  BY <1>1, <1>2 DEF HeraldMeasured, Ebit
<1> HIDE DEF r
<1>6. /\ records' \in Seq(Ebit) /\ Len(records') = Len(records)
      /\ \A d \in Ids : /\ records'[d].ends = records[d].ends
                        /\ records'[d].state = "CONSUMED"
                              <=> records[d].state = "CONSUMED"
  BY <1>1, <1>3, <1>4, <1>5
<1> QED
  BY <1>6, RelabelKeeps DEF HeraldMeasured

LEMMA ExpireAllKeeps ==
    ASSUME IInv, NEW epoch \in Epochs, ExpireAll(epoch)
    PROVE  IInv'
<1>1. records \in Seq(Ebit) /\ Ids = 1..Len(records) /\ Len(records) \in Nat
  BY DEF IInv, TypeOK, Ids
<1>2. \A e \in Ids : records[e] \in Ebit
  BY <1>1
<1>3. \A e \in Ids : [records[e] EXCEPT !.state = "EXPIRED"] \in Ebit
  BY <1>2 DEF Ebit, States
<1>4. "CONSUMED" \in Terminal
  BY DEF Terminal, EBIT_TRANSITIONS, States
<1>5. /\ records' \in Seq(Ebit) /\ Len(records') = Len(records)
      /\ \A d \in Ids : /\ records'[d].ends = records[d].ends
                        /\ records'[d].state = "CONSUMED"
                              <=> records[d].state = "CONSUMED"
  BY <1>1, <1>2, <1>3, <1>4 DEF ExpireAll, Ebit
<1> QED
  BY <1>5, RelabelKeeps DEF ExpireAll

\* A requested pair has used nothing and comes from the link layer.
LEMMA RequestKeeps ==
    ASSUME IInv, NEW a \in Nodes, NEW b \in Nodes, NEW epoch \in Epochs,
           NEW expiry \in Epochs, NEW f \in Fids, Request(a, b, epoch, expiry, f)
    PROVE  IInv'
<1> DEFINE n == Len(records) + 1
           r == [ends |-> {a, b}, expiry |-> expiry, fidelity |-> f,
                 state |-> "REQUESTED"]
<1>1. /\ records \in Seq(Ebit) /\ uses \in Seq(Nat) /\ Len(uses) = Len(records)
      /\ origin \in Seq([from : SUBSET (1..MaxEbits), fidelity : Fids])
      /\ Len(origin) = Len(records) /\ Len(records) \in Nat /\ Len(records) < MaxEbits
  BY DEF IInv, TypeOK, Request
<1>2. r \in Ebit
  BY NodePair DEF Request, Ebit, States
<1>3. Link \in [from : SUBSET (1..MaxEbits), fidelity : Fids]
  BY DEF Link, Fids
<1>4. TypeOK'
  BY <1>1, <1>2, <1>3 DEF Request, TypeOK
<1>5. /\ Ids' = Ids \cup {n} /\ Ids = 1..Len(records)
      /\ \A e \in Ids : records'[e] = records[e] /\ uses'[e] = uses[e]
                        /\ origin'[e] = origin[e]
      /\ records'[n] = r /\ uses'[n] = 0 /\ origin'[n] = Link
  BY <1>1, <1>2, <1>3 DEF Request, Ids
<1>6. SpentOnce'
  BY <1>5 DEF IInv, SpentOnce
<1>7. Swapped' = Swapped
  BY <1>1, <1>5 DEF Swapped
<1>8. ASSUME NEW e \in Swapped
      PROVE  /\ e \in Ids /\ origin[e].from \subseteq Ids /\ origin'[e] = origin[e]
             /\ \A x \in origin[e].from \cup {e} : records'[x] = records[x]
  BY <1>5, FromIds DEF IInv
<1>9. Lineage'
  BY <1>7, <1>8 DEF IInv, Lineage
<1> QED
  BY <1>4, <1>6, <1>9 DEF IInv

\* A swap uses up its two pairs and adds one that stands for both.
LEMMA SwapKeeps ==
    ASSUME IInv, NEW x \in Ids, NEW y \in Ids, NEW epoch \in Epochs,
           NEW expiry \in Epochs, Swap(x, y, epoch, expiry)
    PROVE  IInv'
<1> DEFINE n == Len(records) + 1
           fid == WeakerOf(records[x].fidelity, records[y].fidelity)
           r == [ends |-> FarEnds(x, y), expiry |-> expiry, fidelity |-> fid,
                 state |-> "HERALDED"]
           old == [e \in Ids |-> IF e \in {x, y} THEN Consumed(records[e]) ELSE records[e]]
           usedup == [e \in Ids |-> IF e \in {x, y} THEN uses[e] + 1 ELSE uses[e]]
           from == [from |-> {x, y}, fidelity |-> fid]
           Origins == [from : SUBSET (1..MaxEbits), fidelity : Fids]
<1>1. /\ records \in Seq(Ebit) /\ uses \in Seq(Nat) /\ Len(uses) = Len(records)
      /\ origin \in Seq(Origins)
      /\ Len(origin) = Len(records) /\ Len(records) \in Nat /\ Len(records) < MaxEbits
      /\ Ids = 1..Len(records)
  BY DEF IInv, TypeOK, Swap, Ids
<1>2. \A e \in Ids : records[e] \in Ebit /\ uses[e] \in Nat
  BY <1>1
<1>3. \A e \in Ids : Consumed(records[e]) \in Ebit
  BY <1>2 DEF Consumed, Ebit, States
<1>4. /\ records' = Append(old, r) /\ uses' = Append(usedup, 0)
      /\ origin' = Append(origin, from)
  BY DEF Swap, BothInputs
<1>5. fid \in Fids
  BY <1>2 DEF WeakerOf, Ebit
<1>6. r \in Ebit
  <2>1. /\ FarEnds(x, y) \in SUBSET Nodes /\ Cardinality(FarEnds(x, y)) = 2
    BY <1>2, FarEndsPair DEF FarEnds, Swap, Swappable, Ebit
  <2> QED
    BY <1>5, <2>1 DEF Ebit, States
<1>7. from \in Origins
  BY <1>1, <1>5
<1>8. /\ old \in Seq(Ebit) /\ Len(old) = Len(records)
      /\ usedup \in Seq(Nat) /\ Len(usedup) = Len(records)
  BY <1>1, <1>2, <1>3
<1>9. x # y /\ records[x].state \in Usable /\ records[y].state \in Usable
  <2>1. Swappable(x, y)
    BY DEF Swap
  <2>2. Cardinality(records[x].ends) = 2 /\ records[x].ends \cap records[x].ends = records[x].ends
    BY <1>2 DEF Ebit
  <2> QED
    BY <2>1, <2>2 DEF Swappable
<1> HIDE DEF r, from, Origins, fid, old, usedup
<1>a. /\ records' \in Seq(Ebit) /\ Len(records') = n
        /\ \A e \in 1..Len(records) : records'[e] = old[e]
        /\ records'[n] = r
  BY <1>4, <1>6, <1>8, Appending
<1>b. /\ uses' \in Seq(Nat) /\ Len(uses') = n
        /\ \A e \in 1..Len(records) : uses'[e] = usedup[e]
        /\ uses'[n] = 0
  <2>1. usedup \in Seq(Nat) /\ 0 \in Nat /\ uses' = Append(usedup, 0)
    BY <1>4, <1>8
  <2>2. /\ uses' \in Seq(Nat) /\ Len(uses') = Len(usedup) + 1
        /\ \A i \in 1..Len(usedup) : uses'[i] = usedup[i]
        /\ uses'[Len(usedup) + 1] = 0
    BY <2>1, Appending
  <2> QED
    BY <1>8, <2>2
<1>c. /\ origin' \in Seq(Origins) /\ Len(origin') = n
        /\ \A e \in 1..Len(records) : origin'[e] = origin[e]
        /\ origin'[n] = from
  <2>1. origin \in Seq(Origins) /\ from \in Origins /\ origin' = Append(origin, from)
    BY <1>1, <1>4, <1>7
  <2>2. /\ origin' \in Seq(Origins) /\ Len(origin') = Len(origin) + 1
        /\ \A i \in 1..Len(origin) : origin'[i] = origin[i]
        /\ origin'[Len(origin) + 1] = from
    BY <2>1, Appending
  <2> QED
    BY <1>1, <2>2
<1>10. TypeOK'
  <2>1. n <= MaxEbits
    BY <1>1
  <2> QED
    BY <1>a, <1>b, <1>c, <2>1 DEF TypeOK, Origins
<1>11. /\ Ids' = Ids \cup {n} /\ n \notin Ids
       /\ \A e \in Ids : /\ records'[e] = old[e] /\ uses'[e] = usedup[e]
                         /\ origin'[e] = origin[e]
       /\ records'[n] = r /\ uses'[n] = 0 /\ origin'[n] = from
  <2>1. 1..n = 1..Len(records) \cup {n} /\ n \notin 1..Len(records)
    BY <1>1
  <2>2. Ids' = 1..n /\ Ids = 1..Len(records)
    BY <1>a DEF Ids
  <2> QED
    BY <1>a, <1>b, <1>c, <2>1, <2>2
<1>12. \A e \in Ids : /\ records'[e].ends = records[e].ends
                      /\ records'[e].state
                            = IF e \in {x, y} THEN "CONSUMED" ELSE records[e].state
  BY <1>2, <1>11 DEF old, Consumed, Ebit
<1>13. SpentOnce'
  <2>1. ASSUME NEW e \in Ids
        PROVE  uses'[e] <= 1 /\ (uses'[e] = 1 <=> records'[e].state = "CONSUMED")
    <3>1. e \in {x, y} => uses[e] = 0
      BY <1>2, <1>9 DEF IInv, SpentOnce, Usable
    <3> QED
      BY <1>2, <1>11, <1>12, <3>1 DEF IInv, SpentOnce, usedup
  <2>2. uses'[n] <= 1 /\ (uses'[n] = 1 <=> records'[n].state = "CONSUMED")
    BY <1>11 DEF r
  <2> QED
    BY <1>11, <2>1, <2>2 DEF SpentOnce
<1>14. from # Link /\ from.from = {x, y}
  BY DEF from, Link
<1>15. Swapped' = Swapped \cup {n} /\ n \notin Swapped
  BY <1>11, <1>14 DEF Swapped
<1>16. ASSUME NEW e \in Swapped
       PROVE  /\ e \in Ids /\ origin[e].from \subseteq Ids \ {x, y}
              /\ origin'[e] = origin[e]
  <2>1. e \in Ids /\ origin[e].from \subseteq Ids
    BY FromIds DEF IInv
  <2>2. x \notin origin[e].from /\ y \notin origin[e].from
    BY <1>9 DEF IInv, Lineage, Usable
  <2> QED
    BY <1>11, <2>1, <2>2
<1> DEFINE Made(e) ==
        \E u, v \in origin'[e].from :
              /\ origin'[e].from = {u, v} /\ u # v /\ u < e /\ v < e
              /\ records'[e].ends = (records'[u].ends \cup records'[v].ends)
                                       \ (records'[u].ends \cap records'[v].ends)
<1>17. ASSUME NEW e \in Swapped
       PROVE  /\ Made(e)
              /\ \A u \in origin'[e].from : records'[u].state = "CONSUMED"
              /\ \A d \in Swapped' \ {e} : origin'[d].from \cap origin'[e].from = {}
  <2>1. PICK u, v \in origin[e].from :
           /\ origin[e].from = {u, v} /\ u # v /\ u < e /\ v < e
           /\ records[e].ends = (records[u].ends \cup records[v].ends)
                                    \ (records[u].ends \cap records[v].ends)
    BY DEF IInv, Lineage
  <2>2. Made(e)
    BY <1>12, <1>16, <2>1
  <2>3. \A w \in origin'[e].from : records'[w].state = "CONSUMED"
    BY <1>12, <1>16 DEF IInv, Lineage
  <2>4. \A d \in Swapped \ {e} : origin'[d].from \cap origin'[e].from = {}
    BY <1>16 DEF IInv, Lineage
  <2>5. origin'[n].from \cap origin'[e].from = {}
    BY <1>11, <1>14, <1>16
  <2> QED
    BY <1>15, <2>2, <2>3, <2>4, <2>5
<1>18. /\ Made(n)
       /\ \A u \in origin'[n].from : records'[u].state = "CONSUMED"
       /\ \A d \in Swapped' \ {n} : origin'[d].from \cap origin'[n].from = {}
  <2>1. records'[n].ends = (records'[x].ends \cup records'[y].ends)
                               \ (records'[x].ends \cap records'[y].ends)
    BY <1>11, <1>12 DEF r, FarEnds
  <2>2. x < n /\ y < n
    BY <1>1
  <2>3. Made(n)
    BY <1>9, <1>11, <1>14, <2>1, <2>2
  <2>4. \A u \in origin'[n].from : records'[u].state = "CONSUMED"
    BY <1>11, <1>12, <1>14
  <2>5. \A d \in Swapped : origin'[d].from \cap origin'[n].from = {}
    BY <1>11, <1>14, <1>16
  <2> QED
    BY <1>15, <2>3, <2>4, <2>5
<1>19. Lineage'
  BY <1>15, <1>17, <1>18 DEF Lineage
<1> QED
  BY <1>10, <1>13, <1>19 DEF IInv

LEMMA OfOneKeeps ==
    ASSUME IInv, NEW e \in Ids, OfOne(e)
    PROVE  IInv'
<1> {"GENERATING", "HERALDED", "RESERVED", "RELEASED", "FAILED", "EXPIRED"}
        \subseteq States \ {"CONSUMED"}
  BY DEF States
<1>1. CASE Generate(e) \/ Herald(e) \/ Release(e) \/ Fail(e) \/ ExpireOne(e)
  BY <1>1, TransitionKeeps DEF Generate, Herald, Release, Fail, ExpireOne
<1>2. CASE \E epoch \in Epochs : Reserve(e, epoch)
  BY <1>2, TransitionKeeps DEF Reserve
<1>3. CASE \E epoch \in Epochs :
              Consume(e, epoch) \/ Teleport(e, epoch) \/ RemoteCnot(e, epoch)
  BY <1>3, ConsumeKeeps DEF Consume, Teleport, RemoteCnot, Consumable
<1> QED
  BY <1>1, <1>2, <1>3 DEF OfOne

LEMMA OfTwoKeeps ==
    ASSUME IInv, NEW x \in Ids, NEW y \in Ids, OfTwo(x, y)
    PROVE  IInv'
<1>1. \A e \in Ids : records[e] \in Ebit
  BY DEF IInv, TypeOK, Ids
<1>2. WeakerOf(records[x].expiry, records[y].expiry) \in Epochs
  BY <1>1 DEF WeakerOf, Ebit
<1> PICK epoch \in Epochs :
        \/ SwapDefault(x, y, epoch) \/ SwapSecondExpired(x, y, epoch)
        \/ \E expiry \in Epochs : \/ Swap(x, y, epoch, expiry)
                                  \/ SwapBadExpiry(x, y, epoch, expiry)
  BY DEF OfTwo
<1>3. CASE SwapDefault(x, y, epoch)
  BY <1>2, <1>3, SwapKeeps DEF SwapDefault
<1>4. CASE SwapSecondExpired(x, y, epoch)
  BY <1>4, ConsumeKeeps DEF SwapSecondExpired, Swappable
<1>5. CASE \E expiry \in Epochs : Swap(x, y, epoch, expiry)
  BY <1>5, SwapKeeps
<1>6. CASE \E expiry \in Epochs : SwapBadExpiry(x, y, epoch, expiry)
  BY <1>6, ConsumeKeeps DEF SwapBadExpiry, Swappable
<1> QED
  BY <1>3, <1>4, <1>5, <1>6
-----------------------------------------------------------------------------
\* The inductive invariant holds of every history of the ledger.
THEOREM Invariance == Spec => []IInv
<1>1. Init => IInv
  BY DEF Init, IInv, TypeOK, SpentOnce, Lineage, Ids, Swapped
<1>2. IInv /\ [Next]_lvars => IInv'
  <2> SUFFICES ASSUME IInv, [Next]_lvars PROVE IInv'
    OBVIOUS
  <2>1. CASE \E a, b \in Nodes, epoch, expiry \in Epochs, f \in Fids :
                Request(a, b, epoch, expiry, f)
    BY <2>1, RequestKeeps
  <2>2. CASE \E epoch \in Epochs : ExpireAll(epoch)
    BY <2>2, ExpireAllKeeps
  <2>3. CASE \E e \in Ids : OfOne(e)
    BY <2>3, OfOneKeeps
  <2>4. CASE \E e \in Ids, f \in Fids : HeraldMeasured(e, f)
    BY <2>4, HeraldMeasuredKeeps
  <2>5. CASE \E x, y \in Ids : OfTwo(x, y)
    BY <2>5, OfTwoKeeps
  <2>6. CASE UNCHANGED lvars
    <3>1. records' \in Seq(Ebit) /\ UNCHANGED <<records, uses, origin>>
      BY <2>6 DEF lvars, IInv, TypeOK
    <3> QED
      BY <3>1, RelabelKeeps
  <2> QED
    BY <2>1, <2>2, <2>3, <2>4, <2>5, <2>6 DEF Next
<1> QED
  BY <1>1, <1>2, PTL DEF Spec

\* Every variable keeps its type, for any nodes, epochs and bounds.
THEOREM TypeCorrect == Spec => []TypeOK
<1>1. IInv => TypeOK
  BY DEF IInv
<1> QED
  BY <1>1, Invariance, PTL

\* The books of the ledger balance, for any nodes, epochs and number of ebits.
THEOREM LedgerBalances == Spec => []EbitsAccounted
<1>1. IInv => EbitsAccounted
  BY DEF IInv, EbitsAccounted
<1> QED
  BY <1>1, Invariance, PTL

\* No ebit ever serves two protocol runs, and CONSUMED says exactly which served one.
THEOREM EbitsSpentOnce == Spec => []SpentOnce
<1>1. IInv => SpentOnce
  BY DEF IInv
<1> QED
  BY <1>1, Invariance, PTL

\* Every swapped pair stands for two used pairs that no other pair stands for.
THEOREM LineageHolds == Spec => []Lineage
<1>1. IInv => Lineage
  BY DEF IInv
<1> QED
  BY <1>1, Invariance, PTL

-----------------------------------------------------------------------------
(* No entanglement but the link layer's.                                     *)

\* The step heralds a pair that the link layer was generating.
Heralds == \E e \in Ids : records[e].state = "GENERATING" /\ records'[e].state = "HERALDED"

LEMMA AcrossIsFinite ==
    ASSUME IInv, NEW S
    PROVE  IsFiniteSet(Across(S)) /\ Cardinality(Across(S)) \in Nat
<1>1. Len(records) \in Nat /\ Ids = 1..Len(records)
  BY DEF IInv, TypeOK, Ids
<1>2. IsFiniteSet(Ids)
  BY <1>1, FS_Interval
<1>3. Across(S) \subseteq Ids
  BY DEF Across
<1> QED
  BY <1>2, <1>3, FS_Subset, FS_CardinalityType

\* A step that makes no pair usable adds none to a cut.
LEMMA NoneMadeUsable ==
    ASSUME IInv, NEW S,
           \A e \in Ids' : records'[e].state \in Usable =>
               /\ e \in Ids /\ records[e].state \in Usable
               /\ records'[e].ends = records[e].ends
    PROVE  ~(Cardinality(Across(S)') > Cardinality(Across(S)))
<1>1. Across(S)' \subseteq Across(S)
  BY DEF Across
<1>2. IsFiniteSet(Across(S)) /\ Cardinality(Across(S)) \in Nat
  BY AcrossIsFinite
<1>3. Cardinality(Across(S)') <= Cardinality(Across(S)) /\ Cardinality(Across(S)') \in Nat
  BY <1>1, <1>2, FS_Subset, FS_CardinalityType
<1> QED
  BY <1>2, <1>3

\* A pair that is not across a cut is on one side of it.
LEMMA OneSide ==
    ASSUME NEW X, IsFiniteSet(X), Cardinality(X) = 2, NEW S, Cardinality(X \cap S) # 1
    PROVE  X \cap S = {} \/ X \subseteq S
<1>1. /\ IsFiniteSet(X \cap S) /\ Cardinality(X \cap S) \in Nat /\ Cardinality(X \cap S) <= 2
      /\ Cardinality(X \cap S) = 2 => X \cap S = X
  <2>1. X \cap S \subseteq X
    OBVIOUS
  <2> QED
    BY <2>1, FS_Subset, FS_CardinalityType
<1>2. CASE Cardinality(X \cap S) = 0
  BY <1>1, <1>2, FS_EmptySet
<1>3. CASE Cardinality(X \cap S) = 2
  BY <1>1, <1>3
<1> QED
  BY <1>1, <1>2, <1>3

\* A swapped pair crosses a cut only if one of its two does.
LEMMA FarEndsCross ==
    ASSUME NEW X \in SUBSET Nodes, NEW Y \in SUBSET Nodes, NEW S,
           Cardinality(X) = 2, Cardinality(Y) = 2, Cardinality(X \cap Y) = 1,
           Cardinality(((X \cup Y) \ (X \cap Y)) \cap S) = 1
    PROVE  Cardinality(X \cap S) = 1 \/ Cardinality(Y \cap S) = 1
<1> SUFFICES ASSUME Cardinality(X \cap S) # 1, Cardinality(Y \cap S) # 1
             PROVE  FALSE
  OBVIOUS
<1> DEFINE far == (X \cup Y) \ (X \cap Y)
<1>1. IsFiniteSet(X) /\ IsFiniteSet(Y) /\ Cardinality({}) = 0 /\ Cardinality(far) = 2
  BY FS_Subset, FS_EmptySet, FarEndsPair
<1>2. X \cap S = {} \/ X \subseteq S
  BY <1>1, OneSide
<1>3. Y \cap S = {} \/ Y \subseteq S
  BY <1>1, OneSide
<1>4. CASE X \cap S = {} /\ Y \cap S = {}
  <2>1. far \cap S = {}
    BY <1>4
  <2> QED
    BY <1>1, <2>1
<1>5. CASE X \subseteq S /\ Y \subseteq S
  <2>1. far \cap S = far
    BY <1>5
  <2> QED
    BY <1>1, <2>1
<1>6. CASE (X \cap S = {} /\ Y \subseteq S) \/ (X \subseteq S /\ Y \cap S = {})
  <2>1. X \cap Y = {}
    BY <1>6
  <2> QED
    BY <1>1, <2>1
<1> QED
  BY <1>2, <1>3, <1>4, <1>5, <1>6

\* The records after a swap: its two pairs are used up and their far ends are a pair.
LEMMA SwapRecords ==
    ASSUME IInv, NEW x \in Ids, NEW y \in Ids, NEW epoch \in Epochs,
           NEW expiry \in Epochs, Swap(x, y, epoch, expiry)
    PROVE  LET n == Len(records) + 1 IN
           /\ Ids' = Ids \cup {n} /\ n \notin Ids
           /\ records'[n].ends = FarEnds(x, y)
           /\ \A e \in Ids : /\ records'[e].ends = records[e].ends
                             /\ records'[e].state
                                   = IF e \in {x, y} THEN "CONSUMED" ELSE records[e].state
<1>n. PICK n : n = Len(records) + 1
  OBVIOUS
<1>r. PICK r : r = [ends |-> FarEnds(x, y), expiry |-> expiry,
                    fidelity |-> WeakerOf(records[x].fidelity, records[y].fidelity),
                    state |-> "HERALDED"]
  OBVIOUS
<1>o. PICK old : old = [e \in Ids |-> IF e \in {x, y} THEN Consumed(records[e]) ELSE records[e]]
  OBVIOUS
<1>1. records \in Seq(Ebit) /\ Len(records) \in Nat /\ Ids = 1..Len(records)
  BY DEF IInv, TypeOK, Ids
<1>2. \A e \in Ids : records[e] \in Ebit
  BY <1>1
<1>3. \A e \in Ids : Consumed(records[e]) \in Ebit
  BY <1>2 DEF Consumed, Ebit, States
<1>4. records' = Append(old, r)
  BY <1>r, <1>o DEF Swap, BothInputs
<1>5. records' \in Seq(Ebit) /\ Len(records') = n
  <2>1. IInv'
    BY SwapKeeps
  <2>2. old \in Seq(Ebit) /\ Len(old) = Len(records)
    BY <1>1, <1>2, <1>3, <1>o
  <2>3. Len(Append(old, r)) = Len(old) + 1
    BY <2>2
  <2> QED
    BY <1>4, <1>n, <2>1, <2>2, <2>3 DEF IInv, TypeOK
<1>6. \A e \in 1..Len(records) : records'[e] = old[e]
  BY <1>1, <1>2, <1>3, <1>4, <1>o
<1>7. records'[n] = r
  BY <1>1, <1>2, <1>3, <1>4, <1>n, <1>o
<1>8. Ids' = Ids \cup {n} /\ n \notin Ids
  <2>1. Ids' = 1..n
    BY <1>5 DEF Ids
  <2> QED
    BY <1>1, <1>n, <2>1
<1>9. records'[n].ends = FarEnds(x, y)
  BY <1>7, <1>r
<1>10. \A e \in Ids : /\ records'[e].ends = records[e].ends
                      /\ records'[e].state
                            = IF e \in {x, y} THEN "CONSUMED" ELSE records[e].state
  BY <1>1, <1>2, <1>6, <1>o DEF Consumed, Ebit
<1> QED
  BY <1>8, <1>9, <1>10, <1>n

LEMMA SwapAddsNone ==
    ASSUME IInv, NEW x \in Ids, NEW y \in Ids, NEW epoch \in Epochs,
           NEW expiry \in Epochs, Swap(x, y, epoch, expiry), NEW S
    PROVE  ~(Cardinality(Across(S)') > Cardinality(Across(S)))
<1>n. PICK n : n = Len(records) + 1
  OBVIOUS
<1>1. /\ Ids' = Ids \cup {n} /\ n \notin Ids /\ records'[n].ends = FarEnds(x, y)
      /\ \A e \in Ids : /\ records'[e].ends = records[e].ends
                        /\ records'[e].state
                              = IF e \in {x, y} THEN "CONSUMED" ELSE records[e].state
  BY <1>n, SwapRecords
<1>2. "CONSUMED" \notin Usable
  BY DEF Usable
<1>3. \A e \in Across(S)' : e = n \/ (e \in Across(S) /\ e # x /\ e # y)
  BY <1>1, <1>2 DEF Across
<1>4. IsFiniteSet(Across(S)) /\ Cardinality(Across(S)) \in Nat
  BY AcrossIsFinite
<1>5. CASE n \notin Across(S)'
  <2>1. Across(S)' \subseteq Across(S)
    BY <1>3, <1>5
  <2>2. Cardinality(Across(S)') <= Cardinality(Across(S)) /\ Cardinality(Across(S)') \in Nat
    BY <1>4, <2>1, FS_Subset, FS_CardinalityType
  <2> QED
    BY <1>4, <2>2
<1>6. CASE n \in Across(S)'
  <2>1. /\ records[x].ends \in SUBSET Nodes /\ records[y].ends \in SUBSET Nodes
        /\ Cardinality(records[x].ends) = 2 /\ Cardinality(records[y].ends) = 2
    <3>1. records[x] \in Ebit /\ records[y] \in Ebit
      BY DEF IInv, TypeOK, Ids
    <3> QED
      BY <3>1 DEF Ebit
  <2>2. /\ Cardinality(records[x].ends \cap records[y].ends) = 1
        /\ records[x].state \in Usable /\ records[y].state \in Usable
    BY DEF Swap, Swappable
  <2>3. Cardinality(FarEnds(x, y) \cap S) = 1
    BY <1>1, <1>6 DEF Across
  <2>4. Cardinality(records[x].ends \cap S) = 1 \/ Cardinality(records[y].ends \cap S) = 1
    BY <2>1, <2>2, <2>3, FarEndsCross DEF FarEnds
  <2>5. PICK z \in {x, y} : z \in Across(S)
    BY <2>2, <2>4 DEF Across
  <2>6. Across(S)' \subseteq (Across(S) \ {z}) \cup {n}
    BY <1>3, <2>5
  <2>7. /\ IsFiniteSet(Across(S) \ {z})
        /\ Cardinality(Across(S) \ {z}) = Cardinality(Across(S)) - 1
    BY <1>4, <2>5, FS_RemoveElement
  <2>8. n \notin Across(S) \ {z}
    BY <1>1 DEF Across
  <2>9. /\ IsFiniteSet((Across(S) \ {z}) \cup {n})
        /\ Cardinality((Across(S) \ {z}) \cup {n}) = Cardinality(Across(S) \ {z}) + 1
    BY <2>7, <2>8, FS_AddElement
  <2>10. /\ Cardinality(Across(S)') <= Cardinality((Across(S) \ {z}) \cup {n})
         /\ Cardinality(Across(S)') \in Nat
    BY <2>6, <2>9, FS_Subset, FS_CardinalityType
  <2> QED
    BY <1>4, <2>7, <2>9, <2>10
<1> QED
  BY <1>5, <1>6

LEMMA TransitionAddsNone ==
    ASSUME IInv, NEW e \in Ids, NEW new \in States, Transition(e, new),
           new = "HERALDED" => ~Heralds, NEW S
    PROVE  ~(Cardinality(Across(S)') > Cardinality(Across(S)))
<1>1. records \in Seq(Ebit) /\ Ids = 1..Len(records) /\ Len(records) \in Nat
  BY DEF IInv, TypeOK, Ids
<1>2. \A d \in Ids : records[d] \in Ebit
  BY <1>1
<1>3. /\ Ids' = Ids
      /\ \A d \in Ids : records'[d] = IF d = e THEN [records[e] EXCEPT !.state = new] ELSE records[d]
  BY <1>1, <1>2 DEF Transition, Ids, Ebit
<1>4. /\ records'[e].state = new /\ records'[e].ends = records[e].ends
      /\ records[e].state \in States
  BY <1>2, <1>3 DEF Ebit
<1>5. new \in Usable => records[e].state \in Usable
  <2>1. new \in EBIT_TRANSITIONS[records[e].state]
    BY DEF Transition
  <2>2. new = "RESERVED" => records[e].state = "HERALDED"
    BY <1>4, <2>1 DEF EBIT_TRANSITIONS, States
  <2>3. new = "HERALDED" => records[e].state = "GENERATING"
    BY <1>4, <2>1 DEF EBIT_TRANSITIONS, States
  <2> QED
    BY <1>4, <2>2, <2>3 DEF Usable, Heralds
<1> QED
  BY <1>3, <1>4, <1>5, NoneMadeUsable

LEMMA ConsumingAddsNone ==
    ASSUME IInv, NEW es, ConsumeEach(es), NEW S
    PROVE  ~(Cardinality(Across(S)') > Cardinality(Across(S)))
<1>1. records \in Seq(Ebit) /\ Ids = 1..Len(records) /\ Len(records) \in Nat
  BY DEF IInv, TypeOK, Ids
<1>2. \A d \in Ids : records[d] \in Ebit
  BY <1>1
<1>3. /\ Ids' = Ids
      /\ \A d \in Ids : records'[d] = IF d \in es THEN Consumed(records[d]) ELSE records[d]
  BY <1>1 DEF ConsumeEach, Ids
<1>4. \A d \in Ids : Consumed(records[d]).state = "CONSUMED"
  BY <1>2 DEF Consumed, Ebit
<1> QED
  BY <1>3, <1>4, NoneMadeUsable DEF Usable

LEMMA OtherCallsAddNone ==
    ASSUME IInv, NEW S, ~Heralds,
           \/ \E a, b \in Nodes, epoch, expiry \in Epochs, f \in Fids : Request(a, b, epoch, expiry, f)
           \/ \E epoch \in Epochs : ExpireAll(epoch)
           \/ \E e \in Ids, f \in Fids : HeraldMeasured(e, f)
    PROVE  ~(Cardinality(Across(S)') > Cardinality(Across(S)))
<1>1. records \in Seq(Ebit) /\ Ids = 1..Len(records) /\ Len(records) \in Nat
  BY DEF IInv, TypeOK, Ids
<1>2. \A d \in Ids : records[d] \in Ebit
  BY <1>1
<1>3. ASSUME NEW a \in Nodes, NEW b \in Nodes, NEW epoch \in Epochs, NEW expiry \in Epochs,
             NEW f \in Fids, Request(a, b, epoch, expiry, f)
      PROVE  ~(Cardinality(Across(S)') > Cardinality(Across(S)))
  <2>n. PICK n : n = Len(records) + 1
    OBVIOUS
  <2>r. PICK r : r = [ends |-> {a, b}, expiry |-> expiry, fidelity |-> f, state |-> "REQUESTED"]
    OBVIOUS
  <2>1. r \in Ebit /\ r.state = "REQUESTED"
    BY <1>3, <2>r, NodePair DEF Request, Ebit, States
  <2>2. records' = Append(records, r)
    BY <1>3, <2>r DEF Request
  <2>3. /\ Len(records') = n /\ records'[n] = r
        /\ \A d \in 1..Len(records) : records'[d] = records[d]
    BY <1>1, <2>1, <2>2, <2>n, Appending
  <2>4. Ids' = Ids \cup {n}
    BY <1>1, <2>3, <2>n DEF Ids
  <2> QED
    BY <1>1, <2>1, <2>3, <2>4, NoneMadeUsable DEF Usable
<1>4. ASSUME NEW epoch \in Epochs, ExpireAll(epoch)
      PROVE  ~(Cardinality(Across(S)') > Cardinality(Across(S)))
  <2>1. /\ Ids' = Ids
        /\ \A d \in Ids : \/ records'[d] = records[d]
                          \/ records'[d] = [records[d] EXCEPT !.state = "EXPIRED"]
    BY <1>1, <1>4 DEF ExpireAll, Ids
  <2>2. \A d \in Ids : [records[d] EXCEPT !.state = "EXPIRED"].state = "EXPIRED"
    BY <1>2 DEF Ebit
  <2> QED
    BY <2>1, <2>2, NoneMadeUsable DEF Usable
<1>5. ASSUME NEW e \in Ids, NEW f \in Fids, HeraldMeasured(e, f)
      PROVE  ~(Cardinality(Across(S)') > Cardinality(Across(S)))
  <2>s. PICK s : s = IF "HERALDED" \in EBIT_TRANSITIONS[records[e].state]
                     THEN "HERALDED" ELSE records[e].state
    OBVIOUS
  <2>1. records[e] \in Ebit /\ records[e].state \in States
    BY <1>2 DEF Ebit
  <2>2. /\ Ids' = Ids /\ records'[e].state = s /\ records'[e].ends = records[e].ends
        /\ \A d \in Ids : d # e => records'[d] = records[d]
    BY <1>1, <1>5, <2>1, <2>s DEF HeraldMeasured, Ids, Ebit
  <2>3. s = "HERALDED" /\ records[e].state # "HERALDED" => records[e].state = "GENERATING"
    BY <2>1, <2>s DEF EBIT_TRANSITIONS, States
  <2>4. s \in Usable => records[e].state \in Usable
    BY <2>1, <2>2, <2>3, <2>s DEF Usable, Heralds
  <2> QED
    BY <2>2, <2>4, NoneMadeUsable
<1> QED
  BY <1>3, <1>4, <1>5

LEMMA OfOneAddsNone ==
    ASSUME IInv, NEW e \in Ids, OfOne(e), ~Heralds, NEW S
    PROVE  ~(Cardinality(Across(S)') > Cardinality(Across(S)))
<1> {"GENERATING", "HERALDED", "RESERVED", "RELEASED", "FAILED", "EXPIRED"} \subseteq States
  BY DEF States
<1>1. CASE Generate(e) \/ Herald(e) \/ Release(e) \/ Fail(e) \/ ExpireOne(e)
  BY <1>1, TransitionAddsNone DEF Generate, Herald, Release, Fail, ExpireOne
<1>2. CASE \E epoch \in Epochs : Reserve(e, epoch)
  BY <1>2, TransitionAddsNone DEF Reserve
<1>3. CASE \E epoch \in Epochs :
              Consume(e, epoch) \/ Teleport(e, epoch) \/ RemoteCnot(e, epoch)
  BY <1>3, ConsumingAddsNone DEF Consume, Teleport, RemoteCnot
<1> QED
  BY <1>1, <1>2, <1>3 DEF OfOne

LEMMA OfTwoAddsNone ==
    ASSUME IInv, NEW x \in Ids, NEW y \in Ids, OfTwo(x, y), NEW S
    PROVE  ~(Cardinality(Across(S)') > Cardinality(Across(S)))
<1>1. \A e \in Ids : records[e] \in Ebit
  BY DEF IInv, TypeOK, Ids
<1>2. WeakerOf(records[x].expiry, records[y].expiry) \in Epochs
  BY <1>1 DEF WeakerOf, Ebit
<1> PICK epoch \in Epochs :
        \/ SwapDefault(x, y, epoch) \/ SwapSecondExpired(x, y, epoch)
        \/ \E expiry \in Epochs : \/ Swap(x, y, epoch, expiry)
                                  \/ SwapBadExpiry(x, y, epoch, expiry)
  BY DEF OfTwo
<1>3. CASE SwapDefault(x, y, epoch)
  BY <1>2, <1>3, SwapAddsNone DEF SwapDefault
<1>4. CASE SwapSecondExpired(x, y, epoch)
  BY <1>4, ConsumingAddsNone DEF SwapSecondExpired
<1>5. CASE \E expiry \in Epochs : Swap(x, y, epoch, expiry)
  BY <1>5, SwapAddsNone
<1>6. CASE \E expiry \in Epochs : SwapBadExpiry(x, y, epoch, expiry)
  BY <1>6, ConsumingAddsNone DEF SwapBadExpiry
<1> QED
  BY <1>3, <1>4, <1>5, <1>6

\* Entanglement across a cut of the nodes is made by the link layer only: swaps, failed
\* swaps, expiries and measured fidelities never add a usable pair across any cut
\* (EbitLedger, entanglement_swap).
THEOREM EntanglementIsNotFree == Spec => NoFreeEntanglement
<1>1. ASSUME IInv, Next, ~Heralds, NEW S \in SUBSET Nodes
      PROVE  ~(Cardinality(Across(S)') > Cardinality(Across(S)))
  BY <1>1, OtherCallsAddNone, OfOneAddsNone, OfTwoAddsNone DEF Next
<1>2. IInv /\ [Next]_lvars =>
         [\A S \in SUBSET Nodes : Cardinality(Across(S)') > Cardinality(Across(S)) =>
             \E e \in Ids : /\ records[e].state = "GENERATING"
                            /\ records'[e].state = "HERALDED"]_lvars
  BY <1>1 DEF Heralds
<1> QED
  BY <1>2, Invariance, PTL DEF Spec, NoFreeEntanglement
-----------------------------------------------------------------------------
(* The ownership verifier, for any menu of rows and any length of program.   *)

Objects == UNION {Touches(row) : row \in RowMenu}
OwnerRecords == [state : {"LIVE", "MEASURED", "MOVED", "RELEASED"}, lineage : Nat,
                 node : {row.node : row \in RowMenu}, partners : SUBSET Objects]

\* What is recorded of the objects while nothing was rejected.
OwnTyped(owned) ==
    /\ owned \in [DOMAIN owned -> OwnerRecords]
    /\ \A k \in DOMAIN owned : owned[k].lineage <= lineages

\* What a row gained is recorded, and what was lost for good is not live.
GainsKnown == \A h \in DOMAIN program : \A k \in ToSet(program[h].out) :
                 Gained(program[h], k) => Known(k)
LossesKnown ==
    \A j \in DOMAIN program : \A k \in DOMAIN own :
        /\ Lost(program[j], k)
        /\ \E h \in 1 .. j - 1 : Gained(program[h], k)
        /\ \A h \in j + 1 .. Len(program) : ~Gained(program[h], k)
        => own[k].state # "LIVE"

OwnerInv ==
    /\ program \in Seq(RowMenu) /\ accepted \in BOOLEAN
    /\ accepted => /\ lineages \in Nat /\ OwnTyped(own) /\ LiveApart(own)
                   /\ GainsKnown /\ LossesKnown /\ UsesAreOwned

\* A set of natural numbers that has a member has a least one.
Below == OpToRel(<, Nat)
LEMMA LeastNumber ==
    ASSUME NEW S \in SUBSET Nat, S # {}
    PROVE  \E x \in S : \A y \in S : x <= y
<1>1. IsWellFoundedOn(Below, Nat)
  BY NatLessThanWellFounded DEF Below
<1>2. PICK x \in S : \A y \in S : <<y, x>> \notin Below
  BY <1>1, WFMin
<1>3. ASSUME NEW y \in S
      PROVE  x <= y
  <2>1. <<y, x>> \in Nat \X Nat /\ <<y, x>>[1] = y /\ <<y, x>>[2] = x
    OBVIOUS
  <2>2. ~(y < x)
    BY <1>2, <2>1 DEF Below, OpToRel
  <2> QED
    BY <2>2
<1> QED
  BY <1>3

\* What one key's turn makes of the records f[i - 1].
KeyStep(f, i, row) ==
    IF i = 0 THEN own
    ELSE IF row.a[i] \notin DOMAIN f[i - 1] THEN f[i - 1]
    ELSE KeyMoved(f[i - 1], row.a[i], row.out[i], row.node)
Stepped(f, n, row) == f = [i \in 0 .. n |-> KeyStep(f, i, row)]

\* The recursion of Moves defines something, whatever the row.
LEMMA SteppedExists ==
    ASSUME NEW row, NEW n \in Nat
    PROVE  \E f : Stepped(f, n, row)
<1> DEFINE Bad == {m \in Nat : ~\E f : Stepped(f, m, row)}
<1> SUFFICES ASSUME Bad # {} PROVE FALSE
  OBVIOUS
<1>1. PICK m \in Bad : \A y \in Bad : m <= y
  <2>1. Bad \in SUBSET Nat
    OBVIOUS
  <2> HIDE DEF Bad
  <2> QED
    BY <2>1, LeastNumber
<1>2. m \in Nat /\ ~\E f : Stepped(f, m, row)
  BY <1>1
<1>3. CASE m = 0
  <2>1. Stepped([i \in 0 .. 0 |-> own], 0, row)
    BY DEF Stepped, KeyStep
  <2> QED
    BY <1>2, <1>3, <2>1
<1>4. CASE m # 0
  <2>1. m - 1 \in Nat /\ m - 1 \notin Bad
    BY <1>1, <1>2, <1>4
  <2>2. PICK f : Stepped(f, m - 1, row)
    BY <2>1
  <2> DEFINE g == [i \in 0 .. m |-> IF i = m THEN KeyStep(f, m, row) ELSE f[i]]
  <2>3. ASSUME NEW i \in 0 .. m
        PROVE  g[i] = KeyStep(g, i, row)
    <3>1. CASE i = 0
      BY <2>2, <3>1, <1>2, <1>4 DEF Stepped, KeyStep
    <3>2. CASE i # 0
      <4>1. i - 1 \in 0 .. m /\ i - 1 # m /\ g[i - 1] = f[i - 1]
        BY <1>2, <3>2
      <4>2. KeyStep(g, i, row) = KeyStep(f, i, row)
        BY <4>1, <3>2 DEF KeyStep
      <4>3. CASE i = m
        BY <4>2, <4>3
      <4>4. CASE i # m
        <5>1. i \in 0 .. m - 1
          BY <4>4, <1>2
        <5>2. f[i] = KeyStep(f, i, row)
          BY <2>2, <5>1 DEF Stepped
        <5> QED
          BY <4>2, <4>4, <5>2
      <4> QED
        BY <4>3, <4>4
    <3> QED
      BY <3>1, <3>2
  <2>4. g = [i \in 0 .. m |-> g[i]]
    OBVIOUS
  <2>5. [i \in 0 .. m |-> g[i]] = [i \in 0 .. m |-> KeyStep(g, i, row)]
    BY <2>3
  <2>6. Stepped(g, m, row)
    BY <2>4, <2>5 DEF Stepped
  <2> QED
    BY <2>6, <1>2
<1> QED
  BY <1>3, <1>4

\* A teleportation starts from the records there are and moves key by key.
LEMMA MovesStep ==
    ASSUME NEW row, Shorter(row) \in Nat
    PROVE  /\ Moves(row)[0] = own
           /\ \A i \in 1 .. Shorter(row) : Moves(row)[i] = KeyStep(Moves(row), i, row)
<1>1. Stepped(Moves(row), Shorter(row), row)
  <2>1. \E f : f = [i \in 0 .. Shorter(row) |-> KeyStep(f, i, row)]
    BY SteppedExists DEF Stepped
  <2>2. Moves(row) = CHOOSE f : f = [i \in 0 .. Shorter(row) |-> KeyStep(f, i, row)]
    BY DEF Moves, KeyStep
  <2> QED
    BY <2>1, <2>2 DEF Stepped
<1>2. \A i \in 0 .. Shorter(row) : Moves(row)[i] = KeyStep(Moves(row), i, row)
  BY <1>1 DEF Stepped
<1>3. Moves(row)[0] = own
  BY <1>2 DEF KeyStep
<1> QED
  BY <1>2, <1>3

\* The cells of a row are sequences without repetition, of objects it touches.
LEMMA Cells ==
    ASSUME NEW row \in RowMenu
    PROVE  /\ row.a \in Seq(ToSet(row.a)) /\ row.out \in Seq(ToSet(row.out))
           /\ row.ctrl \in Seq(ToSet(row.ctrl))
           /\ Len(row.a) \in Nat /\ Len(row.out) \in Nat
           /\ Shorter(row) \in Nat /\ Shorter(row) <= Len(row.a) /\ Shorter(row) <= Len(row.out)
           /\ \A i, j \in 1 .. Len(row.a) : row.a[i] = row.a[j] => i = j
           /\ \A i, j \in 1 .. Len(row.out) : row.out[i] = row.out[j] => i = j
           /\ ToSet(row.a) \subseteq Touches(row) /\ ToSet(row.ctrl) \subseteq Touches(row)
           /\ ToSet(row.out) \subseteq Touches(row) /\ Touches(row) \subseteq Objects
<1>1. \A cell \in {row.out, row.ctrl, row.a, row.b} : cell \in Seq(ToSet(cell)) /\ IsInjective(cell)
  BY CellsAreRanges
<1>2. /\ row.a \in Seq(ToSet(row.a)) /\ row.out \in Seq(ToSet(row.out)) /\ row.ctrl \in Seq(ToSet(row.ctrl))
      /\ IsInjective(row.a) /\ IsInjective(row.out)
  BY <1>1
<1>3. DOMAIN row.a = 1 .. Len(row.a) /\ DOMAIN row.out = 1 .. Len(row.out)
      /\ Len(row.a) \in Nat /\ Len(row.out) \in Nat
  BY <1>2
<1>4. /\ Shorter(row) \in Nat /\ Shorter(row) <= Len(row.a) /\ Shorter(row) <= Len(row.out)
  BY <1>3 DEF Shorter
<1>5. /\ \A i, j \in 1 .. Len(row.a) : row.a[i] = row.a[j] => i = j
      /\ \A i, j \in 1 .. Len(row.out) : row.out[i] = row.out[j] => i = j
  BY <1>2, <1>3 DEF IsInjective
<1>6. /\ ToSet(row.a) \subseteq Touches(row) /\ ToSet(row.ctrl) \subseteq Touches(row)
      /\ ToSet(row.out) \subseteq Touches(row) /\ Touches(row) \subseteq Objects
  BY DEF Touches, Reads, Writes, Objects
<1> QED
  BY <1>2, <1>3, <1>4, <1>5, <1>6

\* A cell's keys are its members.
LEMMA Members ==
    ASSUME NEW cell, cell \in Seq(ToSet(cell))
    PROVE  /\ DOMAIN cell = 1 .. Len(cell) /\ Len(cell) \in Nat
           /\ \A k : k \in ToSet(cell) <=> \E i \in 1 .. Len(cell) : cell[i] = k
<1>1. DOMAIN cell = 1 .. Len(cell) /\ Len(cell) \in Nat
  OBVIOUS
<1> QED
  BY <1>1 DEF ToSet

\* A new record.
LEMMA RecordTyped ==
    ASSUME NEW row \in RowMenu, NEW l \in Nat
    PROVE  /\ Record(row.node, l) \in OwnerRecords
           /\ Record(row.node, l).state = "LIVE" /\ Record(row.node, l).lineage = l
<1>1. row.node \in {r.node : r \in RowMenu} /\ {} \in SUBSET Objects
  OBVIOUS
<1> QED
  BY <1>1 DEF Record, OwnerRecords

\* A record in another state.
LEMMA StateOf ==
    ASSUME NEW r \in OwnerRecords, NEW state \in {"LIVE", "MEASURED", "MOVED", "RELEASED"}
    PROVE  /\ [r EXCEPT !.state = state] \in OwnerRecords
           /\ [r EXCEPT !.state = state].state = state
           /\ [r EXCEPT !.state = state].lineage = r.lineage
  BY DEF OwnerRecords

\* What one key's move makes of records that are typed and apart: its source is
\* no longer live, unless it is its own destination, and the destination is.
MovedOn(g, s, d, h) ==
    /\ OwnTyped(h) /\ LiveApart(h) /\ DOMAIN h = DOMAIN g \union {d}
    /\ h[d].state = "LIVE"
    /\ s # d => h[s].state = "MOVED"
    /\ \A k \in DOMAIN g \ {s, d} : h[k] = g[k]

LEMMA KeyMoves ==
    ASSUME NEW row \in RowMenu, NEW g, OwnTyped(g), LiveApart(g), lineages \in Nat,
           NEW s \in DOMAIN g, g[s].state = "LIVE", NEW d
    PROVE  MovedOn(g, s, d, KeyMoved(g, s, d, row.node))
<1> DEFINE h == KeyMoved(g, s, d, row.node)
<1>1. g[s] \in OwnerRecords /\ g[s].lineage \in Nat /\ g[s].lineage <= lineages
      /\ \A k \in DOMAIN g : g[k] \in OwnerRecords /\ g[k].lineage <= lineages
  BY DEF OwnTyped, OwnerRecords
<1>2. DOMAIN h = DOMAIN g \union {d} /\ h = [k \in DOMAIN h |-> h[k]]
  BY DEF KeyMoved
<1>3. h[d] = Record(row.node, g[s].lineage)
  BY DEF KeyMoved
<1>4. s # d => h[s] = [g[s] EXCEPT !.state = "MOVED"]
  BY DEF KeyMoved
<1>5. \A k \in DOMAIN g \ {s, d} : h[k] = g[k]
  BY DEF KeyMoved
<1>6. h[d] \in OwnerRecords /\ h[d].state = "LIVE" /\ h[d].lineage = g[s].lineage
  BY <1>1, <1>3, RecordTyped
<1>7. s # d => h[s] \in OwnerRecords /\ h[s].state = "MOVED" /\ h[s].lineage = g[s].lineage
  <2>1. /\ [g[s] EXCEPT !.state = "MOVED"] \in OwnerRecords
        /\ [g[s] EXCEPT !.state = "MOVED"].state = "MOVED"
        /\ [g[s] EXCEPT !.state = "MOVED"].lineage = g[s].lineage
    BY <1>1, StateOf
  <2> QED
    BY <2>1, <1>4
<1> HIDE DEF h
<1>8. OwnTyped(h)
  <2>1. ASSUME NEW k \in DOMAIN h
        PROVE  h[k] \in OwnerRecords /\ h[k].lineage <= lineages
    BY <1>1, <1>2, <1>5, <1>6, <1>7
  <2> QED
    BY <2>1, <1>2 DEF OwnTyped
<1>9. LiveApart(h)
  <2>1. SUFFICES ASSUME NEW j \in DOMAIN h, NEW k \in DOMAIN h, h[j].state = "LIVE", h[k].state = "LIVE",
                        h[j].lineage = h[k].lineage
                 PROVE  j = k
    BY DEF LiveApart
  <2>2. ASSUME NEW m \in DOMAIN h, h[m].state = "LIVE", m # d
        PROVE  m \in DOMAIN g /\ m # s /\ g[m].state = "LIVE" /\ g[m].lineage = h[m].lineage
    BY <2>2, <1>2, <1>5, <1>7
  <2>3. ASSUME NEW m \in DOMAIN h, h[m].state = "LIVE", m # d
        PROVE  h[m].lineage # h[d].lineage
    BY <2>2, <2>3, <1>6 DEF LiveApart
  <2>4. CASE j = d \/ k = d
    BY <2>1, <2>3, <2>4
  <2>5. CASE j # d /\ k # d
    BY <2>1, <2>2, <2>5 DEF LiveApart
  <2> QED
    BY <2>4, <2>5
<1> QED
  BY <1>2, <1>5, <1>6, <1>7, <1>8, <1>9 DEF h, MovedOn

\* What a teleportation of the first i keys leaves behind.
Underway(row, g, i) ==
    /\ OwnTyped(g) /\ LiveApart(g) /\ DOMAIN own \subseteq DOMAIN g
    /\ \A p \in i + 1 .. Shorter(row) : row.a[p] \in DOMAIN g => g[row.a[p]].state = "LIVE"
    /\ \A p \in 1 .. i : row.out[p] \in DOMAIN g
    /\ \A p \in 1 .. i :
          /\ row.a[p] \in DOMAIN g
          /\ (\A j \in p .. i : row.out[j] # row.a[p]) => g[row.a[p]].state # "LIVE"
    /\ \A k \in DOMAIN own :
          own[k].state # "LIVE" /\ (\A p \in 1 .. i : row.out[p] # k) => g[k].state # "LIVE"

LEMMA NextKeyMoves ==
    ASSUME NEW row \in RowMenu, lineages \in Nat, NEW i \in 1 .. Shorter(row),
           NEW g, Underway(row, g, i - 1), row.a[i] \in DOMAIN g
    PROVE  Underway(row, KeyMoved(g, row.a[i], row.out[i], row.node), i)
<1> DEFINE s == row.a[i]
           d == row.out[i]
           h == KeyMoved(g, s, d, row.node)
<1>1. /\ Shorter(row) \in Nat /\ Shorter(row) <= Len(row.a) /\ Len(row.a) \in Nat /\ i \in Nat
      /\ \A p, q \in 1 .. Shorter(row) : row.a[p] = row.a[q] => p = q
  <2>1. /\ Shorter(row) \in Nat /\ Shorter(row) <= Len(row.a) /\ Len(row.a) \in Nat
        /\ \A p, q \in 1 .. Len(row.a) : row.a[p] = row.a[q] => p = q
    BY Cells
  <2>2. \A p \in 1 .. Shorter(row) : p \in 1 .. Len(row.a)
    BY <2>1
  <2> QED
    BY <2>1, <2>2
<1>2. s \in DOMAIN g /\ g[s].state = "LIVE"
  BY <1>1 DEF Underway
<1>3. OwnTyped(g) /\ LiveApart(g)
  BY DEF Underway
<1>4. /\ OwnTyped(h) /\ LiveApart(h) /\ DOMAIN h = DOMAIN g \union {d} /\ h[d].state = "LIVE"
      /\ s # d => h[s].state = "MOVED"
      /\ \A k \in DOMAIN g \ {s, d} : h[k] = g[k]
  <2>1. MovedOn(g, s, d, h)
    BY <1>2, <1>3, KeyMoves
  <2> QED
    BY <2>1 DEF MovedOn
<1> HIDE DEF h
<1>5. DOMAIN own \subseteq DOMAIN h
  BY <1>4 DEF Underway
<1>6. ASSUME NEW p \in i + 1 .. Shorter(row), row.a[p] \in DOMAIN h
      PROVE  h[row.a[p]].state = "LIVE"
  <2>1. p \in 1 .. Shorter(row) /\ p # i /\ row.a[p] # s /\ p \in (i - 1) + 1 .. Shorter(row)
    BY <1>1
  <2>2. CASE row.a[p] = d
    BY <2>2, <1>4
  <2>3. CASE row.a[p] # d
    <3>1. row.a[p] \in DOMAIN g \ {s, d}
      BY <2>1, <2>3, <1>4, <1>6
    <3> QED
      BY <3>1, <2>1, <1>4 DEF Underway
  <2> QED
    BY <2>2, <2>3
<1>7. ASSUME NEW p \in 1 .. i
      PROVE  row.out[p] \in DOMAIN h
  <2>1. CASE p = i
    BY <2>1, <1>4
  <2>2. CASE p # i
    <3>1. p \in 1 .. i - 1
      BY <2>2, <1>1
    <3> QED
      BY <3>1, <1>4 DEF Underway
  <2> QED
    BY <2>1, <2>2
<1>8. ASSUME NEW p \in 1 .. i
      PROVE  /\ row.a[p] \in DOMAIN h
             /\ (\A j \in p .. i : row.out[j] # row.a[p]) => h[row.a[p]].state # "LIVE"
  <2>1. CASE p = i
    <3>1. i \in i .. i
      BY <1>1
    <3> QED
      BY <2>1, <3>1, <1>2, <1>4
  <2>2. CASE p # i
    <3>1. p \in 1 .. i - 1 /\ p \in 1 .. Shorter(row) /\ row.a[p] # s
      BY <2>2, <1>1
    <3>2. row.a[p] \in DOMAIN g
      BY <3>1 DEF Underway
    <3>3. ASSUME \A j \in p .. i : row.out[j] # row.a[p]
          PROVE  h[row.a[p]].state # "LIVE"
      <4>1. i \in p .. i /\ \A j \in p .. i - 1 : j \in p .. i
        BY <3>1, <1>1
      <4>2. row.a[p] # d /\ \A j \in p .. i - 1 : row.out[j] # row.a[p]
        BY <3>3, <4>1
      <4>3. g[row.a[p]].state # "LIVE"
        BY <3>1, <4>2 DEF Underway
      <4>4. h[row.a[p]] = g[row.a[p]]
        BY <3>1, <3>2, <4>2, <1>4
      <4> QED
        BY <4>3, <4>4
    <3> QED
      BY <3>2, <3>3, <1>4
  <2> QED
    BY <2>1, <2>2
<1>9. ASSUME NEW k \in DOMAIN own, own[k].state # "LIVE", \A p \in 1 .. i : row.out[p] # k
      PROVE  h[k].state # "LIVE"
  <2>1. \A p \in 1 .. i - 1 : p \in 1 .. i
    BY <1>1
  <2>2. i \in 1 .. i
    BY <1>1
  <2>3. k # d /\ k \in DOMAIN g /\ g[k].state # "LIVE"
    BY <1>9, <2>1, <2>2 DEF Underway
  <2>4. k # s
    BY <2>3, <1>2
  <2> QED
    BY <2>3, <2>4, <1>4
<1>10. Underway(row, h, i)
  BY <1>4, <1>5, <1>6, <1>7, <1>8, <1>9 DEF Underway
<1> QED
  BY <1>10 DEF h

\* A teleportation that the verifier does not reject, from beginning to end.
LEMMA TeleportMoves ==
    ASSUME NEW row \in RowMenu, lineages \in Nat, OwnTyped(own), LiveApart(own),
           \A k \in Touches(row) : Known(k) => own[k].state = "LIVE",
           ~Unprepared(row)
    PROVE  Underway(row, Teleported(row), Shorter(row))
<1>1. /\ Shorter(row) \in Nat /\ Shorter(row) <= Len(row.a) /\ Len(row.a) \in Nat
      /\ \A p \in 1 .. Shorter(row) : row.a[p] \in Touches(row)
  <2>1. \A p \in 1 .. Shorter(row) : p \in 1 .. Len(row.a)
    BY Cells, Members
  <2> QED
    BY <2>1, Cells, Members
<1>2. /\ Moves(row)[0] = own
      /\ \A i \in 1 .. Shorter(row) : Moves(row)[i] = KeyStep(Moves(row), i, row)
  BY <1>1, MovesStep
<1>3. Underway(row, Moves(row)[0], 0)
  <2>1. Underway(row, own, 0)
    BY <1>1 DEF Underway, Known
  <2> QED
    BY <2>1, <1>2
<1>4. ASSUME NEW i \in 1 .. Shorter(row), Underway(row, Moves(row)[i - 1], i - 1)
      PROVE  Underway(row, Moves(row)[i], i)
  <2>1. row.a[i] \in DOMAIN Moves(row)[i - 1] /\ i # 0
    BY DEF Unprepared
  <2>2. Moves(row)[i] = KeyMoved(Moves(row)[i - 1], row.a[i], row.out[i], row.node)
    BY <2>1, <1>2 DEF KeyStep
  <2> QED
    BY <2>1, <2>2, <1>4, NextKeyMoves
<1> DEFINE Bad == {i \in 0 .. Shorter(row) : ~Underway(row, Moves(row)[i], i)}
<1>5. Bad = {}
  <2> SUFFICES ASSUME Bad # {} PROVE FALSE
    OBVIOUS
  <2>1. Bad \in SUBSET Nat
    BY <1>1
  <2>2. PICK i \in Bad : \A y \in Bad : i <= y
    <3> HIDE DEF Bad
    <3> QED
      BY <2>1, LeastNumber
  <2>3. i \in 0 .. Shorter(row) /\ ~Underway(row, Moves(row)[i], i)
    BY <2>2
  <2>4. i # 0
    BY <2>3, <1>3
  <2>5. i \in 1 .. Shorter(row) /\ i - 1 \in 0 .. Shorter(row) /\ ~(i <= i - 1)
    BY <2>3, <2>4, <1>1
  <2>6. Underway(row, Moves(row)[i - 1], i - 1)
    BY <2>2, <2>5
  <2> QED
    BY <2>3, <2>5, <2>6, <1>4
<1>6. Shorter(row) \in 0 .. Shorter(row)
  BY <1>1
<1> QED
  BY <1>5, <1>6 DEF Teleported

\* What a row that is not rejected does to the records.
RecordsKept(row) ==
    /\ lineages' \in Nat /\ OwnTyped(own)' /\ LiveApart(own)' /\ DOMAIN own \subseteq DOMAIN own'
    /\ \A k \in ToSet(row.out) : Gained(row, k) => k \in DOMAIN own'
    /\ \A k \in DOMAIN own :
          Lost(row, k) \/ (own[k].state # "LIVE" /\ ~Gained(row, k)) => own'[k].state # "LIVE"

\* The families of operations, told apart.
LEMMA Families ==
    ASSUME NEW row, NEW k
    PROVE  /\ row.op \in Prepares \union {"ENTANGLE_LINK", "EPR_RESERVE"} =>
                 (Gained(row, k) <=> k \in ToSet(row.out)) /\ ~Lost(row, k)
           /\ row.op = "TELEPORT" =>
                 /\ Gained(row, k) <=> \E i \in 1 .. Shorter(row) : row.out[i] = k
                 /\ Lost(row, k) <=> \E i \in 1 .. Shorter(row) :
                       row.a[i] = k /\ \A j \in i .. Shorter(row) : row.out[j] # k
           /\ row.op = "EPR_RELEASE" => ~Gained(row, k) /\ (Lost(row, k) <=> k \in ToSet(row.a))
           /\ row.op \in Destructive =>
                 ~Gained(row, k) /\ (Lost(row, k) <=> k \in ToSet(IF row.a # <<>> THEN row.a ELSE row.ctrl))
           /\ row.op \notin Prepares \union Destructive
                              \union {"ENTANGLE_LINK", "EPR_RESERVE", "TELEPORT", "EPR_RELEASE"} =>
                 ~Gained(row, k) /\ ~Lost(row, k)
  BY DEF Gained, Lost, Prepares, Destructive

\* The records after a row created the keys of a sequence.
LEMMA FreshRecords ==
    ASSUME NEW row \in RowMenu, NEW keys, keys \in Seq(ToSet(keys)), IsInjective(keys),
           lineages \in Nat, OwnTyped(own), LiveApart(own),
           own' = Fresh(keys, row.node), lineages' = lineages + Len(keys)
    PROVE  /\ lineages' \in Nat /\ OwnTyped(own)' /\ LiveApart(own)'
           /\ DOMAIN own' = DOMAIN own \union ToSet(keys)
           /\ \A k \in DOMAIN own \ ToSet(keys) : own'[k] = own[k]
<1>1. DOMAIN keys = 1 .. Len(keys) /\ Len(keys) \in Nat
      /\ \A k : k \in ToSet(keys) <=> \E i \in 1 .. Len(keys) : keys[i] = k
  BY Members
<1>2. lineages' \in Nat /\ lineages <= lineages'
  BY <1>1
<1>3. DOMAIN own' = DOMAIN own \union ToSet(keys) /\ own' = [k \in DOMAIN own' |-> own'[k]]
  BY DEF Fresh
<1>4. \A k \in DOMAIN own \ ToSet(keys) : own'[k] = own[k]
  BY DEF Fresh
<1>5. ASSUME NEW k \in ToSet(keys)
      PROVE  \E i \in 1 .. Len(keys) :
                /\ keys[i] = k /\ own'[k].lineage = lineages + i
                /\ own'[k] \in OwnerRecords /\ own'[k].lineage <= lineages'
  <2>1. PICK i \in 1 .. Len(keys) : keys[i] = k
    BY <1>1
  <2>2. {j \in DOMAIN keys : keys[j] = k} = {i}
    BY <1>1, <2>1 DEF IsInjective
  <2>3. Max({i}) = i
    BY <1>1 DEF Max
  <2>4. own'[k] = Record(row.node, lineages + i)
    BY <2>2, <2>3 DEF Fresh
  <2>5. lineages + i \in Nat /\ lineages + i <= lineages'
    BY <1>1
  <2>6. own'[k] \in OwnerRecords /\ own'[k].lineage = lineages + i
    BY <2>4, <2>5, RecordTyped
  <2> QED
    BY <2>1, <2>5, <2>6
<1>6. \A k \in DOMAIN own : own[k] \in OwnerRecords /\ own[k].lineage \in Nat /\ own[k].lineage <= lineages
  BY DEF OwnTyped, OwnerRecords
<1>7. OwnTyped(own)'
  <2>1. ASSUME NEW k \in DOMAIN own'
        PROVE  own'[k] \in OwnerRecords /\ own'[k].lineage <= lineages'
    <3>1. CASE k \in ToSet(keys)
      BY <3>1, <1>5
    <3>2. CASE k \notin ToSet(keys)
      BY <3>2, <1>2, <1>3, <1>4, <1>6
    <3> QED
      BY <3>1, <3>2
  <2> QED
    BY <2>1, <1>3 DEF OwnTyped
<1>8. LiveApart(own)'
  <2>1. SUFFICES ASSUME NEW j \in DOMAIN own', NEW k \in DOMAIN own',
                        own'[j].state = "LIVE", own'[k].state = "LIVE", own'[j].lineage = own'[k].lineage
                 PROVE  j = k
    BY DEF LiveApart
  <2>2. ASSUME NEW m \in DOMAIN own', m \notin ToSet(keys)
        PROVE  m \in DOMAIN own /\ own'[m] = own[m] /\ own'[m].lineage \in Nat /\ own'[m].lineage <= lineages
    BY <2>2, <1>3, <1>4, <1>6
  <2>3. ASSUME NEW m \in DOMAIN own', m \in ToSet(keys)
        PROVE  \E i \in 1 .. Len(keys) : keys[i] = m /\ own'[m].lineage = lineages + i
    BY <2>3, <1>5
  <2>4. CASE j \notin ToSet(keys) /\ k \notin ToSet(keys)
    BY <2>1, <2>2, <2>4 DEF LiveApart
  <2>5. CASE j \in ToSet(keys) /\ k \in ToSet(keys)
    <3>1. PICK i \in 1 .. Len(keys) : keys[i] = j /\ own'[j].lineage = lineages + i
      BY <2>3, <2>5
    <3>2. PICK p \in 1 .. Len(keys) : keys[p] = k /\ own'[k].lineage = lineages + p
      BY <2>3, <2>5
    <3>3. i = p
      BY <3>1, <3>2, <2>1, <1>1
    <3> QED
      BY <3>1, <3>2, <3>3
  <2>6. \A m \in DOMAIN own' : m \in ToSet(keys) => own'[m].lineage \in Nat /\ own'[m].lineage > lineages
    BY <2>3, <1>1
  <2>7. \A m \in DOMAIN own' : m \notin ToSet(keys) => own'[m].lineage \in Nat /\ own'[m].lineage <= lineages
    BY <2>2
  <2>8. CASE (j \in ToSet(keys)) # (k \in ToSet(keys))
    BY <2>1, <2>6, <2>7, <2>8
  <2> QED
    BY <2>4, <2>5, <2>8
<1> QED
  BY <1>2, <1>3, <1>4, <1>7, <1>8

\* The records after a row marked some keys.
LEMMA MarkedRecords ==
    ASSUME lineages \in Nat, OwnTyped(own), LiveApart(own), UNCHANGED lineages, NEW keys,
           NEW state \in {"MEASURED", "RELEASED"}, own' = Marked(keys, state)
    PROVE  /\ lineages' \in Nat /\ OwnTyped(own)' /\ LiveApart(own)' /\ DOMAIN own' = DOMAIN own
           /\ \A k \in DOMAIN own : k \in keys => own'[k].state # "LIVE"
           /\ \A k \in DOMAIN own : k \notin keys => own'[k] = own[k]
<1>1. DOMAIN own' = DOMAIN own /\ own' = [k \in DOMAIN own' |-> own'[k]]
  BY DEF Marked
<1>2. \A k \in DOMAIN own : own[k] \in OwnerRecords /\ own[k].lineage <= lineages
  BY DEF OwnTyped
<1>3. ASSUME NEW k \in DOMAIN own
      PROVE  /\ own'[k] \in OwnerRecords /\ own'[k].lineage = own[k].lineage
             /\ k \in keys => own'[k].state = state
             /\ k \notin keys => own'[k] = own[k]
  <2>1. /\ [own[k] EXCEPT !.state = state] \in OwnerRecords
        /\ [own[k] EXCEPT !.state = state].state = state
        /\ [own[k] EXCEPT !.state = state].lineage = own[k].lineage
    <3>1. own[k] \in OwnerRecords /\ state \in {"LIVE", "MEASURED", "MOVED", "RELEASED"}
      BY <1>2
    <3>2. \A r \in OwnerRecords :
             /\ [r EXCEPT !.state = state] \in OwnerRecords
             /\ [r EXCEPT !.state = state].state = state
             /\ [r EXCEPT !.state = state].lineage = r.lineage
      BY <3>1, StateOf
    <3> QED
      BY <3>1, <3>2
  <2>2. own'[k] = IF k \in keys THEN [own[k] EXCEPT !.state = state] ELSE own[k]
    BY DEF Marked
  <2> QED
    BY <2>1, <2>2, <1>2
<1>4. OwnTyped(own)'
  <2>1. \A k \in DOMAIN own' : own'[k] \in OwnerRecords /\ own'[k].lineage <= lineages'
    BY <1>1, <1>2, <1>3
  <2> QED
    BY <2>1, <1>1 DEF OwnTyped
<1>5. \A k \in DOMAIN own : own'[k].state = "LIVE" => own'[k] = own[k]
  BY <1>3
<1>6. LiveApart(own)'
  BY <1>1, <1>5 DEF LiveApart
<1> QED
  BY <1>1, <1>3, <1>4, <1>6

\* The records after a remote gate entangled its operands.
LEMMA EntangledRecords ==
    ASSUME NEW row \in RowMenu, lineages \in Nat, OwnTyped(own), LiveApart(own), UNCHANGED lineages,
           own' = Entangled(row)
    PROVE  /\ lineages' \in Nat /\ OwnTyped(own)' /\ LiveApart(own)' /\ DOMAIN own' = DOMAIN own
           /\ \A k \in DOMAIN own : own'[k].state = own[k].state
<1>1. CASE own' = own
  BY <1>1 DEF OwnTyped, LiveApart
<1>2. CASE own' # own
  <2>1. /\ row.ctrl # <<>> /\ row.a # <<>>
        /\ own' = [k \in DOMAIN own |->
               [own[k] EXCEPT !.partners = @ \union (IF k = row.ctrl[1] THEN {row.a[1]} ELSE {})
                                             \union (IF k = row.a[1] THEN {row.ctrl[1]} ELSE {})]]
    BY <1>2 DEF Entangled
  <2>2. row.ctrl[1] \in Objects /\ row.a[1] \in Objects
    <3>1. /\ row.a \in Seq(ToSet(row.a)) /\ row.ctrl \in Seq(ToSet(row.ctrl))
          /\ ToSet(row.a) \subseteq Objects /\ ToSet(row.ctrl) \subseteq Objects
      BY Cells
    <3>2. row.a[1] \in ToSet(row.a) /\ row.ctrl[1] \in ToSet(row.ctrl)
      BY <3>1, <2>1
    <3> QED
      BY <3>1, <3>2
  <2>3. \A k \in DOMAIN own : own[k] \in OwnerRecords /\ own[k].lineage <= lineages
    BY DEF OwnTyped
  <2>4. ASSUME NEW k \in DOMAIN own
        PROVE  own'[k] \in OwnerRecords /\ own'[k].state = own[k].state /\ own'[k].lineage = own[k].lineage
    <3>1. PICK more \in SUBSET Objects : own'[k] = [own[k] EXCEPT !.partners = @ \union more]
      <4> DEFINE more == (IF k = row.ctrl[1] THEN {row.a[1]} ELSE {})
                         \union (IF k = row.a[1] THEN {row.ctrl[1]} ELSE {})
      <4>1. more \in SUBSET Objects
        BY <2>2
      <4>2. own'[k] = [own[k] EXCEPT !.partners = (@ \union (IF k = row.ctrl[1] THEN {row.a[1]} ELSE {}))
                                             \union (IF k = row.a[1] THEN {row.ctrl[1]} ELSE {})]
        BY <2>1
      <4>3. \A p : (p \union (IF k = row.ctrl[1] THEN {row.a[1]} ELSE {}))
                     \union (IF k = row.a[1] THEN {row.ctrl[1]} ELSE {}) = p \union more
        OBVIOUS
      <4>4. own'[k] = [own[k] EXCEPT !.partners = @ \union more]
        BY <4>2, <4>3
      <4> HIDE DEF more
      <4> QED
        BY <4>1, <4>4
    <3>2. own[k] \in OwnerRecords
      BY <2>3
    <3>3. /\ [own[k] EXCEPT !.partners = @ \union more] \in OwnerRecords
          /\ [own[k] EXCEPT !.partners = @ \union more].state = own[k].state
          /\ [own[k] EXCEPT !.partners = @ \union more].lineage = own[k].lineage
      BY <3>2 DEF OwnerRecords
    <3> QED
      BY <3>1, <3>3
  <2>5. DOMAIN own' = DOMAIN own /\ own' = [k \in DOMAIN own' |-> own'[k]]
    BY <2>1
  <2>6. OwnTyped(own)'
    <3>1. \A k \in DOMAIN own' : own'[k] \in OwnerRecords /\ own'[k].lineage <= lineages'
      BY <2>3, <2>4, <2>5
    <3> QED
      BY <3>1, <2>5 DEF OwnTyped
  <2>7. LiveApart(own)'
    BY <2>4, <2>5 DEF LiveApart
  <2> QED
    BY <2>4, <2>5, <2>6, <2>7
<1> QED
  BY <1>1, <1>2

\* What a row that is not rejected does to the records, family by family.
LEMMA TracksKeep ==
    ASSUME OwnerInv, accepted, NEW row \in RowMenu, ~Rejects(row), Tracks(row)
    PROVE  RecordsKept(row)
<1>1. lineages \in Nat /\ OwnTyped(own) /\ LiveApart(own)
  BY DEF OwnerInv
<1>2. row.op \notin Prepares =>
        /\ \A k \in Touches(row) : Known(k) => own[k].state = "LIVE"
        /\ \A k \in Touches(row) : ~Known(k) => ~LooksQuantum(row, k)
        /\ ~NeedsLink(row)
        /\ row.op = "TELEPORT" => ~Unprepared(row)
  BY DEF Rejects, Misused
<1>3. CASE row.op \in Prepares \union {"ENTANGLE_LINK", "EPR_RESERVE"}
  <2>1. own' = Fresh(row.out, row.node) /\ lineages' = lineages + Len(row.out)
    BY <1>3 DEF Tracks, Prepares, Destructive, Protocols
  <2>2. row.out \in Seq(ToSet(row.out)) /\ IsInjective(row.out)
    BY CellsAreRanges
  <2>3. /\ lineages' \in Nat /\ OwnTyped(own)' /\ LiveApart(own)'
        /\ DOMAIN own' = DOMAIN own \union ToSet(row.out)
        /\ \A k \in DOMAIN own \ ToSet(row.out) : own'[k] = own[k]
    BY <1>1, <2>1, <2>2, FreshRecords
  <2>4. ASSUME NEW k
        PROVE  (Gained(row, k) <=> k \in ToSet(row.out)) /\ ~Lost(row, k)
    BY <1>3, Families
  <2> QED
    BY <2>3, <2>4 DEF RecordsKept
<1>4. CASE row.op \in Destructive
  <2> DEFINE keys == ToSet(IF row.a # <<>> THEN row.a ELSE row.ctrl)
  <2>1. own' = Marked(keys, "MEASURED") /\ UNCHANGED lineages
    BY <1>4 DEF Tracks, Prepares, Destructive, Protocols
  <2>2. ASSUME NEW k
        PROVE  ~Gained(row, k) /\ (Lost(row, k) <=> k \in keys)
    BY <1>4, Families
  <2> HIDE DEF keys
  <2>3. /\ lineages' \in Nat /\ OwnTyped(own)' /\ LiveApart(own)' /\ DOMAIN own' = DOMAIN own
        /\ \A k \in DOMAIN own : k \in keys => own'[k].state # "LIVE"
        /\ \A k \in DOMAIN own : k \notin keys => own'[k] = own[k]
    BY <1>1, <2>1, MarkedRecords
  <2> QED
    BY <2>2, <2>3 DEF RecordsKept
<1>5. CASE row.op = "EPR_RELEASE"
  <2> DEFINE keys == ToSet(row.a)
  <2>1. own' = Marked(keys, "RELEASED") /\ UNCHANGED lineages
    BY <1>5 DEF Tracks, Prepares, Destructive, Protocols
  <2>2. ASSUME NEW k
        PROVE  ~Gained(row, k) /\ (Lost(row, k) <=> k \in keys)
    BY <1>5, Families
  <2> HIDE DEF keys
  <2>3. /\ lineages' \in Nat /\ OwnTyped(own)' /\ LiveApart(own)' /\ DOMAIN own' = DOMAIN own
        /\ \A k \in DOMAIN own : k \in keys => own'[k].state # "LIVE"
        /\ \A k \in DOMAIN own : k \notin keys => own'[k] = own[k]
    BY <1>1, <2>1, MarkedRecords
  <2> QED
    BY <2>2, <2>3 DEF RecordsKept
<1>6. CASE row.op = "TELEPORT"
  <2>1. row.op \notin Prepares /\ row.link # Nowhere
    BY <1>2, <1>6 DEF Prepares, NeedsLink
  <2>2. own' = Teleported(row) /\ UNCHANGED lineages
    BY <1>6, <2>1 DEF Tracks, Prepares, Destructive, Protocols
  <2>3. Underway(row, own', Shorter(row))
    BY <1>1, <1>2, <1>6, <2>1, <2>2, TeleportMoves
  <2>4. OwnTyped(own)' /\ LiveApart(own)' /\ lineages' \in Nat
    BY <1>1, <2>2, <2>3 DEF Underway, OwnTyped, LiveApart
  <2>5. ASSUME NEW k
        PROVE  /\ Gained(row, k) <=> \E i \in 1 .. Shorter(row) : row.out[i] = k
               /\ Lost(row, k) <=> \E i \in 1 .. Shorter(row) :
                       row.a[i] = k /\ \A j \in i .. Shorter(row) : row.out[j] # k
    BY <1>6, Families
  <2>6. DOMAIN own \subseteq DOMAIN own'
    BY <2>3 DEF Underway
  <2>7. \A k \in ToSet(row.out) : Gained(row, k) => k \in DOMAIN own'
    BY <2>3, <2>5 DEF Underway
  <2>8. ASSUME NEW k \in DOMAIN own, Lost(row, k)
        PROVE  own'[k].state # "LIVE"
    BY <2>3, <2>5, <2>8 DEF Underway
  <2>9. ASSUME NEW k \in DOMAIN own, own[k].state # "LIVE", ~Gained(row, k)
        PROVE  own'[k].state # "LIVE"
    BY <2>3, <2>5, <2>9 DEF Underway
  <2> QED
    BY <2>4, <2>6, <2>7, <2>8, <2>9 DEF RecordsKept
<1>7. CASE row.op \notin Prepares \union Destructive
                         \union {"ENTANGLE_LINK", "EPR_RESERVE", "TELEPORT", "EPR_RELEASE"}
  <2>1. ASSUME NEW k
        PROVE  ~Gained(row, k) /\ ~Lost(row, k)
    BY <1>7, Families
  <2>2. CASE row.op \in {"REMOTE_CNOT", "REMOTE_CONTROL"}
    <3>1. own' = Entangled(row) /\ UNCHANGED lineages
      BY <2>2 DEF Tracks, Prepares, Destructive, Protocols
    <3>2. /\ lineages' \in Nat /\ OwnTyped(own)' /\ LiveApart(own)' /\ DOMAIN own' = DOMAIN own
          /\ \A k \in DOMAIN own : own'[k].state = own[k].state
      BY <1>1, <3>1, EntangledRecords
    <3> QED
      BY <2>1, <3>2 DEF RecordsKept
  <2>3. CASE row.op \in Protocols /\ row.op \notin {"REMOTE_CNOT", "REMOTE_CONTROL"}
    <3>1. UNCHANGED <<own, lineages>>
      BY <1>7, <2>3 DEF Tracks, Prepares, Destructive
    <3> QED
      BY <1>1, <2>1, <3>1 DEF RecordsKept, OwnTyped, LiveApart
  <2>4. CASE row.op \notin Protocols
    <3>1. own' = Fresh(NewKeys(row), row.node) /\ lineages' = lineages + Len(NewKeys(row))
      BY <1>7, <2>4 DEF Tracks, Protocols
    <3>2. {k \in Writes(row) : ~Known(k) /\ LooksQuantum(row, k)} = {}
      BY <1>2, <1>7 DEF Touches
    <3>3. NewKeys(row) \in [1 .. 0 -> {}] /\ IsInjective(NewKeys(row))
      <4>1. Cardinality({}) = 0
        BY FS_EmptySet
      <4>2. <<>> \in [1 .. 0 -> {}] /\ IsInjective(<<>>)
        BY DEF IsInjective
      <4>3. SetToSeq({}) \in [1 .. 0 -> {}] /\ IsInjective(SetToSeq({}))
        BY <4>1, <4>2 DEF SetToSeq
      <4> QED
        BY <3>2, <4>3 DEF NewKeys
    <3>4. NewKeys(row) \in Seq(ToSet(NewKeys(row))) /\ ToSet(NewKeys(row)) = {}
      BY <3>3 DEF ToSet
    <3>5. /\ lineages' \in Nat /\ OwnTyped(own)' /\ LiveApart(own)'
          /\ DOMAIN own' = DOMAIN own /\ \A k \in DOMAIN own : own'[k] = own[k]
      <4>1. \A keys : keys \in Seq(ToSet(keys)) /\ IsInjective(keys)
                      /\ own' = Fresh(keys, row.node) /\ lineages' = lineages + Len(keys) =>
              /\ lineages' \in Nat /\ OwnTyped(own)' /\ LiveApart(own)'
              /\ DOMAIN own' = DOMAIN own \union ToSet(keys)
              /\ \A k \in DOMAIN own \ ToSet(keys) : own'[k] = own[k]
        BY <1>1, FreshRecords
      <4> QED
        BY <3>1, <3>3, <3>4, <4>1
    <3> QED
      BY <2>1, <3>5 DEF RecordsKept
  <2> QED
    BY <2>2, <2>3, <2>4
<1> QED
  BY <1>3, <1>4, <1>5, <1>6, <1>7

\* The invariant after one more row whose effect on the records is known.
LEMMA NextRowKeeps ==
    ASSUME OwnerInv, accepted, NEW row \in RowMenu, program' = Append(program, row),
           lineages' \in Nat, OwnTyped(own)', LiveApart(own)', DOMAIN own \subseteq DOMAIN own',
           \A k \in ToSet(row.out) : Gained(row, k) => k \in DOMAIN own',
           \A k \in DOMAIN own :
              Lost(row, k) \/ (own[k].state # "LIVE" /\ ~Gained(row, k)) => own'[k].state # "LIVE",
           \A k \in Touches(row) : row.op \notin Prepares \union Inert \union Declaring /\ k \in DOMAIN own
                                       => own[k].state = "LIVE"
    PROVE  GainsKnown' /\ LossesKnown' /\ UsesAreOwned'
<1> DEFINE n == Len(program)
<1>1. /\ program \in Seq(RowMenu) /\ n \in Nat /\ DOMAIN program = 1 .. n
      /\ GainsKnown /\ LossesKnown /\ UsesAreOwned
  BY DEF OwnerInv
<1>2. /\ Len(program') = n + 1 /\ DOMAIN program' = 1 .. n + 1 /\ program'[n + 1] = row
      /\ \A i \in 1 .. n : program'[i] = program[i]
  BY <1>1
<1> HIDE DEF n
<1>3. GainsKnown'
  <2>1. SUFFICES ASSUME NEW h \in 1 .. n + 1, NEW k \in ToSet(program'[h].out), Gained(program'[h], k)
                 PROVE  k \in DOMAIN own'
    BY <1>2 DEF GainsKnown, Known
  <2>2. CASE h = n + 1
    BY <2>1, <2>2, <1>2
  <2>3. CASE h # n + 1
    <3>1. h \in 1 .. n
      BY <2>3, <1>1
    <3>2. k \in DOMAIN own
      BY <3>1, <2>1, <1>1, <1>2 DEF GainsKnown, Known
    <3> QED
      BY <3>2
  <2> QED
    BY <2>2, <2>3
<1>4. ASSUME NEW h \in 1 .. n, NEW k, Gained(program[h], k)
      PROVE  k \in DOMAIN own
  <2>1. program[h] \in RowMenu
    BY <1>1
  <2>2. k \in ToSet(program[h].out)
    <3>1. CASE program[h].op \in Prepares \union {"ENTANGLE_LINK", "EPR_RESERVE"}
      BY <3>1, <1>4, Families
    <3>2. CASE program[h].op \notin Prepares \union {"ENTANGLE_LINK", "EPR_RESERVE"}
      <4>1. PICK i \in 1 .. Shorter(program[h]) : program[h].out[i] = k
        BY <3>2, <1>4 DEF Gained
      <4>2. /\ program[h].out \in Seq(ToSet(program[h].out)) /\ Shorter(program[h]) \in Nat
            /\ Shorter(program[h]) <= Len(program[h].out) /\ Len(program[h].out) \in Nat
        BY <2>1, Cells
      <4> QED
        BY <4>1, <4>2
    <3> QED
      BY <3>1, <3>2
  <2> QED
    BY <2>2, <1>1, <1>4 DEF GainsKnown, Known
<1>5. LossesKnown'
  <2>1. SUFFICES ASSUME NEW j \in 1 .. n + 1, NEW k \in DOMAIN own', Lost(program'[j], k),
                        NEW h \in 1 .. j - 1, Gained(program'[h], k),
                        \A i \in j + 1 .. n + 1 : ~Gained(program'[i], k)
                 PROVE  own'[k].state # "LIVE"
    BY <1>2 DEF LossesKnown
  <2>2. h \in 1 .. n /\ program'[h] = program[h]
    BY <1>1, <1>2
  <2>3. k \in DOMAIN own
    BY <2>1, <2>2, <1>4
  <2>4. CASE j = n + 1
    BY <2>1, <2>3, <2>4, <1>2
  <2>5. CASE j # n + 1
    <3>1. j \in 1 .. n /\ n + 1 \in j + 1 .. n + 1 /\ \A i \in j + 1 .. n : i \in j + 1 .. n + 1 /\ i \in 1 .. n
      BY <2>5, <1>1
    <3>2. Lost(program[j], k) /\ Gained(program[h], k) /\ ~Gained(row, k)
      BY <3>1, <2>1, <2>2, <1>2
    <3>3. \A i \in j + 1 .. n : ~Gained(program[i], k)
      BY <3>1, <2>1, <1>2
    <3>4. own[k].state # "LIVE"
      BY <3>1, <3>2, <3>3, <2>3, <1>1 DEF LossesKnown, n
    <3> QED
      BY <3>2, <3>4, <2>3
  <2> QED
    BY <2>4, <2>5
<1>6. UsesAreOwned'
  <2>1. SUFFICES ASSUME NEW i \in 1 .. n + 1, NEW k \in Touches(program'[i]),
                        program'[i].op \notin Prepares \union Inert \union Declaring,
                        NEW j \in 1 .. i - 1, Lost(program'[j], k),
                        NEW g \in 1 .. j - 1, Gained(program'[g], k)
                 PROVE  \E h \in j + 1 .. i - 1 : Gained(program'[h], k)
    BY <1>2 DEF UsesAreOwned
  <2>2. /\ j \in 1 .. n /\ g \in 1 .. n /\ program'[j] = program[j] /\ program'[g] = program[g]
        /\ \A h \in j + 1 .. i - 1 : h \in 1 .. n /\ program'[h] = program[h]
    BY <1>1, <1>2
  <2>3. CASE i = n + 1
    <3>1. SUFFICES ASSUME \A h \in j + 1 .. n : ~Gained(program[h], k)
                   PROVE  FALSE
      <4>1. i - 1 = n
        BY <2>3, <1>1
      <4> QED
        BY <4>1, <2>2
    <3>2. k \in DOMAIN own
      BY <2>1, <2>2, <1>4
    <3>3. own[k].state # "LIVE"
      BY <2>1, <2>2, <3>1, <3>2, <1>1 DEF LossesKnown, n
    <3> QED
      BY <2>1, <2>3, <3>2, <3>3, <1>2
  <2>4. CASE i # n + 1
    <3>1. i \in 1 .. n /\ program'[i] = program[i]
      BY <2>4, <1>1, <1>2
    <3>2. \E h \in j + 1 .. i - 1 : Gained(program[h], k)
      BY <2>1, <2>2, <3>1, <1>1 DEF UsesAreOwned
    <3> QED
      BY <3>2, <2>2
  <2> QED
    BY <2>3, <2>4
<1> QED
  BY <1>3, <1>5, <1>6

\* The verifier's invariant is inductive, for any menu of rows, names and length.
THEOREM VerifierIsSound == VerifierSpec => []OwnerInv
<1>1. VerifierInit => OwnerInv
  <2> SUFFICES ASSUME VerifierInit PROVE OwnerInv
    OBVIOUS
  <2>1. program = <<>> /\ own = << >> /\ lineages = 0 /\ accepted = TRUE
    BY DEF VerifierInit
  <2>2. DOMAIN own = {} /\ DOMAIN program = {} /\ own = [k \in {} |-> own[k]]
    BY <2>1
  <2>3. OwnTyped(own) /\ LiveApart(own)
    BY <2>2 DEF OwnTyped, LiveApart
  <2>4. GainsKnown /\ LossesKnown /\ UsesAreOwned
    BY <2>2 DEF GainsKnown, LossesKnown, UsesAreOwned
  <2> QED
    BY <2>1, <2>3, <2>4 DEF OwnerInv
<1>2. OwnerInv /\ [VerifierNext]_verifierVars => OwnerInv'
  <2> SUFFICES ASSUME OwnerInv, [VerifierNext]_verifierVars PROVE OwnerInv'
    OBVIOUS
  <2>1. CASE UNCHANGED verifierVars
    BY <2>1 DEF verifierVars, OwnerInv, OwnTyped, LiveApart, GainsKnown, LossesKnown, UsesAreOwned, Known
  <2>2. ASSUME NEW row \in RowMenu, Verify(row)
        PROVE  OwnerInv'
    <3>1. program' = Append(program, row) /\ program' \in Seq(RowMenu) /\ accepted' \in BOOLEAN
      <4>1. program' = Append(program, row) /\ program \in Seq(RowMenu)
        BY <2>2 DEF Verify, OwnerInv
      <4>2. \/ accepted' = (accepted /\ row.schema = "ok")
            \/ accepted' = (accepted /\ row.schema = "ok" /\ ~Rejects(row))
        BY <2>2 DEF Verify
      <4>3. accepted' \in BOOLEAN
        BY <4>2
      <4> QED
        BY <4>1, <4>3
    <3>2. SUFFICES ASSUME accepted'
                   PROVE  /\ lineages' \in Nat /\ OwnTyped(own)' /\ LiveApart(own)'
                          /\ GainsKnown' /\ LossesKnown' /\ UsesAreOwned'
      BY <3>1 DEF OwnerInv
    <3>3. accepted /\ row.schema = "ok"
      BY <2>2, <3>2 DEF Verify
    <3>4. lineages \in Nat /\ OwnTyped(own) /\ LiveApart(own)
      BY <3>3 DEF OwnerInv
    <3>5. CASE row.op \in Inert \union Declaring
      <4>1. UNCHANGED <<own, lineages>>
        BY <2>2, <3>3, <3>5 DEF Verify
      <4>2. ASSUME NEW k
            PROVE  ~Gained(row, k) /\ ~Lost(row, k)
        BY <3>5, Families DEF Inert, Declaring, Prepares, Destructive
      <4>3. lineages' \in Nat /\ OwnTyped(own)' /\ LiveApart(own)'
        BY <3>4, <4>1 DEF OwnTyped, LiveApart
      <4>4. GainsKnown' /\ LossesKnown' /\ UsesAreOwned'
        BY <3>1, <3>3, <3>5, <4>1, <4>2, <4>3, NextRowKeeps
      <4> QED
        BY <4>3, <4>4
    <3>6. CASE row.op \notin Inert \union Declaring
      <4>1. Tracks(row) /\ ~Rejects(row)
        BY <2>2, <3>2, <3>3, <3>6 DEF Verify
      <4>2. RecordsKept(row)
        BY <3>3, <4>1, TracksKeep
      <4>3. \A k \in Touches(row) : row.op \notin Prepares \union Inert \union Declaring /\ k \in DOMAIN own
                                        => own[k].state = "LIVE"
        BY <4>1 DEF Rejects, Misused, Known
      <4>4. GainsKnown' /\ LossesKnown' /\ UsesAreOwned'
        BY <3>1, <3>3, <4>2, <4>3, NextRowKeeps DEF RecordsKept
      <4> QED
        BY <4>2, <4>4 DEF RecordsKept
    <3> QED
      BY <3>5, <3>6
  <2> QED
    BY <2>1, <2>2 DEF VerifierNext
<1> QED
  BY <1>1, <1>2, PTL DEF VerifierSpec

\* A program that the verifier accepts uses a quantum object only while it has it, and
\* no two live objects are one (lang.py, verify).
THEOREM AcceptedProgramsOwn == VerifierSpec => []AcceptedIsOwned
<1>1. OwnerInv => AcceptedIsOwned
  BY DEF OwnerInv, AcceptedIsOwned
<1> QED
  BY <1>1, VerifierIsSound, PTL

-----------------------------------------------------------------------------
(* What a planned run does with a circuit.                                   *)

Operations == UNION {Operation(row) : row \in CircuitRows}
Reports == UNION {{Measured(op)[i] : i \in DOMAIN Measured(op)} : op \in Operations}

Kinds == {"gate", "measure", "protocol", "channel", "reset", "prepare", "control"}

\* The measurements of the first operations have these results to offer.
MeasuredBefore(n) == {circuit.ops[j].out : j \in {k \in 1 .. n - 1 : circuit.ops[k].kind = "measure"}}

\* An engine refuses operation i of the circuit, whenever it comes to it.
RefusedAt(engine, i) ==
    LET op == circuit.ops[i]
    IN  IF engine = "stabilizer" THEN StabilizerRefuses(op) \/ OddPhase(circuit, i)
        ELSE \/ op.kind = "measure" /\ op.basis \notin {"X", "Y", "Z"}
             \/ op.kind = "channel" /\ engine # "density"
             \/ op.kind = "prepare" /\ op.op \notin PrepareSequences
             \/ op.kind = "control" /\ op.condition # <<>> /\ op.condition \notin MeasuredBefore(i)
             \/ op.kind = "protocol"

Engines == {"stabilizer", "density", "statevector"}
Labels == {"-", "CLASSICAL_DISTRIBUTED_STATEVECTOR_SIMULATION", "CLASSICAL_LOCAL_STATEVECTOR_SIMULATION",
           "CLASSICAL_LOCAL_DENSITY_MATRIX_SIMULATION", "CLASSICAL_STABILIZER_TABLEAU_SIMULATION"}
PlannedEngine == EngineOf(planned[1].decision.backend)

CircuitTyped ==
    /\ rowsRead \in Seq(CircuitRows) /\ circuit.ops \in Seq(Operations)
    /\ execution \in [status : {"EXTRACTING", "UNRESOLVED", "CONSULTED", "RUNNING", "BLOCKED", "ESCAPED",
                                "EXECUTED", "EXECUTED_WITH_RECORDED_SUBSTITUTION"},
                      engine : Engines \cup {"-"}, sharded : BOOLEAN, next : Nat \ {0},
                      measured : Seq(Reports), substituted : BOOLEAN, label : Labels]

PlanMade == planned # <<>> => \E s : planned = <<[summary |-> s, decision |-> PlanFor(s)]>>

\* Every engine has had its way with the operations before the next one.
RunInv ==
    LET run == execution IN
    /\ run.status \in {"EXTRACTING", "UNRESOLVED", "CONSULTED"} =>
           run.next = 1 /\ run.measured = <<>> /\ ~run.substituted
    /\ run.status \notin {"EXTRACTING", "UNRESOLVED", "CONSULTED"} =>
           /\ \E shots \in ShotCounts :
                  LET s == Summary(circuit, shots, 1, 0)
                  IN  planned = <<[summary |-> s, decision |-> PlanFor(s)]>>
           /\ run.engine = IF run.substituted THEN "statevector" ELSE PlannedEngine
           /\ run.status # "BLOCKED" => circuit.qubits # <<>>
           /\ run.next \in 1 .. Len(circuit.ops) + 1
           /\ \A i \in 1 .. run.next - 1 : ~RefusedAt(run.engine, i)
           /\ Outs(run.measured) = MeasuredBefore(run.next)
           /\ run.substituted => \E i \in DOMAIN circuit.ops : RefusedAt(PlannedEngine, i)
    /\ run.status = "BLOCKED" => \/ circuit.qubits = <<>>
                                 \/ run.substituted /\ \E i \in DOMAIN circuit.ops : RefusedAt("statevector", i)
    /\ Executed => run.next = Len(circuit.ops) + 1

CircuitInv == CircuitTyped /\ PlanMade /\ NothingDropped /\ RunInv

\* The distinct elements of a sequence are one.
LEMMA DistinctIsSeq ==
    ASSUME NEW R, NEW s \in Seq(R)
    PROVE  \E n \in Nat : Distinct(s) = [i \in 1 .. n |-> Distinct(s)[i]]
<1> DEFINE firsts == {i \in DOMAIN s : \A j \in 1 .. i - 1 : s[j] # s[i]}
<1>1. DOMAIN s = 1 .. Len(s) /\ Len(s) \in Nat
  OBVIOUS
<1>2. IsFiniteSet(1 .. Len(s))
  BY <1>1, FS_Interval
<1>3. IsFiniteSet(firsts) /\ Cardinality(firsts) \in Nat
  BY <1>1, <1>2, FS_Subset, FS_CardinalityType
<1>4. Distinct(s) = [n \in 1 .. Cardinality(firsts) |-> Distinct(s)[n]]
  BY DEF Distinct
<1> QED
  BY <1>3, <1>4

\* An operation's targets, if it measures some, are a sequence that is not empty.
LEMMA TargetsOfRow ==
    ASSUME NEW row \in CircuitRows, RowTargets(row) # <<>>
    PROVE  \E n \in Nat \ {0} : RowTargets(row) = [i \in 1 .. n |-> RowTargets(row)[i]]
<1>1. row.ctrl \in Seq(STRING) /\ row.a \in Seq(STRING) /\ row.b \in Seq(STRING)
  BY CircuitAssumption
<1>2. row.ctrl \o row.a \o row.b \in Seq(STRING)
  BY <1>1
<1>3. PICK n \in Nat : RowTargets(row) = [i \in 1 .. n |-> RowTargets(row)[i]]
  BY <1>2, DistinctIsSeq DEF RowTargets
<1>4. n # 0
  <2>1. SUFFICES ASSUME n = 0
                 PROVE  RowTargets(row) = <<>>
    BY <1>3
  <2>2. 1 .. n = {}
    BY <2>1
  <2>3. RowTargets(row) = [i \in {} |-> RowTargets(row)[i]]
    BY <1>3, <2>2
  <2>4. [i \in {} |-> RowTargets(row)[i]] = <<>>
    OBVIOUS
  <2> QED
    BY <2>3, <2>4
<1> QED
  BY <1>3, <1>4

\* What is extracted for a row is right for its kind.
LEMMA OperationFacts ==
    ASSUME NEW op \in Operations
    PROVE  /\ op.kind \in Kinds
           /\ op.condition # <<>> => op.kind = "control"
           /\ op.op \in {"PREP_BASIS", "PREP_STATE"} => op.kind = "prepare"
           /\ op.kind = "prepare" => op.op \in Prepares \ {"RESET"}
           /\ op.kind = "measure" => \E n \in Nat \ {0} : op.targets = [i \in 1 .. n |-> op.targets[i]]
<1>1. PICK row \in CircuitRows : op \in Operation(row)
  BY DEF Operations
<1> DEFINE fields(kind, targets, basis, results) ==
               [op |-> row.op, kind |-> kind, targets |-> targets, basis |-> basis, bits |-> results,
                out |-> row.out, angle |-> row.angle, chances |-> row.chances,
                condition |-> IF kind = "control" THEN IF row.ctrl # <<>> THEN row.ctrl ELSE row.a
                                                  ELSE <<>>]
<1>2. CASE row.op \in GatesWithArity
  <2>1. \E t, b, c : op = fields("gate", t, b, c)
    BY <1>1, <1>2 DEF Operation
  <2> QED
    BY <2>1, <1>2 DEF Kinds, GatesWithArity, Gates1Q, Gates2Q, Gates3Q
<1>3. CASE row.op \notin GatesWithArity /\ row.op \in Destructive \union Readouts
  <2>1. \E b, c : \/ row.op \in Destructive /\ op = fields("measure", RowTargets(row), b, c)
                  \/ op = fields("protocol", RowTargets(row), b, c)
    BY <1>1, <1>3 DEF Operation
  <2>2. RowTargets(row) # <<>>
    BY <1>1, <1>3 DEF Operation
  <2>3. row.op \notin {"PREP_BASIS", "PREP_STATE"}
    BY <1>3 DEF Destructive, Readouts
  <2>4. PICK b, c : op = fields("measure", RowTargets(row), b, c) \/ op = fields("protocol", RowTargets(row), b, c)
    BY <2>1
  <2>5. op.op = row.op /\ op.targets = RowTargets(row) /\ op.kind \in {"measure", "protocol"} /\ op.condition = <<>>
    BY <2>4
  <2> QED
    BY <2>2, <2>3, <2>5, TargetsOfRow DEF Kinds
<1>4. CASE row.op \notin GatesWithArity \union Destructive \union Readouts /\ row.op \in Noise
  <2>1. \E t, b, c : op = fields("channel", t, b, c)
    BY <1>1, <1>4 DEF Operation
  <2> QED
    BY <2>1, <1>4 DEF Kinds, Noise
<1>5. CASE row.op \notin GatesWithArity \union Destructive \union Readouts \union Noise /\ row.op \in Prepares
  <2>1. \E t, b, c : op = fields(IF row.op = "RESET" THEN "reset" ELSE "prepare", t, b, c)
    BY <1>1, <1>5 DEF Operation
  <2> QED
    BY <2>1, <1>5 DEF Kinds
<1>6. CASE row.op \notin GatesWithArity \union Destructive \union Readouts \union Noise \union Prepares
  <2>1. \E t, b, c : op = fields("control", t, b, c) \/ op = fields("protocol", t, b, c)
    BY <1>1, <1>6 DEF Operation
  <2> QED
    BY <2>1, <1>6 DEF Kinds, Prepares
<1> QED
  BY <1>2, <1>3, <1>4, <1>5, <1>6

\* A plan accounts for every backend, and fits.
LEMMA EveryPlanFits ==
    ASSUME NEW s
    PROVE  LET d == PlanFor(s)
           IN  /\ d.rejected = Backends \ {d.backend} /\ d.backend \in Backends
               /\ s.channels => d.backend \in Density \union {"trajectory_farm"}
               /\ d.backend \in {"local_statevector", "local_density", "tensor_network"} => d.memory <= MemoryBudget
               /\ d.backend = "local_statevector" => s.qubits <= LocalQubits
               /\ d.backend = "shot_farm" => ~s.feedback
<1> USE DEF Backends, Pure, Density, Farms
<1>1. CASE s.clifford /\ ~s.channels
  BY <1>1 DEF PlanFor, Decision
<1>2. CASE s.channels
  BY <1>2 DEF PlanFor, NoisyPlan, Decision
<1>3. CASE ~s.channels /\ ~s.clifford /\ s.circuits >= CircuitFarmMin
  BY <1>3 DEF PlanFor, NoiselessPlan, Decision
<1>4. CASE ~s.channels /\ ~s.clifford /\ ~(s.circuits >= CircuitFarmMin) /\ s.shots >= ShotFarmMin /\ ~s.feedback
  BY <1>4 DEF PlanFor, NoiselessPlan, Decision
<1>5. CASE ~s.channels /\ ~s.clifford /\ ~(s.circuits >= CircuitFarmMin) /\ ~(s.shots >= ShotFarmMin /\ ~s.feedback)
  <2>1. PlanFor(s) = DensePlan(s, {"stabilizer", "trajectory_farm"} \union Density \union {"circuit_farm", "shot_farm"})
    BY <1>5 DEF PlanFor, NoiselessPlan
  <2> QED
    BY <1>5, <2>1 DEF DensePlan, Decision
<1> QED
  BY <1>1, <1>2, <1>3, <1>4, <1>5

\* What an engine refuses depends on the operations before.
LEMMA RefusalIsSettled ==
    ASSUME CircuitTyped, execution.next \in DOMAIN circuit.ops, NEW engine,
           Outs(execution.measured) = MeasuredBefore(execution.next)
    PROVE  Refuses(engine, Current) <=> RefusedAt(engine, execution.next)
<1>1. Current \in Operations
  BY DEF Current, CircuitTyped
<1>2. Current.kind \in Kinds
  BY <1>1, OperationFacts
<1>3. CASE engine = "stabilizer"
  BY <1>3 DEF Refuses, RefusedAt, Current
<1>4. CASE engine # "stabilizer"
  BY <1>2, <1>4 DEF Refuses, RefusedAt, Current, DispatchRefuses, Bound, Kinds
<1> QED
  BY <1>3, <1>4

\* What no engine refuses can be simulated.
LEMMA AcceptedIsSimulable ==
    ASSUME CircuitTyped, circuit.qubits # <<>>, NEW engine \in Engines,
           \A i \in DOMAIN circuit.ops : ~RefusedAt(engine, i)
    PROVE  Simulable
<1> SUFFICES ASSUME NEW i \in DOMAIN circuit.ops
             PROVE  LET op == circuit.ops[i]
                    IN  /\ op.kind # "protocol"
                        /\ op.kind = "measure" => op.basis \in {"X", "Y", "Z"}
                        /\ op.op \notin {"PREP_BASIS", "PREP_STATE"}
                        /\ op.condition # <<>> => op.condition \in MeasuredBefore(i)
  BY DEF Simulable, MeasuredBefore
<1> DEFINE op == circuit.ops[i]
<1>1. op \in Operations /\ ~RefusedAt(engine, i)
  BY DEF CircuitTyped
<1>2. /\ op.kind \in Kinds /\ (op.condition # <<>> => op.kind = "control")
      /\ op.op \in {"PREP_BASIS", "PREP_STATE"} => op.kind = "prepare"
  BY <1>1, OperationFacts
<1>3. CASE engine = "stabilizer"
  <2>1. ~StabilizerRefuses(op)
    BY <1>1, <1>3 DEF RefusedAt
  <2>2. /\ op.kind \in {"gate", "measure", "prepare", "reset"}
        /\ op.kind = "measure" => op.basis = "Z"
        /\ op.kind = "prepare" => op.op \in PrepareSequences
    BY <1>2, <2>1 DEF StabilizerRefuses, Kinds
  <2> QED
    BY <1>2, <2>2 DEF PrepareSequences
<1>4. CASE engine # "stabilizer"
  BY <1>1, <1>2, <1>4 DEF RefusedAt, PrepareSequences
<1> QED
  BY <1>3, <1>4

\* What an engine of amplitudes refuses cannot be simulated, but for a channel that needs
\* the density matrix.
LEMMA RefusedIsNotSimulable ==
    ASSUME CircuitTyped, NEW engine \in {"density", "statevector"}, NEW i \in DOMAIN circuit.ops,
           RefusedAt(engine, i), circuit.ops[i].kind = "channel" => engine = "density"
    PROVE  ~Simulable
<1> DEFINE op == circuit.ops[i]
<1>1. op \in Operations
  BY DEF CircuitTyped
<1>2. op.kind = "prepare" => op.op \in Prepares \ {"RESET"}
  BY <1>1, OperationFacts
<1>3. \/ op.kind = "measure" /\ op.basis \notin {"X", "Y", "Z"}
      \/ op.kind = "prepare" /\ op.op \notin PrepareSequences
      \/ op.condition # <<>> /\ op.condition \notin MeasuredBefore(i)
      \/ op.kind = "protocol"
  BY DEF RefusedAt
<1>4. op.kind = "prepare" /\ op.op \notin PrepareSequences => op.op \in {"PREP_BASIS", "PREP_STATE"}
  BY <1>2 DEF Prepares, PrepareSequences
<1> QED
  BY <1>3, <1>4 DEF Simulable, MeasuredBefore

\* The planned engine of a circuit with a channel is the density matrix's.
LEMMA PlannedForChannels ==
    ASSUME NEW shots, planned = <<[summary |-> Summary(circuit, shots, 1, 0),
                                   decision |-> PlanFor(Summary(circuit, shots, 1, 0))]>>
    PROVE  /\ PlannedEngine \in Engines /\ planned # <<>>
           /\ PlannedEngine = "stabilizer" <=> planned[1].decision.backend = "stabilizer"
           /\ OfKind(circuit.ops, "channel") # {} => PlannedEngine = "density"
<1> DEFINE s == Summary(circuit, shots, 1, 0)
<1>1. planned[1].decision = PlanFor(s) /\ planned # <<>>
  OBVIOUS
<1>2. s.channels <=> OfKind(circuit.ops, "channel") # {}
  BY DEF Summary
<1>3. /\ PlanFor(s).backend \in Backends
      /\ s.channels => PlanFor(s).backend \in Density \union {"trajectory_farm"}
  BY EveryPlanFits
<1> QED
  BY <1>1, <1>2, <1>3 DEF PlannedEngine, EngineOf, Engines, Backends, Pure, Density, Farms

\* The invariant has what is wanted of outcomes.
LEMMA OutcomeFollows ==
    ASSUME CircuitInv
    PROVE  PlanFits /\ OutcomeIsRight
<1>1. PlanFits
  <2> SUFFICES ASSUME planned # <<>>
               PROVE  LET d == planned[1].decision
                          s == planned[1].summary
                      IN  /\ d.rejected = Backends \ {d.backend}
                          /\ s.channels => d.backend \in Density \union {"trajectory_farm"}
                          /\ d.backend \in {"local_statevector", "local_density", "tensor_network"} =>
                                d.memory <= MemoryBudget
                          /\ d.backend = "local_statevector" => s.qubits <= LocalQubits
                          /\ d.backend = "shot_farm" => ~s.feedback
    BY DEF PlanFits
  <2>1. PICK s : planned = <<[summary |-> s, decision |-> PlanFor(s)]>>
    BY DEF CircuitInv, PlanMade
  <2>2. planned[1].decision = PlanFor(s) /\ planned[1].summary = s
    BY <2>1
  <2> QED
    BY <2>2, EveryPlanFits
<1>2. CASE Executed \/ execution.status = "BLOCKED"
  <2>1. execution.status \notin {"EXTRACTING", "UNRESOLVED", "CONSULTED"}
    BY <1>2 DEF Executed
  <2>2. PICK shots \in ShotCounts : planned = <<[summary |-> Summary(circuit, shots, 1, 0),
                                                 decision |-> PlanFor(Summary(circuit, shots, 1, 0))]>>
    BY <2>1 DEF CircuitInv, RunInv
  <2>3. /\ PlannedEngine \in Engines
        /\ PlannedEngine = "stabilizer" <=> planned[1].decision.backend = "stabilizer"
        /\ OfKind(circuit.ops, "channel") # {} => PlannedEngine = "density"
    BY <2>2, PlannedForChannels
  <2>4. /\ execution.engine = IF execution.substituted THEN "statevector" ELSE PlannedEngine
        /\ execution.substituted => \E i \in DOMAIN circuit.ops : RefusedAt(PlannedEngine, i)
    BY <2>1 DEF CircuitInv, RunInv
  <2>5. CircuitTyped /\ DOMAIN circuit.ops = 1 .. Len(circuit.ops) /\ Len(circuit.ops) \in Nat
    BY DEF CircuitInv, CircuitTyped
  <2>6. ASSUME Executed
        PROVE  /\ Simulable
               /\ OfKind(circuit.ops, "channel") # {} => execution.engine = "density"
               /\ execution.substituted <=>
                     /\ planned[1].decision.backend = "stabilizer"
                     /\ \E i \in DOMAIN circuit.ops : StabilizerRefuses(circuit.ops[i]) \/ OddPhase(circuit, i)
    <3>1. execution.engine \in Engines
      BY <2>3, <2>4 DEF Engines
    <3>2. execution.next = Len(circuit.ops) + 1 /\ circuit.qubits # <<>>
      BY <2>1, <2>6 DEF CircuitInv, RunInv, Executed
    <3>3. \A i \in DOMAIN circuit.ops : ~RefusedAt(execution.engine, i)
      BY <2>1, <2>5, <3>2 DEF CircuitInv, RunInv
    <3>4. Simulable
      BY <2>5, <3>1, <3>2, <3>3, AcceptedIsSimulable
    <3>5. ASSUME NEW i \in DOMAIN circuit.ops, circuit.ops[i].kind = "channel"
          PROVE  execution.engine = "density"
      <4>1. ~RefusedAt(execution.engine, i)
        BY <3>3
      <4> QED
        BY <3>1, <3>5, <4>1 DEF RefusedAt, StabilizerRefuses, Engines
    <3>6. OfKind(circuit.ops, "channel") # {} => execution.engine = "density"
      BY <3>5 DEF OfKind
    <3>7. ASSUME execution.substituted
          PROVE  /\ PlannedEngine = "stabilizer"
                 /\ \E i \in DOMAIN circuit.ops : StabilizerRefuses(circuit.ops[i]) \/ OddPhase(circuit, i)
      <4>1. PICK i \in DOMAIN circuit.ops : RefusedAt(PlannedEngine, i)
        BY <2>4, <3>7
      <4>2. ~RefusedAt("statevector", i)
        BY <2>4, <3>3, <3>7
      <4>3. PlannedEngine = "stabilizer"
        BY <4>1, <4>2, <2>3 DEF RefusedAt, Engines
      <4> QED
        BY <4>1, <4>3 DEF RefusedAt
    <3>8. ASSUME ~execution.substituted, PlannedEngine = "stabilizer", NEW i \in DOMAIN circuit.ops
          PROVE  ~(StabilizerRefuses(circuit.ops[i]) \/ OddPhase(circuit, i))
      BY <2>4, <3>3, <3>8 DEF RefusedAt
    <3> QED
      BY <3>4, <3>6, <3>7, <3>8, <2>3
  <2>7. ASSUME execution.status = "BLOCKED"
        PROVE  ~Simulable
    <3>1. CASE circuit.qubits = <<>>
      BY <3>1 DEF Simulable
    <3>2. CASE circuit.qubits # <<>>
      <4>1. execution.substituted /\ \E i \in DOMAIN circuit.ops : RefusedAt("statevector", i)
        BY <2>7, <3>2 DEF CircuitInv, RunInv
      <4>2. PICK i \in DOMAIN circuit.ops : RefusedAt("statevector", i)
        BY <4>1
      <4>3. PICK j \in DOMAIN circuit.ops : RefusedAt(PlannedEngine, j)
        BY <4>1, <2>4
      <4>4. CASE OfKind(circuit.ops, "channel") # {}
        BY <2>3, <2>5, <4>3, <4>4, RefusedIsNotSimulable
      <4>5. CASE OfKind(circuit.ops, "channel") = {}
        <5>1. circuit.ops[i].kind # "channel"
          BY <4>5 DEF OfKind
        <5> QED
          BY <2>5, <4>2, <5>1, RefusedIsNotSimulable
      <4> QED
        BY <4>4, <4>5
    <3> QED
      BY <3>1, <3>2
  <2> QED
    BY <1>1, <2>6, <2>7 DEF OutcomeIsRight
<1>3. CASE ~(Executed \/ execution.status = "BLOCKED")
  BY <1>1, <1>3 DEF OutcomeIsRight
<1> QED
  BY <1>1, <1>2, <1>3

\* A row more, and at most one operation.
LEMMA ReadKeeps ==
    ASSUME CircuitInv, NEW row \in CircuitRows, ReadRow(row)
    PROVE  CircuitInv'
<1> DEFINE run(seq) == {i \in DOMAIN seq : seq[i].face \in ExecutableFaces}
           n == Len(rowsRead)
<1>1. /\ rowsRead \in Seq(CircuitRows) /\ n \in Nat /\ DOMAIN rowsRead = 1 .. n
      /\ rowsRead' = Append(rowsRead, row) /\ rowsRead' \in Seq(CircuitRows) /\ DOMAIN rowsRead' = 1 .. n + 1
      /\ rowsRead'[n + 1] = row /\ \A i \in 1 .. n : rowsRead'[i] = rowsRead[i]
  BY DEF CircuitInv, CircuitTyped, ReadRow
<1>2. /\ execution.status = "EXTRACTING" /\ planned' = planned
      /\ Len(circuit.ops) = Cardinality(run(rowsRead)) /\ circuit.ops \in Seq(Operations)
  BY DEF CircuitInv, CircuitTyped, NothingDropped, ReadRow
<1>3. IsFiniteSet(run(rowsRead)) /\ n + 1 \notin run(rowsRead)
  <2>1. n \in Nat /\ n \in Int /\ 1 \in Int
    BY <1>1
  <2>2. IsFiniteSet(1 .. n)
    <3> HIDE DEF n
    <3> QED
      BY <2>1, FS_Interval
  <2> QED
    BY <2>2, <1>1, FS_Subset
<1>4. execution' = execution \/ execution' = [execution EXCEPT !.status = "UNRESOLVED"]
  BY DEF ReadRow
<1>5. circuit'.ops \in Seq(Operations) /\ NothingDropped'
  <2>1. CASE row.face \notin ExecutableFaces
    <3>1. run(rowsRead') = run(rowsRead)
      BY <1>1, <2>1
    <3>2. circuit' = circuit
      BY <2>1 DEF ReadRow
    <3> QED
      BY <1>2, <3>1, <3>2 DEF NothingDropped
  <2>2. CASE row.face \in ExecutableFaces /\ Operation(row) = {}
    <3>1. circuit' = circuit /\ execution'.status = "UNRESOLVED"
      BY <2>2 DEF ReadRow, CircuitInv, CircuitTyped
    <3> QED
      BY <1>2, <3>1 DEF NothingDropped
  <2>3. CASE row.face \in ExecutableFaces /\ Operation(row) # {}
    <3>1. PICK op \in Operation(row) :
              circuit' = [qubits |-> Noted(circuit.qubits, op.targets),
                          bits |-> Noted(circuit.bits, op.bits), ops |-> Append(circuit.ops, op)]
      BY <2>3 DEF ReadRow
    <3>2. circuit'.ops = Append(circuit.ops, op) /\ op \in Operations
      BY <3>1 DEF Operations
    <3>3. circuit'.ops \in Seq(Operations) /\ Len(circuit'.ops) = Len(circuit.ops) + 1
      BY <1>2, <3>2
    <3>4. run(rowsRead') = run(rowsRead) \cup {n + 1}
      BY <1>1, <2>3
    <3>5. Cardinality(run(rowsRead')) = Cardinality(run(rowsRead)) + 1
      BY <1>3, <3>4, FS_AddElement
    <3> QED
      BY <1>2, <3>3, <3>5 DEF NothingDropped
  <2> QED
    BY <2>1, <2>2, <2>3
<1>6. CircuitTyped'
  BY <1>1, <1>4, <1>5 DEF CircuitInv, CircuitTyped
<1>7. PlanMade'
  BY <1>2 DEF CircuitInv, PlanMade
<1>8. RunInv'
  BY <1>2, <1>4 DEF CircuitInv, CircuitTyped, RunInv, Executed
<1> QED
  BY <1>5, <1>6, <1>7, <1>8 DEF CircuitInv

\* A step of the run keeps the program, its circuit and its plan.
LEMMA SettledStays ==
    ASSUME UNCHANGED <<circuit, planned>>
    PROVE  /\ \A engine, i : RefusedAt(engine, i)' = RefusedAt(engine, i)
           /\ \A i : MeasuredBefore(i)' = MeasuredBefore(i)
           /\ PlannedEngine' = PlannedEngine
  BY DEF RefusedAt, MeasuredBefore, PlannedEngine, StabilizerRefuses

\* A plan is made for the circuit as it is extracted.
LEMMA PlanRunKeeps ==
    ASSUME CircuitInv, NEW shots \in ShotCounts, PlanRun(shots)
    PROVE  CircuitInv'
<1> DEFINE s == Summary(circuit, shots, 1, 0)
<1>1. /\ execution.status = "EXTRACTING" /\ UNCHANGED <<rowsRead, circuit>>
      /\ planned' = <<[summary |-> s, decision |-> PlanFor(s)]>>
      /\ execution' = [execution EXCEPT
                          !.status = IF circuit.qubits = <<>> THEN "BLOCKED" ELSE "RUNNING",
                          !.engine = EngineOf(PlanFor(s).backend), !.sharded = ShardedRun(PlanFor(s).backend)]
  BY DEF PlanRun
<1>2. execution.next = 1 /\ execution.measured = <<>> /\ ~execution.substituted /\ CircuitTyped
  BY <1>1 DEF CircuitInv, RunInv
<1>3. PlanFor(s).backend \in Backends
  BY EveryPlanFits
<1>4. EngineOf(PlanFor(s).backend) \in Engines /\ ShardedRun(PlanFor(s).backend) \in BOOLEAN
  BY <1>3 DEF EngineOf, Engines, Density, ShardedRun
<1>5. CircuitTyped'
  BY <1>1, <1>2, <1>4 DEF CircuitTyped
<1>6. planned'[1].decision.backend = PlanFor(s).backend
  BY <1>1
<1>7. /\ execution'.engine = PlannedEngine' /\ execution'.next = 1 /\ execution'.measured = <<>>
      /\ ~execution'.substituted /\ execution'.status = IF circuit.qubits = <<>> THEN "BLOCKED" ELSE "RUNNING"
  BY <1>1, <1>2, <1>6 DEF CircuitTyped, PlannedEngine
<1>8. PlanMade' /\ NothingDropped'
  BY <1>1, <1>7 DEF PlanMade, NothingDropped, CircuitInv
<1>9. 1 \in 1 .. Len(circuit'.ops) + 1
  BY <1>5 DEF CircuitTyped
<1>10. Outs(execution'.measured) = MeasuredBefore(1)'
  BY <1>7 DEF Outs, MeasuredBefore
<1>11. planned' = <<[summary |-> Summary(circuit', shots, 1, 0), decision |-> PlanFor(Summary(circuit', shots, 1, 0))]>>
  BY <1>1
<1>12. RunInv'
  BY <1>1, <1>7, <1>9, <1>10, <1>11 DEF RunInv, Executed
<1> QED
  BY <1>5, <1>8, <1>12 DEF CircuitInv

\* Consulting the plan settles the engine.
LEMMA ConsultKeeps ==
    ASSUME CircuitInv, NEW s, Consult(s)
    PROVE  CircuitInv'
<1>1. /\ execution.status = "EXTRACTING" /\ execution' = [execution EXCEPT !.status = "CONSULTED"]
      /\ planned' = <<[summary |-> s, decision |-> PlanFor(s)]>> /\ UNCHANGED <<rowsRead, circuit>>
  BY DEF Consult
<1> QED
  BY <1>1 DEF CircuitInv, CircuitTyped, PlanMade, NothingDropped, RunInv, Executed

\* What applying an operation reports.
LEMMA MeasuredKeeps ==
    ASSUME CircuitTyped, execution.next \in DOMAIN circuit.ops,
           Outs(execution.measured) = MeasuredBefore(execution.next)
    PROVE  /\ execution.measured \o Measured(Current) \in Seq(Reports)
           /\ Outs(execution.measured \o Measured(Current)) = MeasuredBefore(execution.next + 1)
<1> DEFINE op == Current
           new == Measured(Current)
           old == execution.measured
           n == execution.next
<1>1. op = circuit.ops[n] /\ op \in Operations /\ n \in Nat \ {0} /\ old \in Seq(Reports)
  BY DEF Current, CircuitTyped
<1>2. (1 .. n + 1 - 1) = (1 .. n - 1) \cup {n}
  BY <1>1
<1>3. CASE op.kind # "measure"
  <2>1. new = <<>>
    BY <1>3 DEF Measured
  <2>2. old \o new = old
    BY <1>1, <2>1
  <2>3. MeasuredBefore(n + 1) = MeasuredBefore(n)
    BY <1>1, <1>2, <1>3 DEF MeasuredBefore
  <2> QED
    BY <1>1, <2>2, <2>3
<1>4. CASE op.kind = "measure"
  <2>1. PICK k \in Nat \ {0} : op.targets = [i \in 1 .. k |-> op.targets[i]]
    BY <1>1, <1>4, OperationFacts
  <2>2. DOMAIN op.targets = 1 .. k
    BY <2>1
  <2>3. new = [i \in 1 .. k |-> [qubit |-> op.targets[i], basis |-> op.basis, out |-> op.out]]
    BY <1>4, <2>2 DEF Measured
  <2>4. \A i \in 1 .. k : new[i] \in Reports
    BY <1>1, <2>3 DEF Reports
  <2>5. new \in Seq(Reports) /\ Len(new) = k
    <3>1. new = [i \in 1 .. k |-> new[i]]
      BY <2>3
    <3>2. new \in [1 .. k -> Reports]
      BY <2>4, <3>1
    <3> QED
      BY <3>2
  <2>6. old \o new \in Seq(Reports)
    BY <1>1, <2>5
  <2>7. Outs(old \o new) = Outs(old) \cup {op.out}
    <3> HIDE DEF old, new
    <3>1. /\ Len(old \o new) = Len(old) + k /\ Len(old) \in Nat
          /\ \A i \in 1 .. Len(old) : (old \o new)[i] = old[i]
          /\ \A i \in Len(old) + 1 .. Len(old) + k : (old \o new)[i] = new[i - Len(old)]
          /\ DOMAIN (old \o new) = 1 .. Len(old) + k /\ DOMAIN old = 1 .. Len(old)
      <4>1. old \in Seq(Reports) /\ new \in Seq(Reports) /\ Len(new) = k
        BY <1>1, <2>5 DEF old, new
      <4>2. /\ Len(old \o new) = Len(old) + Len(new) /\ Len(old) \in Nat /\ DOMAIN old = 1 .. Len(old)
            /\ DOMAIN (old \o new) = 1 .. Len(old) + Len(new)
            /\ \A i \in 1 .. Len(old) : (old \o new)[i] = old[i]
            /\ \A i \in Len(old) + 1 .. Len(old) + Len(new) : (old \o new)[i] = new[i - Len(old)]
        BY <4>1
      <4> QED
        BY <4>1, <4>2
    <3>2. \A i \in 1 .. k : new[i].out = op.out
      BY <2>3 DEF new
    <3>3. \A i \in Len(old) + 1 .. Len(old) + k : (old \o new)[i].out = op.out
      BY <3>1, <3>2
    <3>4. Len(old) + 1 \in Len(old) + 1 .. Len(old) + k
      BY <3>1
    <3>5. \A i \in 1 .. Len(old) + k : i \in 1 .. Len(old) \/ i \in Len(old) + 1 .. Len(old) + k
      BY <3>1
    <3>6. Outs(old \o new) \subseteq Outs(old) \cup {op.out}
      BY <3>1, <3>3, <3>5 DEF Outs
    <3>7. Outs(old) \subseteq Outs(old \o new)
      BY <3>1 DEF Outs
    <3>8. op.out \in Outs(old \o new)
      <4>1. Len(old) + 1 \in DOMAIN (old \o new) /\ (old \o new)[Len(old) + 1].out = op.out
        BY <3>1, <3>3, <3>4
      <4> QED
        BY <4>1 DEF Outs
    <3> QED
      BY <3>6, <3>7, <3>8
  <2>8. MeasuredBefore(n + 1) = MeasuredBefore(n) \cup {op.out}
    BY <1>1, <1>2, <1>4 DEF MeasuredBefore
  <2> QED
    BY <2>6, <2>7, <2>8
<1> QED
  BY <1>3, <1>4

\* A step of a run that goes on, or ends.
LEMMA ApplyKeeps ==
    ASSUME CircuitInv, ApplyOperation
    PROVE  CircuitInv'
<1> DEFINE n == execution.next
<1>1. /\ execution.status = "RUNNING" /\ n <= Len(circuit.ops) /\ UNCHANGED <<rowsRead, circuit, planned>>
      /\ ~Refuses(execution.engine, Current)
  BY DEF ApplyOperation, Running
<1>2. /\ CircuitTyped /\ n \in Nat \ {0} /\ Len(circuit.ops) \in Nat /\ DOMAIN circuit.ops = 1 .. Len(circuit.ops)
      /\ circuit.ops \in Seq(Operations)
  BY DEF CircuitInv, CircuitTyped
<1>3. /\ n \in DOMAIN circuit.ops /\ Outs(execution.measured) = MeasuredBefore(n)
      /\ \A i \in 1 .. n - 1 : ~RefusedAt(execution.engine, i)
  BY <1>1, <1>2 DEF CircuitInv, RunInv
<1>4. ~RefusedAt(execution.engine, n)
  BY <1>1, <1>2, <1>3, RefusalIsSettled
<1>5. /\ execution.measured \o Measured(Current) \in Seq(Reports)
      /\ Outs(execution.measured \o Measured(Current)) = MeasuredBefore(n + 1)
  BY <1>2, <1>3, MeasuredKeeps
<1>6. /\ \A engine, i : RefusedAt(engine, i)' = RefusedAt(engine, i)
      /\ \A i : MeasuredBefore(i)' = MeasuredBefore(i)
      /\ PlannedEngine' = PlannedEngine
  BY <1>1, SettledStays
<1>7. PlanMade' /\ NothingDropped'
  BY <1>1 DEF CircuitInv, PlanMade, NothingDropped, ApplyOperation
<1>8. CASE Escapes(execution.engine, Current)
  <2>1. execution' = [execution EXCEPT !.status = "ESCAPED"]
    BY <1>8 DEF ApplyOperation
  <2>2. CircuitTyped'
    BY <1>1, <1>2, <2>1 DEF CircuitTyped
  <2>3. RunInv'
    BY <1>1, <1>2, <1>6, <2>1 DEF CircuitInv, CircuitTyped, RunInv, Executed
  <2> QED
    BY <1>7, <2>2, <2>3 DEF CircuitInv
<1>9. CASE ~Escapes(execution.engine, Current)
  <2>1. execution' = [execution EXCEPT !.next = @ + 1, !.measured = @ \o Measured(Current)]
    BY <1>9 DEF ApplyOperation
  <2>2. /\ execution'.next = n + 1 /\ execution'.measured = execution.measured \o Measured(Current)
        /\ execution'.status = "RUNNING" /\ execution'.engine = execution.engine
        /\ execution'.substituted = execution.substituted
    BY <1>1, <1>2, <2>1 DEF CircuitTyped
  <2>3. CircuitTyped'
    <3>1. n + 1 \in Nat \ {0}
      BY <1>2
    <3> DEFINE fresh == execution.measured \o Measured(Current)
    <3>2. fresh \in Seq(Reports) /\ execution' = [execution EXCEPT !.next = n + 1, !.measured = fresh]
      BY <1>5, <2>1
    <3> HIDE DEF fresh
    <3> QED
      BY <1>1, <1>2, <3>1, <3>2 DEF CircuitTyped
  <2>4. \A i \in 1 .. n + 1 - 1 : ~RefusedAt(execution.engine, i)
    <3>1. \A i \in 1 .. n + 1 - 1 : i \in 1 .. n - 1 \/ i = n
      BY <1>2
    <3> QED
      BY <1>3, <1>4, <3>1
  <2>5. n + 1 \in 1 .. Len(circuit.ops) + 1
    BY <1>1, <1>2
  <2>6. RunInv'
    BY <1>1, <1>5, <1>6, <2>2, <2>4, <2>5 DEF CircuitInv, RunInv, Executed
  <2> QED
    BY <1>7, <2>3, <2>6 DEF CircuitInv
<1> QED
  BY <1>8, <1>9

\* An engine that refuses is replaced once, or blocks the run.
LEMMA RefuseKeeps ==
    ASSUME CircuitInv, RefuseOperation
    PROVE  CircuitInv'
<1> DEFINE n == execution.next
<1>1. /\ execution.status = "RUNNING" /\ n <= Len(circuit.ops) /\ UNCHANGED <<rowsRead, circuit, planned>>
      /\ Refuses(execution.engine, Current)
  BY DEF RefuseOperation, Running
<1>2. /\ CircuitTyped /\ n \in Nat \ {0} /\ Len(circuit.ops) \in Nat /\ DOMAIN circuit.ops = 1 .. Len(circuit.ops)
  BY DEF CircuitInv, CircuitTyped
<1>3. /\ n \in DOMAIN circuit.ops /\ Outs(execution.measured) = MeasuredBefore(n)
      /\ execution.engine = IF execution.substituted THEN "statevector" ELSE PlannedEngine
      /\ circuit.qubits # <<>>
  BY <1>1, <1>2 DEF CircuitInv, RunInv
<1>4. RefusedAt(execution.engine, n)
  BY <1>1, <1>2, <1>3, RefusalIsSettled
<1>5. /\ \A engine, i : RefusedAt(engine, i)' = RefusedAt(engine, i)
      /\ \A i : MeasuredBefore(i)' = MeasuredBefore(i)
      /\ PlannedEngine' = PlannedEngine
  BY <1>1, SettledStays
<1>6. PlanMade' /\ NothingDropped'
  BY <1>1 DEF CircuitInv, PlanMade, NothingDropped, RefuseOperation, Restarted
<1>7. CASE execution.substituted
  <2>1. execution' = [execution EXCEPT !.status = "BLOCKED"]
    BY <1>7 DEF RefuseOperation
  <2>2. CircuitTyped'
    BY <1>1, <1>2, <2>1 DEF CircuitTyped
  <2>3. RefusedAt("statevector", n)
    BY <1>3, <1>4, <1>7
  <2>4. RunInv'
    BY <1>1, <1>2, <1>3, <1>5, <1>7, <2>1, <2>3 DEF CircuitInv, CircuitTyped, RunInv, Executed
  <2> QED
    BY <1>6, <2>2, <2>4 DEF CircuitInv
<1>8. CASE ~execution.substituted
  <2>1. execution' = Restarted(execution)
    BY <1>8 DEF RefuseOperation
  <2>2. /\ execution'.next = 1 /\ execution'.measured = <<>> /\ execution'.status = "RUNNING"
        /\ execution'.engine = "statevector" /\ execution'.substituted
    BY <1>1, <1>2, <2>1 DEF CircuitTyped, Restarted
  <2>3. CircuitTyped'
    <3>1. <<>> \in Seq(Reports) /\ 1 \in Nat \ {0} /\ "statevector" \in Engines \cup {"-"}
      BY DEF Engines
    <3>2. execution' \in [status : {"RUNNING"}, engine : Engines \cup {"-"}, sharded : BOOLEAN, next : Nat \ {0},
                          measured : Seq(Reports), substituted : BOOLEAN, label : Labels]
      BY <1>1, <1>2, <2>1, <3>1 DEF CircuitTyped, Restarted
    <3> QED
      BY <1>1, <1>2, <3>2 DEF CircuitTyped
  <2>4. Outs(<<>>) = MeasuredBefore(1)
    BY DEF Outs, MeasuredBefore
  <2>5. RefusedAt(PlannedEngine, n)
    BY <1>3, <1>4, <1>8
  <2>6. 1 \in 1 .. Len(circuit.ops) + 1 /\ (1 .. 1 - 1) = {}
    BY <1>2
  <2>7. RunInv'
    BY <1>1, <1>3, <1>5, <2>2, <2>4, <2>5, <2>6 DEF CircuitInv, RunInv, Executed
  <2> QED
    BY <1>6, <2>3, <2>7 DEF CircuitInv
<1> QED
  BY <1>7, <1>8

\* A run that has no operation left is executed.
LEMMA FinishKeeps ==
    ASSUME CircuitInv, FinishRun
    PROVE  CircuitInv'
<1>1. /\ execution.status = "RUNNING" /\ execution.next = Len(circuit.ops) + 1
      /\ UNCHANGED <<rowsRead, circuit, planned>>
      /\ execution' = [execution EXCEPT
             !.status = IF execution.substituted THEN "EXECUTED_WITH_RECORDED_SUBSTITUTION" ELSE "EXECUTED",
             !.label = LabelOf(execution)]
  BY DEF FinishRun
<1>2. PICK shots \in ShotCounts : planned = <<[summary |-> Summary(circuit, shots, 1, 0),
                                               decision |-> PlanFor(Summary(circuit, shots, 1, 0))]>>
  BY <1>1 DEF CircuitInv, RunInv
<1>3. execution.engine \in Engines
  BY <1>1, <1>2, PlannedForChannels DEF CircuitInv, RunInv, Engines
<1>4. LabelOf(execution) \in Labels
  <2>1. CASE execution.sharded
    BY <2>1 DEF LabelOf, Labels
  <2>2. CASE ~execution.sharded /\ execution.engine = "statevector"
    BY <2>2 DEF LabelOf, Labels
  <2>3. CASE ~execution.sharded /\ execution.engine = "density"
    BY <2>3 DEF LabelOf, Labels
  <2>4. CASE ~execution.sharded /\ execution.engine = "stabilizer"
    BY <2>4 DEF LabelOf, Labels
  <2> QED
    BY <1>3, <2>1, <2>2, <2>3, <2>4 DEF Engines
<1>5. CircuitTyped'
  BY <1>1, <1>4 DEF CircuitInv, CircuitTyped
<1>6. /\ \A engine, i : RefusedAt(engine, i)' = RefusedAt(engine, i)
      /\ \A i : MeasuredBefore(i)' = MeasuredBefore(i)
      /\ PlannedEngine' = PlannedEngine
  BY <1>1, SettledStays
<1>7. /\ execution'.next = execution.next /\ execution'.measured = execution.measured
      /\ execution'.engine = execution.engine /\ execution'.substituted = execution.substituted
      /\ execution'.status \in {"EXECUTED_WITH_RECORDED_SUBSTITUTION", "EXECUTED"}
  BY <1>1 DEF CircuitInv, CircuitTyped
<1>8. PlanMade' /\ NothingDropped'
  BY <1>1, <1>7 DEF CircuitInv, PlanMade, NothingDropped
<1>9. RunInv'
  BY <1>1, <1>6, <1>7 DEF CircuitInv, RunInv, Executed
<1> QED
  BY <1>5, <1>8, <1>9 DEF CircuitInv

\* The invariant of extraction, plan and run, for any menu of rows, any length of program
\* and any budget.
THEOREM CircuitsAreSound == CircuitSpec => []CircuitInv
<1>1. CircuitInit => CircuitInv
  <2> SUFFICES ASSUME CircuitInit PROVE CircuitInv
    OBVIOUS
  <2>1. {i \in DOMAIN rowsRead : rowsRead[i].face \in ExecutableFaces} = {}
    BY DEF CircuitInit
  <2>2. NothingDropped
    BY <2>1, FS_EmptySet DEF CircuitInit, NothingDropped
  <2>3. /\ execution = [status |-> "EXTRACTING", engine |-> "-", sharded |-> FALSE, next |-> 1,
                         measured |-> <<>>, substituted |-> FALSE, label |-> "-"]
        /\ rowsRead = <<>> /\ planned = <<>> /\ circuit.ops = <<>>
    BY DEF CircuitInit
  <2>4. <<>> \in Seq(Reports) /\ <<>> \in Seq(CircuitRows) /\ <<>> \in Seq(Operations)
    OBVIOUS
  <2>5. CircuitTyped
    BY <2>3, <2>4 DEF CircuitTyped, Labels
  <2>6. PlanMade /\ RunInv
    BY <2>3 DEF PlanMade, RunInv, Executed
  <2> QED
    BY <2>2, <2>5, <2>6 DEF CircuitInv
<1>2. CircuitInv /\ [CircuitNext]_circuitVars => CircuitInv'
  <2> SUFFICES ASSUME CircuitInv, [CircuitNext]_circuitVars PROVE CircuitInv'
    OBVIOUS
  <2>1. CASE UNCHANGED circuitVars
    <3>1. UNCHANGED <<rowsRead, circuit, planned, execution>>
      BY <2>1 DEF circuitVars
    <3>2. /\ \A engine, i : RefusedAt(engine, i)' = RefusedAt(engine, i)
          /\ \A i : MeasuredBefore(i)' = MeasuredBefore(i)
          /\ PlannedEngine' = PlannedEngine
      BY <3>1, SettledStays
    <3> QED
      BY <3>1, <3>2 DEF CircuitInv, CircuitTyped, PlanMade, NothingDropped, RunInv, Executed
  <2>2. CASE \E row \in CircuitRows : ReadRow(row)
    BY <2>2, ReadKeeps
  <2>3. CASE \E shots \in ShotCounts : PlanRun(shots)
    BY <2>3, PlanRunKeeps
  <2>4. CASE \E s \in Summaries : Consult(s)
    BY <2>4, ConsultKeeps
  <2>5. CASE ApplyOperation
    BY <2>5, ApplyKeeps
  <2>6. CASE RefuseOperation
    BY <2>6, RefuseKeeps
  <2>7. CASE FinishRun
    BY <2>7, FinishKeeps
  <2> QED
    BY <2>1, <2>2, <2>3, <2>4, <2>5, <2>6, <2>7 DEF CircuitNext
<1> QED
  BY <1>1, <1>2, PTL DEF CircuitSpec

\* ReportedInOrder for any reports and operations.
Reported(measured, ops, n) ==
    \E from \in [1 .. n + 1 -> 0 .. Len(measured)] :
        /\ from[1] = 0 /\ from[n + 1] = Len(measured)
        /\ \A i \in 1 .. n :
              LET reports == Measured(ops[i])
              IN  /\ from[i + 1] = from[i] + Len(reports)
                  /\ \A k \in 1 .. Len(reports) : measured[from[i] + k] = reports[k]

ReportInv ==
    execution.status \notin {"EXTRACTING", "UNRESOLVED", "CONSULTED"} =>
        Reported(execution.measured, circuit.ops, execution.next - 1)

\* No operation, no report.
LEMMA NoneReported ==
    ASSUME NEW ops
    PROVE  Reported(<<>>, ops, 0)
<1> DEFINE from == [i \in 1 .. 0 + 1 |-> 0]
<1>1. from \in [1 .. 0 + 1 -> 0 .. Len(<<>>)] /\ from[1] = 0 /\ from[0 + 1] = Len(<<>>)
  OBVIOUS
<1>2. (1 .. 0) = {}
  OBVIOUS
<1> QED
  BY <1>1, <1>2 DEF Reported

\* One operation more reports after the ones before it.
LEMMA NextReported ==
    ASSUME NEW R, NEW ops, NEW n \in Nat, NEW measured \in Seq(R), Reported(measured, ops, n),
           Measured(ops[n + 1]) \in Seq(R)
    PROVE  Reported(measured \o Measured(ops[n + 1]), ops, n + 1)
<1> DEFINE new == Measured(ops[n + 1])
           all == measured \o new
<1>1. PICK from \in [1 .. n + 1 -> 0 .. Len(measured)] :
          /\ from[1] = 0 /\ from[n + 1] = Len(measured)
          /\ \A i \in 1 .. n :
                /\ from[i + 1] = from[i] + Len(Measured(ops[i]))
                /\ \A k \in 1 .. Len(Measured(ops[i])) : measured[from[i] + k] = Measured(ops[i])[k]
  BY DEF Reported
<1>2. /\ Len(all) = Len(measured) + Len(new) /\ Len(measured) \in Nat /\ Len(new) \in Nat
      /\ \A k \in 1 .. Len(measured) : all[k] = measured[k]
      /\ \A k \in 1 .. Len(new) : all[Len(measured) + k] = new[k]
  <2>1. measured \in Seq(R) /\ new \in Seq(R)
    OBVIOUS
  <2> HIDE DEF new
  <2> QED
    BY <2>1
<1> DEFINE more == [i \in 1 .. n + 1 + 1 |-> IF i = n + 1 + 1 THEN Len(all) ELSE from[i]]
<1> HIDE DEF all, new
<1>3. \A i \in 1 .. n + 1 : more[i] = from[i] /\ from[i] \in 0 .. Len(measured)
  BY <1>1
<1>4. more \in [1 .. n + 1 + 1 -> 0 .. Len(all)]
  BY <1>1, <1>2
<1>5. more[1] = 0 /\ more[n + 1 + 1] = Len(all) /\ more[n + 1] = Len(measured)
  BY <1>1
<1> HIDE DEF more
<1>6. ASSUME NEW i \in 1 .. n
      PROVE  /\ more[i + 1] = more[i] + Len(Measured(ops[i]))
             /\ \A k \in 1 .. Len(Measured(ops[i])) : all[more[i] + k] = Measured(ops[i])[k]
  <2>1. i \in 1 .. n + 1 /\ i + 1 \in 1 .. n + 1
    OBVIOUS
  <2>2. more[i] = from[i] /\ more[i + 1] = from[i + 1] /\ from[i] \in 0 .. Len(measured)
        /\ from[i + 1] \in 0 .. Len(measured) /\ from[i + 1] = from[i] + Len(Measured(ops[i]))
    BY <1>1, <1>3, <2>1
  <2>3. ASSUME NEW k \in 1 .. Len(Measured(ops[i]))
        PROVE  all[more[i] + k] = Measured(ops[i])[k]
    <3>1. Len(Measured(ops[i])) \in Int
      <4>1. CASE Len(Measured(ops[i])) \in Int
        BY <4>1
      <4>2. CASE Len(Measured(ops[i])) \notin Int
        OBVIOUS
      <4> QED
        BY <4>1, <4>2
    <3>2. from[i] + k \in 1 .. Len(measured)
      BY <1>2, <2>2, <3>1
    <3> QED
      BY <1>1, <1>2, <2>2, <3>2
  <2> QED
    BY <2>2, <2>3
<1>7. \A i \in 1 .. n + 1 : i \in 1 .. n \/ i = n + 1
  OBVIOUS
<1>8. /\ more[n + 1 + 1] = more[n + 1] + Len(Measured(ops[n + 1]))
      /\ \A k \in 1 .. Len(Measured(ops[n + 1])) : all[more[n + 1] + k] = Measured(ops[n + 1])[k]
  BY <1>2, <1>5 DEF new
<1>9. \A i \in 1 .. n + 1 :
          /\ more[i + 1] = more[i] + Len(Measured(ops[i]))
          /\ \A k \in 1 .. Len(Measured(ops[i])) : all[more[i] + k] = Measured(ops[i])[k]
  BY <1>6, <1>7, <1>8
<1>10. Reported(all, ops, n + 1)
  BY <1>4, <1>5, <1>9 DEF Reported
<1> QED
  BY <1>10 DEF all, new

\* What an operation reports.
LEMMA MeasuredIsSeq ==
    ASSUME NEW op \in Operations
    PROVE  Measured(op) \in Seq(Reports)
<1>1. CASE op.kind # "measure"
  BY <1>1 DEF Measured
<1>2. CASE op.kind = "measure"
  <2>1. PICK k \in Nat \ {0} : op.targets = [i \in 1 .. k |-> op.targets[i]]
    BY <1>2, OperationFacts
  <2>2. Measured(op) = [i \in 1 .. k |-> Measured(op)[i]] /\ DOMAIN Measured(op) = 1 .. k
    BY <1>2, <2>1 DEF Measured
  <2>3. \A i \in 1 .. k : Measured(op)[i] \in Reports
    BY <2>2 DEF Reports
  <2>4. Measured(op) \in [1 .. k -> Reports]
    BY <2>2, <2>3
  <2> QED
    BY <2>4
<1> QED
  BY <1>1, <1>2

\* A step of the run reports what the operation it applies measured, a run that starts or
\* starts over has reported nothing.
LEMMA ReportKeeps ==
    ASSUME CircuitInv, ReportInv, [CircuitNext]_circuitVars
    PROVE  ReportInv'
<1> DEFINE early == {"EXTRACTING", "UNRESOLVED", "CONSULTED"}
           n == execution.next
<1>1. /\ execution.status \in {"EXTRACTING", "UNRESOLVED", "CONSULTED", "RUNNING", "BLOCKED", "ESCAPED",
                               "EXECUTED", "EXECUTED_WITH_RECORDED_SUBSTITUTION"}
      /\ n \in Nat \ {0} /\ execution.measured \in Seq(Reports) /\ circuit.ops \in Seq(Operations)
      /\ execution.status = "EXTRACTING" => n = 1 /\ execution.measured = <<>>
      /\ execution = [f \in {"status", "engine", "sharded", "next", "measured", "substituted", "label"} |->
                         execution[f]]
  BY DEF CircuitInv, CircuitTyped, RunInv
<1>2. CASE UNCHANGED circuitVars
  BY <1>2 DEF circuitVars, ReportInv
<1>3. ASSUME NEW row \in CircuitRows, ReadRow(row)
      PROVE  ReportInv'
  <2>1. execution.status = "EXTRACTING"
        /\ (execution' = execution \/ execution' = [execution EXCEPT !.status = "UNRESOLVED"])
    BY <1>3 DEF ReadRow
  <2>2. execution'.status \in early
    BY <1>1, <2>1
  <2> QED
    BY <2>2 DEF ReportInv
<1>4. ASSUME NEW s \in Summaries, Consult(s)
      PROVE  ReportInv'
  <2>1. execution'.status = "CONSULTED"
    BY <1>1, <1>4 DEF Consult
  <2> QED
    BY <2>1 DEF ReportInv
<1>5. ASSUME NEW shots \in ShotCounts, PlanRun(shots)
      PROVE  ReportInv'
  <2>1. execution'.next = 1 /\ execution'.measured = <<>>
    BY <1>1, <1>5 DEF PlanRun
  <2>2. Reported(<<>>, circuit'.ops, 0)
    BY NoneReported
  <2> QED
    BY <2>1, <2>2 DEF ReportInv
<1>6. CASE ApplyOperation
  <2>1. execution.status = "RUNNING" /\ n <= Len(circuit.ops) /\ circuit' = circuit
    BY <1>6 DEF ApplyOperation, Running
  <2>2. Reported(execution.measured, circuit.ops, n - 1) /\ n - 1 \in Nat
    BY <1>1, <2>1 DEF ReportInv
  <2>3. CASE Escapes(execution.engine, Current)
    <3>1. execution' = [execution EXCEPT !.status = "ESCAPED"]
      BY <1>6, <2>3 DEF ApplyOperation
    <3>2. execution'.next = n /\ execution'.measured = execution.measured
      BY <1>1, <3>1
    <3> QED
      BY <2>1, <2>2, <3>2 DEF ReportInv
  <2>4. CASE ~Escapes(execution.engine, Current)
    <3>1. execution'.next = n + 1 /\ execution'.measured = execution.measured \o Measured(Current)
      BY <1>1, <1>6, <2>4 DEF ApplyOperation
    <3>2. Current = circuit.ops[n - 1 + 1] /\ Current \in Operations
      BY <1>1, <2>1 DEF Current
    <3>3. Measured(circuit.ops[n - 1 + 1]) \in Seq(Reports)
      BY <3>2, MeasuredIsSeq
    <3>4. Reported(execution.measured \o Measured(circuit.ops[n - 1 + 1]), circuit.ops, n - 1 + 1)
      BY <1>1, <2>2, <3>3, NextReported
    <3>5. n - 1 + 1 = n + 1 - 1
      BY <1>1
    <3> DEFINE fresh == execution.measured \o Measured(Current)
               last == execution'.next - 1
    <3>6. last = n + 1 - 1 /\ execution'.measured = fresh /\ circuit'.ops = circuit.ops
      <4>1. execution'.next = n + 1
        BY <3>1
      <4>2. last = n + 1 - 1
        BY <1>1, <4>1
      <4>3. execution'.measured = fresh
        BY <3>1
      <4>4. circuit'.ops = circuit.ops
        BY <2>1, Zenon
      <4> HIDE DEF fresh, last
      <4> QED
        BY <4>2, <4>3, <4>4
    <3>7. Reported(fresh, circuit.ops, n + 1 - 1)
      BY <3>2, <3>4, <3>5
    <3>8. Reported(execution'.measured, circuit'.ops, last)
      <4> HIDE DEF fresh, last
      <4> QED
        BY <3>6, <3>7
    <3> QED
      BY <3>8 DEF ReportInv
  <2> QED
    BY <2>3, <2>4
<1>7. CASE RefuseOperation
  <2>1. execution.status = "RUNNING" /\ circuit' = circuit
    BY <1>7 DEF RefuseOperation, Running
  <2>2. CASE execution.substituted
    <3>1. execution'.next = n /\ execution'.measured = execution.measured
      BY <1>1, <1>7, <2>2 DEF RefuseOperation
    <3> QED
      BY <2>1, <3>1 DEF ReportInv
  <2>3. CASE ~execution.substituted
    <3>1. execution'.next = 1 /\ execution'.measured = <<>>
      BY <1>1, <1>7, <2>3 DEF RefuseOperation, Restarted
    <3>2. Reported(<<>>, circuit'.ops, 0)
      BY NoneReported
    <3> QED
      BY <3>1, <3>2 DEF ReportInv
  <2> QED
    BY <2>2, <2>3
<1>8. CASE FinishRun
  <2>1. /\ execution.status = "RUNNING" /\ circuit' = circuit
        /\ execution'.next = n /\ execution'.measured = execution.measured
    BY <1>1, <1>8 DEF FinishRun
  <2> QED
    BY <2>1 DEF ReportInv
<1> QED
  BY <1>2, <1>3, <1>4, <1>5, <1>6, <1>7, <1>8 DEF CircuitNext

\* From extraction to result, no executable row is lost, every backend is accounted for and
\* the chosen one fits, a run is completed by an engine that can hold its state exactly
\* when the program asks for nothing beyond the engines, in place of the tableau exactly
\* when that cannot express an operation or meets an odd phase, and the engine that
\* finished reports every measurement once and in order (simulator.py, circuit_from_program,
\* NumericalPlanner.plan, run; ledgers.py, _numerics).
THEOREM RunsAreDecided == CircuitSpec => []CircuitsRun
<1>1. CircuitInit => ReportInv
  BY DEF CircuitInit, ReportInv
<1>2. CircuitInv /\ ReportInv => CircuitsRun
  <2> SUFFICES ASSUME CircuitInv, ReportInv PROVE CircuitsRun
    OBVIOUS
  <2>1. NothingDropped /\ PlanFits /\ OutcomeIsRight
    BY OutcomeFollows DEF CircuitInv
  <2>2. MeasurementsAreWhole
    <3>1. SUFFICES ASSUME Executed PROVE ReportedInOrder(Len(circuit.ops))
      BY DEF MeasurementsAreWhole
    <3>2. execution.next - 1 = Len(circuit.ops)
      BY <3>1 DEF CircuitInv, CircuitTyped, RunInv
    <3>3. Reported(execution.measured, circuit.ops, Len(circuit.ops))
      BY <3>1, <3>2 DEF ReportInv, Executed
    <3> QED
      BY <3>3 DEF Reported, ReportedInOrder
  <2> QED
    BY <2>1, <2>2 DEF CircuitsRun
<1>3. CircuitInv /\ CircuitInv' /\ ReportInv /\ [CircuitNext]_circuitVars => ReportInv'
  BY ReportKeeps
<1> QED
  BY <1>1, <1>2, <1>3, CircuitsAreSound, PTL DEF CircuitSpec

-----------------------------------------------------------------------------
(* What error terms are composed from.                                       *)

Grade(t) == <<Dimension(t), Moment(t)>>

\* A term that no covariance and no approximation took part in, and that claims independence
\* or is of several sources.
Claiming(t) == ~t.covariance /\ ~t.approximate /\ (t.independence \in ClaimsIndependence \/ Cardinality(t.parts) > 1)

TermKept(t) ==
    /\ t.parts # {} /\ t.parts \subseteq DOMAIN Declared
    /\ t.epoch \in Nat /\ t.confidence \in Nat /\ t.approximate \in BOOLEAN /\ t.covariance \in BOOLEAN
    /\ Claiming(t) => \A s \in SourcesOf(t) : s.independence \in ClaimsIndependence
    /\ \A s \in SourcesOf(t) : Grade(s) = Grade(t)
    /\ CalibrationEpochs(SourcesOf(t)) \subseteq {t.epoch}
    /\ t.epoch # 0 => t.epoch \in CalibrationEpochs(SourcesOf(t))
    /\ \A s \in SourcesOf(t) : s.confidence # 0 => t.confidence # 0 /\ t.confidence <= s.confidence

ErrorInv ==
    /\ IsFiniteSet(pool)
    /\ \A t, u \in pool : t # u => t.parts \cap u.parts = {}
    /\ \A t \in pool : TermKept(t)

LEMMA ErrorInvSuffices == ErrorInv => SourcesAreKept
<1> SUFFICES ASSUME ErrorInv PROVE SourcesAreKept
  OBVIOUS
<1>1. ASSUME NEW t \in pool
      PROVE  Cardinality({<<Dimension(s), Moment(s)>> : s \in SourcesOf(t)}) = 1
  <2>1. TermKept(t)
    BY DEF ErrorInv
  <2>2. SourcesOf(t) # {}
    BY <2>1 DEF TermKept, SourcesOf
  <2>3. {<<Dimension(s), Moment(s)>> : s \in SourcesOf(t)} = {Grade(t)}
    BY <2>1, <2>2 DEF TermKept, Grade
  <2> QED
    BY <2>3, FS_Singleton
<1>2. ASSUME NEW t \in pool
      PROVE  Justified(t)
  BY DEF ErrorInv, TermKept, Claiming, Justified
<1> QED
  BY <1>1, <1>2 DEF ErrorInv, TermKept, SourcesAreKept

\* A declared term is of itself.
LEMMA DeclaredKept ==
    ASSUME NEW n \in DOMAIN Declared
    PROVE  TermKept(Term(n)) /\ Term(n).parts = {n}
<1>1. /\ Term(n).parts = {n} /\ SourcesOf(Term(n)) = {Term(n)}
      /\ Term(n).epoch \in Nat /\ Term(n).confidence \in Nat
      /\ Term(n).approximate = FALSE /\ Term(n).covariance = FALSE
  BY ErrorAssumption DEF Term, SourcesOf
<1>2. Cardinality(Term(n).parts) = 1
  BY <1>1, FS_Singleton
<1>3. Claiming(Term(n)) => Term(n).independence \in ClaimsIndependence
  BY <1>2 DEF Claiming
<1>4. CalibrationEpochs(SourcesOf(Term(n))) = {Term(n).epoch} \ {0}
  BY <1>1 DEF CalibrationEpochs
<1>5. Term(n).parts # {} /\ Term(n).parts \subseteq DOMAIN Declared
  BY <1>1
<1>6. Claiming(Term(n)) => \A s \in SourcesOf(Term(n)) : s.independence \in ClaimsIndependence
  BY <1>1, <1>3
<1>7. /\ \A s \in SourcesOf(Term(n)) : Grade(s) = Grade(Term(n))
      /\ \A s \in SourcesOf(Term(n)) : s.confidence # 0 => Term(n).confidence # 0 /\ Term(n).confidence <= s.confidence
  BY <1>1
<1>8. /\ CalibrationEpochs(SourcesOf(Term(n))) \subseteq {Term(n).epoch}
      /\ Term(n).epoch # 0 => Term(n).epoch \in CalibrationEpochs(SourcesOf(Term(n)))
  BY <1>4
<1> QED
  BY <1>1, <1>5, <1>6, <1>7, <1>8 DEF TermKept

\* The laws that apply, and what they are for.
LEMMA LawFacts ==
    ASSUME NEW kind, NEW assumption, NEW i \in LawsFor(kind, assumption)
    PROVE  \/ /\ Laws[i].id \in {"L1", "L2", "L6"} /\ assumption = "independent"
              /\ kind \notin {"variance", "std_dev"}
           \/ Laws[i].id = "L3" /\ kind \notin {"variance", "std_dev"}
           \/ Laws[i].id = "L4" /\ assumption = "independent" /\ kind \in {"variance", "std_dev"}
           \/ Laws[i].id = "L5" /\ assumption = "correlated" /\ kind \in {"variance", "std_dev"}
<1>1. i \in 1 .. 6
  BY DEF LawsFor, Laws
<1>2. kind \in Laws[i].kinds /\ Laws[i].assumption = assumption
  BY DEF LawsFor
<1>3. CASE i = 1
  BY <1>2, <1>3 DEF Laws
<1>4. CASE i = 2
  BY <1>2, <1>4 DEF Laws
<1>5. CASE i = 3
  BY <1>2, <1>5 DEF Laws
<1>6. CASE i = 4
  BY <1>2, <1>6 DEF Laws
<1>7. CASE i = 5
  BY <1>2, <1>7 DEF Laws
<1>8. CASE i = 6
  BY <1>2, <1>8 DEF Laws
<1> QED
  BY <1>1, <1>3, <1>4, <1>5, <1>6, <1>7, <1>8

\* The least of some numbers is one of them.
LEMMA LeastIsOne ==
    ASSUME NEW S \in SUBSET Nat, S # {}
    PROVE  Min(S) \in S /\ \A x \in S : Min(S) <= x
<1>1. PICK x \in S : \A y \in S : ~(<<y, x>> \in OpToRel(<, Nat))
  BY NatLessThanWellFounded, WFMin
<1>2. ASSUME NEW y \in S
      PROVE  x <= y
  <2>1. x \in Nat /\ y \in Nat /\ ~(<<y, x>> \in OpToRel(<, Nat))
    BY <1>1
  <2>2. y < x => <<y, x>> \in OpToRel(<, Nat)
    BY <2>1, Zenon DEF OpToRel
  <2>3. ~(y < x)
    BY <2>1, <2>2, Zenon
  <2>4. x \in Nat /\ y \in Nat
    BY <2>1, Zenon
  <2> QED
    BY <2>3, <2>4
<1> QED
  BY <1>2 DEF Min

\* The values of a function on a finite set are finitely many.
LEMMA FiniteImage ==
    ASSUME NEW f, IsFiniteSet(DOMAIN f)
    PROVE  IsFiniteSet({f[x] : x \in DOMAIN f})
<1> DEFINE Images == {f[x] : x \in DOMAIN f}
           image == [x \in DOMAIN f |-> f[x]]
<1>1. image \in Surjection(DOMAIN f, Images)
  BY DEF Surjection
<1> HIDE DEF Images, image
<1>2. IsFiniteSet(Images)
  BY <1>1, FS_Surjection, Zenon
<1> QED
  BY <1>2 DEF Images

\* A finite set with no two elements has at most one.
LEMMA AtMostOne ==
    ASSUME NEW S, IsFiniteSet(S), ~(Cardinality(S) > 1), NEW x \in S, NEW y \in S
    PROVE  x = y
<1>1. S # {} /\ Cardinality(S) # 0 /\ Cardinality(S) \in Nat
  BY FS_EmptySet, FS_CardinalityType
<1>2. Cardinality(S) = 1
  BY <1>1
<1> QED
  BY <1>2, FS_Singleton

\* A term was composed of some terms of a kind and a unit by a law.
ComposedBy(c, terms, assumption, kind, unit, law) ==
    /\ \A t \in terms : t.kind = kind /\ t.unit = unit
    /\ \E i \in LawsFor(kind, assumption) : law = Laws[i].id
    /\ assumption = "independent" => \A t \in terms : t.independence \in ClaimsIndependence
    /\ ~(Cardinality(CalibrationEpochs(terms)) > 1)
    /\ c.parts = UNION {t.parts : t \in terms}
    /\ c.unit = (IF law \in {"L4", "L5"} /\ unit = "probability" THEN "dimensionless" ELSE unit)
    /\ c.kind = (IF law \in {"L4", "L5"} THEN "variance" ELSE kind)
    /\ c.independence = assumption
    /\ c.epoch = (IF CalibrationEpochs(terms) = {} THEN 0 ELSE Max(CalibrationEpochs(terms)))
    /\ c.confidence = (IF Levels(terms) = {} THEN 0 ELSE Min(Levels(terms)))
    /\ c.approximate = (law = "L3" \/ \E t \in terms : t.approximate)
    /\ c.covariance = ((law = "L5" /\ Cardinality(terms) > 1) \/ \E t \in terms : t.covariance)

\* What a composition gives back.
LEMMA ComposedTerm ==
    ASSUME NEW terms, NEW assumption, NEW c \in Composed(terms, assumption), terms # {}, IsFiniteSet(terms)
    PROVE  \E kind, unit, law : ComposedBy(c, terms, assumption, kind, unit, law)
<1> DEFINE kinds == {<<t.unit, t.kind>> : t \in terms}
           kind == (CHOOSE k \in kinds : TRUE)[2]
           unit == (CHOOSE k \in kinds : TRUE)[1]
           lawIds == {Laws[i].id : i \in LawsFor(kind, assumption)}
           law == CHOOSE l \in lawIds : TRUE
           value == Amount(law, kind, terms)
           combined == [parts |-> UNION {t.parts : t \in terms}, value |-> value,
               unit |-> IF law \in {"L4", "L5"} /\ unit = "probability" THEN "dimensionless" ELSE unit,
               kind |-> IF law \in {"L4", "L5"} THEN "variance" ELSE kind,
               independence |-> assumption, correlation |-> << >>,
               epoch |-> IF CalibrationEpochs(terms) = {} THEN 0 ELSE Max(CalibrationEpochs(terms)),
               confidence |-> IF Levels(terms) = {} THEN 0 ELSE Min(Levels(terms)),
               root |-> IF Cardinality(terms) = 1 THEN (CHOOSE t \in terms : TRUE).root ELSE 0,
               approximate |-> law = "L3" \/ \E t \in terms : t.approximate,
               covariance |-> (law = "L5" /\ Cardinality(terms) > 1) \/ \E t \in terms : t.covariance]
<1>1. /\ ~(Cardinality(kinds) > 1) /\ lawIds # {} /\ ~(Cardinality(CalibrationEpochs(terms)) > 1)
      /\ assumption = "independent" => {t.independence : t \in terms} \subseteq ClaimsIndependence
      /\ c = combined
  BY Zenon DEF Composed, Independent
<1> HIDE DEF value
<1>2. /\ c.parts = UNION {t.parts : t \in terms}
      /\ c.unit = (IF law \in {"L4", "L5"} /\ unit = "probability" THEN "dimensionless" ELSE unit)
      /\ c.kind = (IF law \in {"L4", "L5"} THEN "variance" ELSE kind)
      /\ c.independence = assumption
  BY <1>1
<1>3. /\ c.epoch = (IF CalibrationEpochs(terms) = {} THEN 0 ELSE Max(CalibrationEpochs(terms)))
      /\ c.confidence = (IF Levels(terms) = {} THEN 0 ELSE Min(Levels(terms)))
      /\ c.approximate = (law = "L3" \/ \E t \in terms : t.approximate)
      /\ c.covariance = ((law = "L5" /\ Cardinality(terms) > 1) \/ \E t \in terms : t.covariance)
  BY <1>1
<1>4. law \in lawIds
  BY <1>1
<1>5. \A t \in terms : t.kind = kind /\ t.unit = unit
  <2> DEFINE graded == [t \in terms |-> <<t.unit, t.kind>>]
  <2>1. kinds = {graded[t] : t \in DOMAIN graded} /\ IsFiniteSet(DOMAIN graded)
    OBVIOUS
  <2>2. IsFiniteSet(kinds)
    BY <2>1, FiniteImage
  <2>3. (CHOOSE k \in kinds : TRUE) \in kinds
    OBVIOUS
  <2>4. ASSUME NEW t \in terms
        PROVE  <<t.unit, t.kind>> = (CHOOSE k \in kinds : TRUE)
    <3>1. <<t.unit, t.kind>> \in kinds
      OBVIOUS
    <3> HIDE DEF kinds
    <3> QED
      BY <1>1, <2>2, <2>3, <3>1, AtMostOne
  <2> QED
    <3> HIDE DEF kinds
    <3> DEFINE chosen == CHOOSE k \in kinds : TRUE
    <3>1. \A t \in terms : <<t.unit, t.kind>> = chosen
      BY <2>4
    <3> HIDE DEF chosen
    <3>2. \A t \in terms : t.unit = chosen[1] /\ t.kind = chosen[2]
      BY <3>1
    <3> QED
      BY <3>2 DEF chosen
<1>6. /\ \E i \in LawsFor(kind, assumption) : law = Laws[i].id
      /\ assumption = "independent" => \A t \in terms : t.independence \in ClaimsIndependence
      /\ ~(Cardinality(CalibrationEpochs(terms)) > 1)
  <2>1. assumption = "independent" => \A t \in terms : t.independence \in ClaimsIndependence
    BY <1>1
  <2>2. \E i \in LawsFor(kind, assumption) : law = Laws[i].id
    <3> HIDE DEF kind, law
    <3> QED
      BY <1>4
  <2> QED
    BY <1>1, <2>1, <2>2
<1> HIDE DEF kind, unit, law
<1>7. ComposedBy(c, terms, assumption, kind, unit, law)
  BY <1>2, <1>3, <1>5, <1>6, Zenon DEF ComposedBy
<1> QED
  BY <1>7

\* The epoch of a composition is the one its terms have, or none.
LEMMA EpochOfAll ==
    ASSUME NEW terms, IsFiniteSet(terms), \A t \in terms : t.epoch \in Nat,
           ~(Cardinality(CalibrationEpochs(terms)) > 1)
    PROVE  LET e == IF CalibrationEpochs(terms) = {} THEN 0 ELSE Max(CalibrationEpochs(terms))
           IN  /\ e \in Nat /\ (e # 0 => e \in CalibrationEpochs(terms))
               /\ \A t \in terms : t.epoch # 0 => t.epoch = e
<1> DEFINE epochs == CalibrationEpochs(terms)
           dated == [t \in terms |-> t.epoch]
           all == {dated[t] : t \in DOMAIN dated}
<1>1. IsFiniteSet(all)
  BY FiniteImage, IsFiniteSet(DOMAIN dated)
<1>2. epochs \subseteq all /\ epochs \subseteq Nat /\ \A t \in terms : t.epoch # 0 => t.epoch \in epochs
  BY DEF CalibrationEpochs
<1>3. IsFiniteSet(epochs)
  BY <1>1, <1>2, FS_Subset
<1>4. \A x, y \in epochs : x = y
  <2> SUFFICES ASSUME NEW x \in epochs, NEW y \in epochs
               PROVE  x = y
    OBVIOUS
  <2> HIDE DEF epochs
  <2> QED
    BY <1>3, AtMostOne, ~(Cardinality(epochs) > 1) DEF epochs
<1> HIDE DEF epochs, all
<1>5. ASSUME epochs # {}
      PROVE  Max(epochs) \in epochs
  <2>1. PICK x \in epochs : x >= x /\ \A y \in epochs : x >= y
    <3>1. PICK x : x \in epochs
      BY <1>5
    <3>2. x \in Nat /\ \A y \in epochs : y = x
      BY <1>2, <1>4, <3>1
    <3> QED
      BY <3>1, <3>2
  <2> QED
    BY <2>1 DEF Max
<1> QED
  BY <1>2, <1>4, <1>5 DEF epochs

\* The confidence of a composition is the least its terms have, or none.
LEMMA LevelOfAll ==
    ASSUME NEW terms, \A t \in terms : t.confidence \in Nat
    PROVE  LET level == IF Levels(terms) = {} THEN 0 ELSE Min(Levels(terms))
           IN  /\ level \in Nat
               /\ \A t \in terms : t.confidence # 0 => level # 0 /\ level <= t.confidence
<1> DEFINE levels == Levels(terms)
<1>1. levels \in SUBSET Nat /\ 0 \notin levels /\ \A t \in terms : t.confidence # 0 => t.confidence \in levels
  BY DEF Levels
<1> HIDE DEF levels
<1>2. ASSUME levels # {}
      PROVE  Min(levels) \in levels /\ \A x \in levels : Min(levels) <= x
  BY <1>1, <1>2, LeastIsOne
<1> QED
  BY <1>1, <1>2 DEF levels

\* What a composition was composed of claims what it claims.
LEMMA ComposedClaims ==
    ASSUME NEW terms \in SUBSET pool, ErrorInv, terms # {}, IsFiniteSet(terms), NEW c, NEW assumption,
           NEW kind, NEW unit, NEW law, ComposedBy(c, terms, assumption, kind, unit, law),
           Claiming(c), NEW t \in terms
    PROVE  \A s \in SourcesOf(t) : s.independence \in ClaimsIndependence
<1>1. TermKept(t)
  BY DEF ErrorInv
<1>2. ~c.covariance /\ ~c.approximate /\ (c.independence \in ClaimsIndependence \/ Cardinality(c.parts) > 1)
  BY DEF Claiming
<1>3. /\ c.approximate = (law = "L3" \/ \E u \in terms : u.approximate)
      /\ c.covariance = ((law = "L5" /\ Cardinality(terms) > 1) \/ \E u \in terms : u.covariance)
      /\ c.independence = assumption /\ c.parts = UNION {u.parts : u \in terms}
      /\ assumption = "independent" => \A u \in terms : u.independence \in ClaimsIndependence
  BY Zenon DEF ComposedBy
<1>4. law # "L3" /\ ~t.approximate /\ ~t.covariance /\ (law = "L5" => ~(Cardinality(terms) > 1))
  BY <1>2, <1>3, Zenon
<1>5. assumption = "independent" \/ (law = "L5" /\ assumption = "correlated")
  BY <1>4, LawFacts DEF ComposedBy
<1>6. CASE assumption = "independent"
  BY <1>1, <1>3, <1>4, <1>6 DEF TermKept, Claiming
<1>7. CASE law = "L5" /\ assumption = "correlated"
  <2>1. \A u \in terms : u = t
    BY <1>4, <1>7, AtMostOne
  <2>2. c.parts = t.parts
    BY <1>3, <2>1
  <2>3. Cardinality(t.parts) > 1
    BY <1>2, <1>3, <1>7, <2>2 DEF ClaimsIndependence
  <2> QED
    BY <1>1, <1>4, <2>3 DEF TermKept, Claiming
<1> QED
  BY <1>5, <1>6, <1>7

\* A composition keeps what its terms were composed of.
LEMMA ComposedKept ==
    ASSUME NEW terms \in SUBSET pool, ErrorInv, terms # {}, IsFiniteSet(terms), NEW assumption,
           NEW c \in Composed(terms, assumption)
    PROVE  TermKept(c) /\ c.parts = UNION {t.parts : t \in terms}
<1>1. PICK kind, unit, law : ComposedBy(c, terms, assumption, kind, unit, law)
  BY ComposedTerm
<1>2. c.parts = UNION {t.parts : t \in terms} /\ \A t \in terms : TermKept(t)
  BY <1>1 DEF ComposedBy, ErrorInv
<1>3. c.parts # {} /\ c.parts \subseteq DOMAIN Declared
  BY <1>2 DEF TermKept
<1>4. \A s : s \in SourcesOf(c) <=> \E t \in terms : s \in SourcesOf(t)
  BY <1>2 DEF SourcesOf
<1>5. c.approximate \in BOOLEAN /\ c.covariance \in BOOLEAN
  BY <1>1, Zenon DEF ComposedBy
<1>6. Claiming(c) => \A s \in SourcesOf(c) : s.independence \in ClaimsIndependence
  BY <1>1, <1>4, ComposedClaims
<1>7. ASSUME NEW t \in terms
      PROVE  Grade(t) = Grade(c)
  <2>1. /\ t.kind = kind /\ t.unit = unit /\ \E i \in LawsFor(kind, assumption) : law = Laws[i].id
        /\ c.unit = (IF law \in {"L4", "L5"} /\ unit = "probability" THEN "dimensionless" ELSE unit)
        /\ c.kind = (IF law \in {"L4", "L5"} THEN "variance" ELSE kind)
    BY <1>1 DEF ComposedBy
  <2>2. \/ law \in {"L4", "L5"} /\ kind \in {"variance", "std_dev"}
        \/ law \notin {"L4", "L5"} /\ kind \notin {"variance", "std_dev"}
    BY <2>1, LawFacts
  <2> QED
    BY <2>1, <2>2 DEF Grade, Dimension, Moment
<1>8. \A s \in SourcesOf(c) : Grade(s) = Grade(c)
  BY <1>2, <1>4, <1>7 DEF TermKept
<1>9. /\ c.epoch \in Nat /\ (c.epoch # 0 => c.epoch \in CalibrationEpochs(terms))
      /\ \A t \in terms : t.epoch # 0 => t.epoch = c.epoch
  <2>1. \A t \in terms : t.epoch \in Nat
    BY <1>2 DEF TermKept
  <2>2. /\ ~(Cardinality(CalibrationEpochs(terms)) > 1)
        /\ c.epoch = (IF CalibrationEpochs(terms) = {} THEN 0 ELSE Max(CalibrationEpochs(terms)))
    BY <1>1 DEF ComposedBy
  <2> QED
    BY <2>1, <2>2, EpochOfAll
<1>10. CalibrationEpochs(SourcesOf(c)) \subseteq {c.epoch}
  BY <1>2, <1>4, <1>9 DEF CalibrationEpochs, TermKept
<1>11. ASSUME c.epoch # 0
       PROVE  c.epoch \in CalibrationEpochs(SourcesOf(c))
  <2>1. PICK t \in terms : t.epoch = c.epoch
    BY <1>9, <1>11 DEF CalibrationEpochs
  <2>2. c.epoch \in CalibrationEpochs(SourcesOf(t))
    BY <1>2, <1>11, <2>1 DEF TermKept
  <2> QED
    BY <1>4, <2>2 DEF CalibrationEpochs
<1>12. /\ c.confidence \in Nat
       /\ \A t \in terms : t.confidence # 0 => c.confidence # 0 /\ c.confidence <= t.confidence
  <2>1. \A t \in terms : t.confidence \in Nat
    BY <1>2 DEF TermKept
  <2>2. c.confidence = (IF Levels(terms) = {} THEN 0 ELSE Min(Levels(terms)))
    BY <1>1 DEF ComposedBy
  <2> QED
    BY <2>1, <2>2, LevelOfAll
<1>13. ASSUME NEW s \in SourcesOf(c), s.confidence # 0
       PROVE  c.confidence # 0 /\ c.confidence <= s.confidence
  <2>1. PICK t \in terms : s \in SourcesOf(t)
    BY <1>4
  <2>2. t.confidence # 0 /\ t.confidence <= s.confidence /\ t.confidence \in Nat
    BY <1>2, <1>13, <2>1 DEF TermKept
  <2>3. \E n \in DOMAIN Declared : s = Term(n)
    BY <1>3 DEF SourcesOf
  <2>4. s.confidence \in Nat
    BY <2>3, ErrorAssumption DEF Term
  <2> QED
    BY <1>12, <2>2, <2>4
<1> QED
  BY <1>2, <1>3, <1>5, <1>6, <1>8, <1>9, <1>10, <1>11, <1>12, <1>13 DEF TermKept

\* The terms a pool starts with.
LEMMA ErrorInitKept == ErrorInit => ErrorInv
<1> SUFFICES ASSUME ErrorInit PROVE ErrorInv
  OBVIOUS
<1>1. PICK names \in SUBSET DOMAIN Declared : pool = {Term(n) : n \in names}
  BY DEF ErrorInit
<1> DEFINE single == [n \in names |-> Term(n)]
<1>2. IsFiniteSet(names)
  BY FS_Subset, ErrorAssumption
<1>3. pool = {single[n] : n \in DOMAIN single} /\ DOMAIN single = names
  BY <1>1
<1> HIDE DEF single
<1>4. IsFiniteSet(pool)
  BY <1>2, <1>3, FiniteImage
<1>5. \A n \in names : TermKept(Term(n)) /\ Term(n).parts = {n}
  BY DeclaredKept
<1>6. \A t, u \in pool : t # u => t.parts \cap u.parts = {}
  BY <1>1, <1>5
<1> QED
  BY <1>1, <1>4, <1>5, <1>6 DEF ErrorInv

\* A composition replaces its terms.
LEMMA CombineKeeps ==
    ASSUME ErrorInv, NEW terms \in (SUBSET pool) \ {{}}, NEW assumption, Combine(terms, assumption)
    PROVE  ErrorInv'
<1>1. terms \in SUBSET pool /\ terms # {}
  OBVIOUS
<1>2. IsFiniteSet(pool) /\ IsFiniteSet(terms)
  BY <1>1, FS_Subset DEF ErrorInv
<1>3. PICK c \in Composed(terms, assumption) : pool' = (pool \ terms) \union {c}
  BY DEF Combine
<1>4. TermKept(c) /\ c.parts = UNION {t.parts : t \in terms}
  BY <1>1, <1>2, ComposedKept
<1>5. IsFiniteSet(pool \ terms)
  BY <1>2, FS_Subset
<1>6. IsFiniteSet(pool')
  BY <1>3, <1>5, FS_AddElement
<1>7. \A t \in pool \ terms : t.parts \cap c.parts = {}
  BY <1>1, <1>4 DEF ErrorInv
<1>8. \A t, u \in pool' : t # u => t.parts \cap u.parts = {}
  BY <1>3, <1>7 DEF ErrorInv
<1>9. \A t \in pool' : TermKept(t)
  BY <1>3, <1>4 DEF ErrorInv
<1> QED
  BY <1>6, <1>8, <1>9 DEF ErrorInv

\* The inductive invariant of composition.
THEOREM CompositionInvariant == ErrorSpec => []ErrorInv
<1>1. ErrorInv /\ [ErrorNext]_pool => ErrorInv'
  <2>1. ASSUME ErrorInv, ErrorNext
        PROVE  ErrorInv'
    BY <2>1, CombineKeeps DEF ErrorNext
  <2>2. ASSUME ErrorInv, UNCHANGED pool
        PROVE  ErrorInv'
    BY <2>2 DEF ErrorInv
  <2> QED
    BY <2>1, <2>2
<1> QED
  BY <1>1, ErrorInitKept, PTL DEF ErrorSpec

\* However error terms are composed.
THEOREM CompositionsKeepTheirSources == ErrorSpec => []SourcesAreKept
  BY CompositionInvariant, ErrorInvSuffices, PTL

-----------------------------------------------------------------------------
(* What the edges of an event structure order.                               *)

\* Precedes for any nodes V and edges E.
Leads(V, E, i, j) ==
    \A S \in SUBSET V : (i \in S /\ \A e \in E : e[1] \in S => e[2] \in S) => j \in S

StructureTyped ==
    /\ nodes \in Seq(NodeMenu)
    /\ \A e \in edges : e \in N \X N /\ e[1] < e[2]
    /\ \A k \in DOMAIN lastWriter : lastWriter[k] \in N
    /\ \A k \in DOMAIN lastReaders : lastReaders[k] \in SUBSET N
    /\ \A k \in DOMAIN producer : producer[k] \in N
    /\ \A k \in DOMAIN linkLast : linkLast[k] \in N
    /\ \A k \in DOMAIN laneLast : laneLast[k] \in N

\* What is remembered of an object, a link or a cell comes after all that used it.
Remembered ==
    \A i \in N :
        /\ \A k \in Writes(nodes[i]) : k \in DOMAIN lastWriter /\ Leads(N, edges, i, lastWriter[k])
        /\ \A k \in Reads(nodes[i]) : \/ k \in DOMAIN lastReaders /\ i \in lastReaders[k]
                                      \/ k \in DOMAIN lastWriter /\ Leads(N, edges, i, lastWriter[k])
        /\ nodes[i].link # "-" =>
               nodes[i].link \in DOMAIN linkLast /\ Leads(N, edges, i, linkLast[nodes[i].link])
        /\ nodes[i].op \in Destructive /\ nodes[i].out # <<>> =>
               nodes[i].out \in DOMAIN producer /\ Leads(N, edges, i, producer[nodes[i].out])

Ordered == \A i, j \in N : i < j /\ Conflict(nodes[i], nodes[j]) => Leads(N, edges, i, j)

StructureInv == StructureTyped /\ Remembered /\ Ordered

\* What leads somewhere still does when nodes and edges are added.
LEMMA LeadsOn ==
    ASSUME NEW V, NEW W, V \subseteq W, NEW E, NEW F, E \subseteq F, \A e \in E : e \in V \X V,
           NEW i \in V, NEW j, Leads(V, E, i, j)
    PROVE  Leads(W, F, i, j)
<1> SUFFICES ASSUME NEW S \in SUBSET W, i \in S, \A e \in F : e[1] \in S => e[2] \in S
             PROVE  j \in S
  BY DEF Leads
<1>1. S \cap V \in SUBSET V /\ i \in S \cap V
  OBVIOUS
<1>2. \A e \in E : e[1] \in S \cap V => e[2] \in S \cap V
  OBVIOUS
<1> QED
  BY <1>1, <1>2 DEF Leads

\* An edge leads on.
LEMMA LeadsFurther ==
    ASSUME NEW W, NEW F, NEW i, NEW m, NEW n, Leads(W, F, i, m), <<m, n>> \in F
    PROVE  Leads(W, F, i, n)
BY DEF Leads

\* The nodes an added row depends on.
LEMMA SourceFacts ==
    ASSUME StructureTyped, NEW row
    PROVE  /\ Sources(row) \subseteq N
           /\ \A k \in Touches(row) : k \in DOMAIN lastWriter => lastWriter[k] \in Sources(row)
           /\ \A k \in Writes(row) : k \in DOMAIN lastReaders => lastReaders[k] \subseteq Sources(row)
           /\ row.link # "-" /\ row.link \in DOMAIN linkLast => linkLast[row.link] \in Sources(row)
           /\ row.op \in ClassicalControl /\ row.ctrl # <<>> /\ row.ctrl \in DOMAIN producer =>
                  producer[row.ctrl] \in Sources(row)
<1>1. \A k, keys : k \in keys /\ k \in DOMAIN lastWriter => lastWriter[k] \in AtAny(lastWriter, keys)
  BY DEF AtAny, At
<1>2. \A keys : AtAny(lastWriter, keys) \subseteq N
  BY DEF AtAny, At, StructureTyped
<1>3. \A keys : UNION AtAny(lastReaders, keys) \subseteq N
  BY DEF AtAny, At, StructureTyped
<1>4. \A k, keys : k \in keys /\ k \in DOMAIN lastReaders => lastReaders[k] \subseteq UNION AtAny(lastReaders, keys)
  BY DEF AtAny, At
<1>5. Data(row) \subseteq N /\ Data(row) \subseteq Sources(row)
  BY <1>2, <1>3 DEF Data, DataSources, Sources
<1>6. /\ ControlSource(row) \subseteq N
      /\ AtAny(linkLast, Named(row.link)) \subseteq N /\ AtAny(laneLast, Named(row.lane)) \subseteq N
  BY DEF ControlSource, AtAny, At, StructureTyped
<1>7. Sources(row) \subseteq N
  BY <1>2, <1>5, <1>6 DEF Sources, N
<1>8. row.link # "-" /\ row.link \in DOMAIN linkLast => linkLast[row.link] \in Sources(row)
  BY DEF Sources, AtAny, At, Named
<1>9. row.op \in ClassicalControl /\ row.ctrl # <<>> /\ row.ctrl \in DOMAIN producer =>
          producer[row.ctrl] \in Sources(row)
  BY DEF Sources, ControlSource, At
<1>10. /\ \A k \in Touches(row) : k \in DOMAIN lastWriter => lastWriter[k] \in Data(row)
       /\ \A k \in Writes(row) : k \in DOMAIN lastReaders => lastReaders[k] \subseteq Data(row)
  BY <1>1, <1>4 DEF Data, DataSources
<1> QED
  BY <1>5, <1>7, <1>8, <1>9, <1>10

\* A row that is added comes after all it conflicts with.
LEMMA AddKeeps ==
    ASSUME StructureInv, NEW row \in NodeMenu, AddRow(row)
    PROVE  StructureInv'
<1> DEFINE n == Len(nodes) + 1
<1>1. /\ nodes \in Seq(NodeMenu) /\ Len(nodes) \in Nat /\ N = 1 .. Len(nodes)
      /\ nodes' = Append(nodes, row) /\ edges' = edges \union {<<m, n>> : m \in Sources(row)}
  BY DEF StructureInv, StructureTyped, AddRow, N
<1>2. /\ nodes' \in Seq(NodeMenu) /\ N' = N \union {n} /\ n \notin N /\ n \in Nat /\ \A m \in N : m < n
      /\ nodes'[n] = row /\ \A i \in N : nodes'[i] = nodes[i]
  BY <1>1 DEF N
<1> HIDE DEF n
<1>3. /\ Sources(row) \subseteq N
      /\ \A k \in Touches(row) : k \in DOMAIN lastWriter => lastWriter[k] \in Sources(row)
      /\ \A k \in Writes(row) : k \in DOMAIN lastReaders => lastReaders[k] \subseteq Sources(row)
      /\ row.link # "-" /\ row.link \in DOMAIN linkLast => linkLast[row.link] \in Sources(row)
      /\ row.op \in ClassicalControl /\ row.ctrl # <<>> /\ row.ctrl \in DOMAIN producer =>
             producer[row.ctrl] \in Sources(row)
  BY SourceFacts DEF StructureInv
<1>4. \A e \in edges : e \in N \X N /\ e[1] < e[2]
  BY DEF StructureInv, StructureTyped
<1>5. \A i \in N : \A m : Leads(N, edges, i, m) => Leads(N', edges', i, m)
  BY <1>1, <1>2, <1>4, LeadsOn
<1>6. \A i \in N : \A m \in Sources(row) : Leads(N, edges, i, m) => Leads(N', edges', i, n)
  BY <1>1, <1>5, LeadsFurther
<1>7. /\ \A m \in Sources(row) : Leads(N', edges', m, n)
      /\ Leads(N', edges', n, n)
  <2>1. \A m : Leads(N', edges', m, m)
    BY DEF Leads
  <2> QED
    BY <1>1, <2>1, LeadsFurther
<1>8. \A e \in edges' : e \in N' \X N' /\ e[1] < e[2]
  BY <1>1, <1>2, <1>3, <1>4
<1>9. /\ lastWriter' = With(lastWriter, Writes(row), n)
      /\ lastReaders' =
            [k \in DOMAIN lastReaders \union Touches(row) |->
                (IF k \in Writes(row) \/ k \notin DOMAIN lastReaders THEN {} ELSE lastReaders[k])
                \union (IF k \in Reads(row) THEN {n} ELSE {})]
      /\ producer' = IF row.op \in Destructive /\ row.out # <<>>
                     THEN With(producer, {row.out}, n) ELSE producer
      /\ linkLast' = With(linkLast, Named(row.link), n)
      /\ laneLast' = With(laneLast, Named(row.lane), n)
  BY DEF AddRow, n
<1>10. StructureTyped'
  <2>1. /\ \A k \in DOMAIN lastWriter' : lastWriter'[k] \in N'
        /\ \A k \in DOMAIN linkLast' : linkLast'[k] \in N'
        /\ \A k \in DOMAIN laneLast' : laneLast'[k] \in N'
    BY <1>2, <1>9 DEF With, StructureInv, StructureTyped
  <2>2. \A k \in DOMAIN producer' : producer'[k] \in N'
    BY <1>2, <1>9 DEF With, StructureInv, StructureTyped
  <2>3. \A k \in DOMAIN lastReaders' : lastReaders'[k] \in SUBSET (N')
    BY <1>2, <1>9 DEF StructureInv, StructureTyped
  <2> QED
    BY <1>2, <1>8, <2>1, <2>2, <2>3 DEF StructureTyped
<1>11. ASSUME NEW i \in N, NEW k \in Touches(row), k \in DOMAIN lastWriter, Leads(N, edges, i, lastWriter[k])
       PROVE  Leads(N', edges', i, n)
  BY <1>3, <1>6, <1>11
<1>12. ASSUME NEW i \in N, NEW k \in Writes(nodes[i])
       PROVE  k \in DOMAIN lastWriter' /\ Leads(N', edges', i, lastWriter'[k])
  <2>1. k \in DOMAIN lastWriter /\ Leads(N, edges, i, lastWriter[k])
    BY DEF StructureInv, Remembered
  <2>2. CASE k \in Writes(row)
    <3>1. Leads(N', edges', i, n)
      BY <1>11, <2>1, <2>2 DEF Touches
    <3> QED
      BY <1>9, <2>2, <3>1 DEF With
  <2>3. CASE k \notin Writes(row)
    BY <1>5, <1>9, <2>1, <2>3 DEF With
  <2> QED
    BY <2>2, <2>3
<1>13. ASSUME NEW i \in N, NEW k \in Reads(nodes[i]), k \in Writes(row)
       PROVE  Leads(N', edges', i, n)
  <2>1. \/ k \in DOMAIN lastReaders /\ i \in lastReaders[k]
        \/ k \in DOMAIN lastWriter /\ Leads(N, edges, i, lastWriter[k])
    BY DEF StructureInv, Remembered
  <2>2. CASE k \in DOMAIN lastReaders /\ i \in lastReaders[k]
    BY <1>3, <1>7, <1>13, <2>2
  <2>3. CASE k \in DOMAIN lastWriter /\ Leads(N, edges, i, lastWriter[k])
    BY <1>11, <1>13, <2>3 DEF Touches
  <2> QED
    BY <2>1, <2>2, <2>3
<1>14. ASSUME NEW i \in N, NEW k \in Reads(nodes[i])
       PROVE  \/ k \in DOMAIN lastReaders' /\ i \in lastReaders'[k]
              \/ k \in DOMAIN lastWriter' /\ Leads(N', edges', i, lastWriter'[k])
  <2>1. \/ k \in DOMAIN lastReaders /\ i \in lastReaders[k]
        \/ k \in DOMAIN lastWriter /\ Leads(N, edges, i, lastWriter[k])
    BY DEF StructureInv, Remembered
  <2>2. CASE k \in Writes(row)
    BY <1>9, <1>13, <2>2 DEF With
  <2>3. CASE k \notin Writes(row)
    BY <1>5, <1>9, <2>1, <2>3 DEF With
  <2> QED
    BY <2>2, <2>3
<1>15. ASSUME NEW i \in N, nodes[i].link # "-"
       PROVE  /\ nodes[i].link \in DOMAIN linkLast' /\ Leads(N', edges', i, linkLast'[nodes[i].link])
              /\ nodes[i].link = row.link => Leads(N', edges', i, n)
  <2>1. nodes[i].link \in DOMAIN linkLast /\ Leads(N, edges, i, linkLast[nodes[i].link])
    BY <1>15 DEF StructureInv, Remembered
  <2>2. CASE nodes[i].link = row.link
    <3>1. Leads(N', edges', i, n)
      BY <1>3, <1>6, <1>15, <2>1, <2>2
    <3> QED
      BY <1>9, <1>15, <2>2, <3>1 DEF With, Named
  <2>3. CASE nodes[i].link # row.link
    BY <1>5, <1>9, <2>1, <2>3 DEF With, Named
  <2> QED
    BY <2>2, <2>3
<1>16. ASSUME NEW i \in N, nodes[i].op \in Destructive, nodes[i].out # <<>>
       PROVE  /\ nodes[i].out \in DOMAIN producer' /\ Leads(N', edges', i, producer'[nodes[i].out])
              /\ row.op \in ClassicalControl /\ row.ctrl = nodes[i].out => Leads(N', edges', i, n)
  <2>1. nodes[i].out \in DOMAIN producer /\ Leads(N, edges, i, producer[nodes[i].out])
    BY <1>16 DEF StructureInv, Remembered
  <2>2. CASE row.op \in Destructive /\ row.out = nodes[i].out
    <3>1. PICK k \in ToSet(row.out) : TRUE
      BY <1>16, <2>2, StructureAssumption
    <3>2. k \in Writes(nodes[i]) /\ k \in Touches(row)
      BY <2>2, <3>1 DEF Writes, Touches
    <3>3. Leads(N', edges', i, n)
      BY <1>11, <3>2 DEF StructureInv, Remembered
    <3> QED
      BY <1>9, <1>16, <2>2, <3>3 DEF With
  <2>3. CASE ~(row.op \in Destructive /\ row.out = nodes[i].out)
    <3>1. nodes[i].out \in DOMAIN producer' /\ producer'[nodes[i].out] = producer[nodes[i].out]
      BY <1>9, <2>1, <2>3 DEF With
    <3>2. row.op \in ClassicalControl /\ row.ctrl = nodes[i].out => Leads(N', edges', i, n)
      BY <1>3, <1>6, <1>16, <2>1
    <3> QED
      BY <1>5, <2>1, <3>1, <3>2
  <2> QED
    BY <2>2, <2>3
<1>17. Remembered'
  <2>1. ASSUME NEW k \in Writes(row)
        PROVE  k \in DOMAIN lastWriter' /\ Leads(N', edges', n, lastWriter'[k])
    BY <1>7, <1>9 DEF With
  <2>2. ASSUME NEW k \in Reads(row)
        PROVE  k \in DOMAIN lastReaders' /\ n \in lastReaders'[k]
    BY <1>9 DEF Touches
  <2>3. row.link # "-" => row.link \in DOMAIN linkLast' /\ Leads(N', edges', n, linkLast'[row.link])
    BY <1>7, <1>9 DEF With, Named
  <2>4. row.op \in Destructive /\ row.out # <<>> =>
            row.out \in DOMAIN producer' /\ Leads(N', edges', n, producer'[row.out])
    BY <1>7, <1>9 DEF With
  <2> QED
    BY <1>2, <1>12, <1>14, <1>15, <1>16, <2>1, <2>2, <2>3, <2>4 DEF Remembered
<1>18. ASSUME NEW i \in N, Conflict(nodes[i], row)
       PROVE  Leads(N', edges', i, n)
  <2>1. CASE ~OwnDisjoint(nodes[i], row)
    <3>1. PICK k : k \in Writes(nodes[i]) \cap Touches(row) \/ k \in Writes(row) \cap Reads(nodes[i])
      BY <2>1 DEF OwnDisjoint
    <3>2. CASE k \in Writes(nodes[i]) \cap Touches(row)
      BY <1>11, <3>2 DEF StructureInv, Remembered
    <3>3. CASE k \in Writes(row) \cap Reads(nodes[i])
      BY <1>13, <3>3
    <3> QED
      BY <3>1, <3>2, <3>3
  <2>2. CASE nodes[i].link = row.link /\ nodes[i].link # "-"
    BY <1>15, <2>2
  <2>3. CASE /\ nodes[i].op \in Destructive /\ row.op \in ClassicalControl
             /\ nodes[i].out = row.ctrl /\ nodes[i].out # <<>>
    BY <1>16, <2>3
  <2> QED
    BY <1>18, <2>1, <2>2, <2>3 DEF Conflict
<1>19. Ordered'
  <2>1. \A i, j \in N : i < j /\ Conflict(nodes[i], nodes[j]) => Leads(N', edges', i, j)
    BY <1>5 DEF StructureInv, Ordered
  <2>2. ASSUME NEW i \in N', NEW j \in N', i < j
        PROVE  i \in N /\ (j \in N \/ j = n)
    BY <1>1, <1>2, <2>2
  <2> QED
    BY <1>2, <1>18, <2>1, <2>2 DEF Ordered
<1> QED
  BY <1>10, <1>17, <1>19 DEF StructureInv

\* The invariant of building an event structure, for any menu of rows and any length.
THEOREM StructureInvariant == StructureSpec => []StructureInv
<1>1. StructureInit => StructureInv
  BY DEF StructureInit, StructureInv, StructureTyped, Remembered, Ordered, N
<1>2. StructureInv /\ [StructureNext]_structureVars => StructureInv'
  <2>1. ASSUME StructureInv, StructureNext
        PROVE  StructureInv'
    BY <2>1, AddKeeps DEF StructureNext
  <2>2. ASSUME StructureInv, UNCHANGED structureVars
        PROVE  StructureInv'
    BY <2>2 DEF StructureInv, StructureTyped, Remembered, Ordered, N, structureVars
  <2> QED
    BY <2>1, <2>2
<1> QED
  BY <1>1, <1>2, PTL DEF StructureSpec

\* Two rows that conflict keep their order, whatever rows come between.
THEOREM ConflictsKeepTheirOrder == StructureSpec => []ConflictsAreOrdered
<1>1. StructureInv => ConflictsAreOrdered
  BY DEF StructureInv, StructureTyped, Ordered, Leads, ConflictsAreOrdered, Precedes
<1> QED
  BY <1>1, StructureInvariant, PTL

=============================================================================
