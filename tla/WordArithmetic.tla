--------------------------- MODULE WordArithmetic ---------------------------
(* The multi-limb arithmetic of the virtual machine (brvm.c). A word is a     *)
(* function from limb positions, least significant first, to limbs of         *)
(* LimbBits bits; the code's 16384 limbs of 64 bits are Limbs limbs here. The *)
(* loops are folds over the limb positions that carry what the code's locals  *)
(* carry, and each operation is computed from two words and a shift or budget.*)
EXTENDS Integers, Sequences, SequencesExt

CONSTANTS LimbBits, Limbs
ASSUME WordAssumption == LimbBits \in Nat \ {0} /\ Limbs \in Nat \ {0}

VARIABLE computed               \* the last operation, its operands and its result
wordVars == <<computed>>

Base == 2 ^ LimbBits
Bits == LimbBits * Limbs
Words == [0 .. Limbs - 1 -> 0 .. Base - 1]
Zero == [i \in 0 .. Limbs - 1 |-> 0]
From(lo, hi) == [i \in 1 .. hi - lo |-> lo + i - 1]        \* lo, ..., hi - 1
Down(lo, hi) == [i \in 1 .. hi - lo |-> hi - i]            \* hi - 1, ..., lo
Flag(b) == IF b THEN 1 ELSE 0

ActiveLimbs(a) == LET S == {i \in DOMAIN a : a[i] # 0}
                  IN  IF S = {} THEN 0 ELSE 1 + CHOOSE i \in S : \A j \in S : j <= i

WordCmp(a, b) ==
    FoldLeft(LAMBDA r, i : IF r # 0 \/ a[i] = b[i] THEN r ELSE IF a[i] < b[i] THEN -1 ELSE 1,
             0, Down(0, Limbs))

WordAdd(a, b) ==
    FoldLeft(LAMBDA s, i : LET total == a[i] + b[i] + s.carry
                           IN  [out |-> [s.out EXCEPT ![i] = total % Base],
                                carry |-> total \div Base],
             [out |-> Zero, carry |-> 0], From(0, Limbs))

BorrowsOnce(x, y, borrow) == x < y                  \* mutant: a borrow is not passed on
Borrows(x, y, borrow) == x < y \/ (borrow = 1 /\ x = y)
SubLimbs(a, b, n) ==
    FoldLeft(LAMBDA s, i : [out |-> [s.out EXCEPT ![i] = (a[i] - b[i] - s.carry) % Base],
                            carry |-> Flag(Borrows(a[i], b[i], s.carry))],
             [out |-> a, carry |-> 0], From(0, n))
WordSub(a, b) == SubLimbs(a, b, Limbs)

\* One row of the product: a[i] times b, added from position i on; what does not
\* fit is an overflow.
MulRow(s, a, b, i) ==
    LET bn == ActiveLimbs(b)
        Times(r, j) ==
            LET total == a[i] * b[j] + r.out[i + j] + r.carry
            IN  IF i + j >= Limbs
                THEN [r EXCEPT !.overflow = @ \/ (a[i] # 0 /\ b[j] # 0)]
                ELSE [r EXCEPT !.out[i + j] = total % Base, !.carry = total \div Base]
        Ripple(r, k) == LET total == r.out[k] + r.carry
                        IN  [r EXCEPT !.out[k] = total % Base, !.carry = total \div Base]
        row == FoldLeft(Times, [s EXCEPT !.carry = 0], From(0, bn))
        done == FoldLeft(Ripple, row, From(i + bn, Limbs))
    IN  [done EXCEPT !.overflow = @ \/ done.carry # 0]
WordMul(a, b) ==
    FoldLeft(LAMBDA s, i : MulRow(s, a, b, i),
             [out |-> Zero, carry |-> 0, overflow |-> FALSE], From(0, ActiveLimbs(a)))

\* A remainder is a word and its active length.
ShiftLeftOne(r) ==
    LET s == FoldLeft(LAMBDA t, i : [out |-> [t.out EXCEPT ![i] = ((2 * r.out[i]) % Base) + t.carry],
                                     carry |-> (2 * r.out[i]) \div Base],
                      [out |-> r.out, carry |-> 0], From(0, r.n))
    IN  IF s.carry # 0 /\ r.n < Limbs
        THEN [out |-> [s.out EXCEPT ![r.n] = s.carry], n |-> r.n + 1]
        ELSE [out |-> s.out, n |-> r.n]
SubN(r, b) ==
    LET low == SubLimbs(r.out, b, ActiveLimbs(b))
        all == FoldLeft(LAMBDA s, i : [out |-> [s.out EXCEPT ![i] = (@ - s.carry) % Base],
                                       carry |-> Flag(s.carry = 1 /\ s.out[i] = 0)],
                        low, From(ActiveLimbs(b), r.n))
    IN  [out |-> all.out, n |-> ActiveLimbs(all.out)]
HighestBit(a) == LET S == {k \in 0 .. Bits - 1 :
                             (a[k \div LimbBits] \div 2 ^ (k % LimbBits)) % 2 = 1}
                 IN  IF S = {} THEN -1 ELSE CHOOSE k \in S : \A j \in S : j <= k
\* The remainder takes the k-th bit of a, then gives up b if it can.
TakeBit(r, bit) ==
    LET low == IF r.out[0] % 2 = 1 THEN r.out[0] ELSE r.out[0] + bit
    IN  [out |-> [r.out EXCEPT ![0] = low], n |-> IF low # 0 /\ r.n = 0 THEN 1 ELSE r.n]
QuotientBit(s, rem, b, k) ==
    IF WordCmp(rem.out, b) >= 0
    THEN [s EXCEPT !.rem = SubN(rem, b), !.used = @ + 1,
                   !.q[k \div LimbBits] = @ + 2 ^ (k % LimbBits)]
    ELSE [s EXCEPT !.rem = rem, !.used = @ + 1]
DivBit(s, a, b, k) ==
    QuotientBit(s, TakeBit(ShiftLeftOne(s.rem), (a[k \div LimbBits] \div 2 ^ (k % LimbBits)) % 2), b, k)
WithinBudget(s, budget) ==
    IF s.used > budget THEN [rc |-> -2] ELSE [rc |-> 0, q |-> s.q, rem |-> s.rem.out]
WordDivmod(a, b, budget) ==
    IF b = Zero THEN [rc |-> -1]
    ELSE LET Step(s, k) == IF s.used > budget THEN s ELSE DivBit(s, a, b, k)
         IN  WithinBudget(FoldLeft(Step, [q |-> Zero, rem |-> [out |-> Zero, n |-> 0], used |-> 0],
                                   Down(0, HighestBit(a) + 1)), budget)

\* The shift amount is below 2^32: the interpreter truncates it to that.
WordShift(a, bits, left) ==
    LET limb == bits \div LimbBits
        sub == bits % LimbBits
        Left(s, i) ==
            LET high == a[i] \div 2 ^ (LimbBits - sub)
                lowered == [s EXCEPT !.out[i + limb] = @ + ((a[i] * 2 ^ sub) % Base)]
            IN  IF a[i] = 0 THEN s
                ELSE IF i + limb >= Limbs THEN [s EXCEPT !.overflow = TRUE]
                ELSE IF i + limb + 1 < Limbs THEN [lowered EXCEPT !.out[i + limb + 1] = @ + high]
                ELSE [lowered EXCEPT !.overflow = @ \/ high # 0]
        Right(s, i) ==
            LET low == [s EXCEPT !.out[i - limb] = @ + (a[i] \div 2 ^ sub)]
            IN  IF i > limb
                THEN [low EXCEPT !.out[i - limb - 1] = @ + ((a[i] * 2 ^ (LimbBits - sub)) % Base)]
                ELSE low
        none == [out |-> Zero, overflow |-> FALSE]
    IN  IF bits >= Bits THEN [none EXCEPT !.overflow = ActiveLimbs(a) # 0]
        ELSE IF left THEN FoldLeft(Left, none, From(0, Limbs))
        ELSE FoldLeft(Right, none, From(limb, Limbs))
-----------------------------------------------------------------------------
WordInit == computed = [op |-> "none"]
Result(op, a, b, n) == [op |-> op, a |-> a, b |-> b, n |-> n,
                        result |-> CASE op = "add" -> WordAdd(a, b)
                                     [] op = "sub" -> WordSub(a, b)
                                     [] op = "mul" -> WordMul(a, b)
                                     [] op = "divmod" -> WordDivmod(a, b, n)
                                     [] op = "cmp" -> WordCmp(a, b)
                                     [] op = "shl" -> WordShift(a, n, TRUE)
                                     [] op = "shr" -> WordShift(a, n, FALSE)]
Calls == {[op |-> op, b |-> b, n |-> 0] : op \in {"add", "sub", "mul", "cmp"}, b \in Words}
         \union {[op |-> "divmod", b |-> b, n |-> n] : b \in Words, n \in {Bits \div 2, Bits}}
         \union {[op |-> op, b |-> Zero, n |-> n] : op \in {"shl", "shr"}, n \in 0 .. Bits + 1}
Compute == /\ computed.op = "none"
           /\ \E a \in Words, c \in Calls : computed' = Result(c.op, a, c.b, c.n)
-----------------------------------------------------------------------------
Numeral(a) == FoldLeft(LAMBDA v, i : v * Base + a[i], 0, Down(0, Limbs))
Limit == 2 ^ Bits

\* Every operation computes the number it stands for modulo 2^Bits, and reports
\* an overflow, a borrow, a zero divisor or an exhausted budget exactly when
\* there is one (brvm.c, word_add to word_shift).
ArithmeticIsExact ==
    LET c == computed
        r == c.result
        x == Numeral(c.a)
        y == Numeral(c.b)
    IN  CASE c.op = "none" -> TRUE
          [] c.op = "add" -> Numeral(r.out) = (x + y) % Limit /\ (r.carry # 0 <=> x + y >= Limit)
          [] c.op = "sub" -> Numeral(r.out) = (x - y) % Limit /\ (r.carry # 0 <=> x < y)
          [] c.op = "mul" -> Numeral(r.out) = (x * y) % Limit /\ (r.overflow <=> x * y >= Limit)
          [] c.op = "cmp" -> r = IF x = y THEN 0 ELSE IF x < y THEN -1 ELSE 1
          [] c.op = "divmod" ->
                 r.rc = (IF y = 0 THEN -1 ELSE IF x >= 2 ^ c.n THEN -2 ELSE 0)
                 /\ (r.rc = 0 => Numeral(r.q) = x \div y /\ Numeral(r.rem) = x % y)
          [] c.op = "shl" -> /\ Numeral(r.out) = (x * 2 ^ c.n) % Limit
                             /\ r.overflow <=> x * 2 ^ c.n >= Limit
          [] c.op = "shr" -> /\ Numeral(r.out) = x \div 2 ^ c.n
                             /\ r.overflow <=> c.n >= Bits /\ x # 0
=============================================================================
