--------------------------- MODULE AccountProofs ---------------------------
(***************************************************************************)
(* The arithmetic of Decimal never leaves the i128 range: whatever the     *)
(* operands, each operator returns a raw value if its default is one.  An  *)
(* account is left an account by every fill.                               *)
(***************************************************************************)
EXTENDS Account, TLAPS

\* Fits is membership in the raw range.
LEMMA FitsRaw ==
    ASSUME NEW x \in Int
    PROVE  Fits(x) <=> x \in Raw
BY DecimalAssumption DEF Fits, Raw

LEMMA RawInt == Raw \subseteq Int /\ 0 \in Raw
BY DecimalAssumption DEF Raw

\* A quotient of naturals is a natural no larger than the dividend.
LEMMA DivBound ==
    ASSUME NEW x \in Nat, NEW d \in Nat \ {0}
    PROVE  x \div d \in Nat /\ x \div d <= x
<1> DEFINE q == x \div d
           r == x % d
<1>1. /\ q \in Int /\ r \in 0..(d - 1)
      /\ x = d * q + r
  OBVIOUS
<1>2. q >= 0
  <2> SUFFICES ASSUME q <= -1 PROVE FALSE
    BY <1>1
  <2>1. d * q <= d * (-1)
    BY <1>1
  <2> QED BY <1>1, <2>1
<1>3. q <= d * q
  BY <1>1, <1>2
<1> QED BY <1>1, <1>2, <1>3

LEMMA AbsRawInt ==
    ASSUME NEW x \in Int
    PROVE  AbsRaw(x) \in Int
BY DEF Abs, AbsRaw

\* Truncating division does not grow the absolute value.
LEMMA DivTruncBound ==
    ASSUME NEW x \in Int, NEW d \in Nat \ {0}
    PROVE  /\ DivTrunc(x, d) \in Int
           /\ x >= 0 => 0 <= DivTrunc(x, d) /\ DivTrunc(x, d) <= x
           /\ x < 0 => x <= DivTrunc(x, d) /\ DivTrunc(x, d) <= 0
<1>1. CASE x >= 0
  BY <1>1, DivBound DEF DivTrunc
<1>2. CASE x < 0
  <2>1. -x \in Nat
    BY <1>2
  <2>2. (-x) \div d \in Nat /\ (-x) \div d <= -x
    BY <2>1, DivBound
  <2> QED BY <1>2, <2>2 DEF DivTrunc
<1> QED BY <1>1, <1>2

\* Checked addition, subtraction and multiplication followed by unwrap_or.
LEMMA AddOrRaw ==
    ASSUME NEW a \in Int, NEW b \in Int, NEW d \in Raw
    PROVE  AddOr(a, b, d) \in Raw
BY FitsRaw DEF AddOr

LEMMA SubOrRaw ==
    ASSUME NEW a \in Int, NEW b \in Int, NEW d \in Raw
    PROVE  SubOr(a, b, d) \in Raw
BY FitsRaw DEF SubOr

\* Adding to zero and subtracting from itself never overflow.
LEMMA AddOrZero ==
    ASSUME NEW x \in Raw, NEW d
    PROVE  AddOr(0, x, d) = x
BY DecimalAssumption DEF AddOr, Fits, Raw

LEMMA SubOrSelf ==
    ASSUME NEW x \in Raw, NEW d
    PROVE  SubOr(x, x, d) = 0
BY DecimalAssumption DEF SubOr, Fits, Raw

LEMMA MulOrRaw ==
    ASSUME NEW a \in Int, NEW b \in Int, NEW d \in Raw
    PROVE  MulOr(a, b, d) \in Raw
<1> DEFINE p == a * b
<1>1. p \in Int
  OBVIOUS
<1>2. CASE Fits(p)
  <2> DEFINE q == DivTrunc(p, SCALE)
  <2>0. /\ q \in Int
        /\ p >= 0 => 0 <= q /\ q <= p
        /\ p < 0 => p <= q /\ q <= 0
    <3> HIDE DEF p
    <3> QED BY <1>1, DivTruncBound, DecimalAssumption
  <2>1. q \in Int /\ Fits(q)
    <3> HIDE DEF p, q
    <3> QED BY <1>1, <1>2, <2>0, DecimalAssumption DEF Fits
  <2>2. DivTrunc(p, SCALE) \in Raw
    BY <2>1, FitsRaw
  <2> QED BY <1>2, <2>2 DEF MulOr
<1>3. CASE ~Fits(p)
  BY <1>3 DEF MulOr
<1> QED BY <1>2, <1>3

\* Multiplication and division keep the order of naturals.
LEMMA MulMonotone ==
    ASSUME NEW q \in Nat, NEW x \in Int, NEW y \in Int, x <= y
    PROVE  q * x <= q * y
<1> DEFINE z == y - x
<1>1. z \in Nat /\ y = x + z
  OBVIOUS
<1> HIDE DEF z
<1>2. q * z \in Nat
  BY <1>1
<1>3. q * (x + z) = q * x + q * z
  BY <1>1
<1> QED BY <1>1, <1>2, <1>3

LEMMA DivMonotone ==
    ASSUME NEW x \in Nat, NEW y \in Nat, x <= y, NEW d \in Nat \ {0}
    PROVE  x \div d <= y \div d
<1> DEFINE p == x \div d
           q == y \div d
<1>1. /\ p \in Int /\ q \in Int
      /\ x % d \in 0..(d - 1) /\ y % d \in 0..(d - 1)
      /\ x = d * p + (x % d) /\ y = d * q + (y % d)
  OBVIOUS
<1>2. SUFFICES ASSUME q + 1 <= p PROVE FALSE
  BY <1>1
<1>3. d * (q + 1) <= d * p
  BY <1>1, <1>2, MulMonotone
<1>4. d * (q + 1) = d * q + d
  BY <1>1
<1> QED BY <1>1, <1>3, <1>4

\* A quotient is determined by its product and a remainder.
LEMMA DivUnique ==
    ASSUME NEW d \in Nat \ {0}, NEW q \in Int, NEW r \in 0..(d - 1),
           NEW x \in Int, x = d * q + r
    PROVE  x \div d = q /\ x % d = r
<1> DEFINE p == x \div d
           s == x % d
<1>1. p \in Int /\ s \in 0..(d - 1) /\ x = d * p + s
  OBVIOUS
<1> HIDE DEF p, s
<1>2. p <= q
  <2> SUFFICES ASSUME q + 1 <= p PROVE FALSE
    BY <1>1
  <2>1. d * (q + 1) <= d * p
    BY <1>1, MulMonotone
  <2>2. d * (q + 1) = d * q + d
    OBVIOUS
  <2>3. d * q \in Int /\ d * p \in Int
    BY <1>1
  <2> QED BY <1>1, <2>1, <2>2, <2>3
<1>3. q <= p
  <2> SUFFICES ASSUME p + 1 <= q PROVE FALSE
    BY <1>1
  <2>1. d * (p + 1) <= d * q
    BY <1>1, MulMonotone
  <2>2. d * (p + 1) = d * p + d
    BY <1>1
  <2>3. d * q \in Int /\ d * p \in Int
    BY <1>1
  <2> QED BY <1>1, <2>1, <2>2, <2>3
<1>4. p = q /\ s = r
  BY <1>1, <1>2, <1>3
<1> QED BY <1>4 DEF p, s

\* The product of two naturals, scaled back down, is a natural.
LEMMA MulOrNat ==
    ASSUME NEW a \in Nat, NEW b \in Nat
    PROVE  /\ MulOr(a, b, 0) \in Nat
           /\ Fits(a * b) => MulOr(a, b, 0) = (a * b) \div SCALE
<1> DEFINE p == a * b
<1>1. p \in Nat
  OBVIOUS
<1>2. DivTrunc(p, SCALE) = p \div SCALE /\ p \div SCALE \in Nat
  <2> HIDE DEF p
  <2> QED BY <1>1, DivBound, DecimalAssumption DEF DivTrunc
<1> QED BY <1>2 DEF MulOr

\* approx_div parses its result back into a Decimal or falls back to zero.
LEMMA ApproxDivRaw ==
    ASSUME NEW a \in Int, NEW b \in Int
    PROVE  ApproxDiv(a, b) \in Raw
<1>0. 0 \in Raw
  BY DecimalAssumption DEF Raw
<1>1. CASE b = 0
  BY <1>0, <1>1 DEF ApproxDiv
<1>2. CASE b # 0
  <2> DEFINE n == Abs(a) * SCALE
             q == RoundDiv(n, Abs(b))
             signed == IF (a < 0) = (b < 0) THEN q ELSE -q
  <2>1. Abs(a) \in Nat /\ Abs(b) \in Nat \ {0}
    BY <1>2 DEF Abs
  <2>2. n \in Nat
    BY <2>1, DecimalAssumption
  <2>3. n \div Abs(b) \in Nat
    BY <2>1, <2>2, DivBound
  <2>4. q \in Int
    BY <2>3 DEF RoundDiv
  <2>5. signed \in Int
    BY <2>4
  <2>6. Fits(signed) => signed \in Raw
    BY <2>5, FitsRaw
  <2> QED BY <1>0, <2>6 DEF ApproxDiv
<1> QED BY <1>1, <1>2

\* A fill leaves a position a position.
LEMMA SignedFillType ==
    ASSUME NEW pos \in PositionType, NEW signed \in Raw, NEW p \in Raw
    PROVE  SignedFill(pos, signed, p) \in PositionType
<1> DEFINE newQty == AddOr(pos.qty, signed, pos.qty)
           prior  == MulOr(pos.avg, AbsRaw(pos.qty), 0)
           total  == AddOr(prior, MulOr(p, AbsRaw(signed), 0), prior)
<1>0. Raw \subseteq Int /\ 0 \in Raw
  BY RawInt
<1>1. pos.qty \in Raw /\ pos.avg \in Raw
  BY DEF PositionType
<1>2. AbsRaw(pos.qty) \in Int /\ AbsRaw(signed) \in Int
  BY <1>0, <1>1, AbsRawInt
<1>3. newQty \in Raw /\ prior \in Raw /\ MulOr(p, AbsRaw(signed), 0) \in Raw
  BY <1>0, <1>1, <1>2, AddOrRaw, MulOrRaw
<1>4. total \in Raw
  BY <1>0, <1>3, AddOrRaw
<1> HIDE DEF newQty, prior, total
<1>5. AbsRaw(newQty) \in Int
  BY <1>0, <1>3, AbsRawInt
<1>6. ApproxDiv(total, AbsRaw(newQty)) \in Raw
  BY <1>0, <1>4, <1>5, ApproxDivRaw
<1> QED BY <1>0, <1>1, <1>3, <1>6 DEF SignedFill, PositionType, newQty, prior, total

\* A fill leaves an account an account, and its reservation alone.
LEMMA ApplyFillType ==
    ASSUME NEW a \in AccountType, NEW instr \in Instruments, NEW side,
           NEW q \in Raw, NEW p \in Raw
    PROVE  /\ ApplyFill(a, instr, side, q, p) \in AccountType
           /\ ApplyFill(a, instr, side, q, p).reserved = a.reserved
<1> DEFINE notional == MulOr(p, q, 0)
           signed   == IF side \in BuySides THEN q ELSE SubOr(0, q, q)
           cash     == IF side \in BuySides THEN SubOr(a.cash, notional, a.cash)
                                            ELSE AddOr(a.cash, notional, a.cash)
           position == IF a.pos[instr] = None
                       THEN [qty |-> signed, avg |-> p]
                       ELSE SignedFill(a.pos[instr], signed, p)
<1>0. Raw \subseteq Int /\ 0 \in Raw
  BY DecimalAssumption DEF Raw
<1>1. /\ a.cash \in Raw
      /\ a.pos \in [Instruments -> Option(PositionType)]
  BY DEF AccountType
<1>2. notional \in Raw /\ signed \in Raw
  BY <1>0, MulOrRaw, SubOrRaw
<1>3. cash \in Raw
  BY <1>0, <1>1, <1>2, SubOrRaw, AddOrRaw
<1>4. ASSUME NEW pos \in PositionType
      PROVE  SignedFill(pos, signed, p) \in PositionType
  <2> HIDE DEF signed
  <2> QED BY <1>2, SignedFillType
<1>5. position \in PositionType
  <2> HIDE DEF signed
  <2> QED BY <1>1, <1>2, <1>4 DEF Option, PositionType
<1>6. ApplyFill(a, instr, side, q, p) =
          [a EXCEPT !.cash = cash, !.pos[instr] = position]
  BY DEF ApplyFill
<1> HIDE DEF cash, position
<1>7. [a.pos EXCEPT ![instr] = position] \in [Instruments -> Option(PositionType)]
  BY <1>1, <1>5 DEF Option
<1>8. ApplyFill(a, instr, side, q, p) =
          [a EXCEPT !.cash = cash, !.pos = [a.pos EXCEPT ![instr] = position]]
  BY <1>1, <1>6 DEF AccountType
<1> QED BY <1>1, <1>3, <1>7, <1>8 DEF AccountType
=============================================================================
