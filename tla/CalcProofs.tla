----------------------------- MODULE CalcProofs -----------------------------
(***************************************************************************)
(* Proofs about the arithmetic of both calculators, for every width of the *)
(* words: which pairs of operands each validation lets pass, where shifts  *)
(* and rotations put the bits of a word, and that what is computed is what *)
(* the equation means.                                                     *)
(***************************************************************************)
EXTENDS FileCalc, JobLemmas

(* The overflow test of addition lets exactly the sums pass that are words. *)
LEMMA AddRefusesOverflow ==
  ASSUME NEW a \in Word, NEW b \in Word
  PROVE  validate_add_32(a, b) <=> a + b \in Word
BY WidthAssumption DEF validate_add_32, Word, INT_MIN

(* The test of subtraction lets the differences pass that are one more.    *)
LEMMA SubRefusesOneTooFew ==
  ASSUME NEW a \in Word, NEW b \in Word
  PROVE  validate_sub_32(a, b) <=> a - b \in INT_MIN + 1 .. INT_MAX + 1
BY WidthAssumption DEF validate_sub_32, Word, INT_MIN

(* One past the largest word wraps around to the smallest one.             *)
LEMMA WrapPastTheEnd == Wrap(INT_MAX + 1) = INT_MIN
<1>1. INT_MAX + 1 \notin Word /\ INT_MAX \in Nat
  BY WidthAssumption DEF Word, INT_MIN
<1>2. (INT_MAX + 1) % MODULUS = INT_MAX + 1
  <2> DEFINE m == INT_MAX + 1
  <2>1. m \in Nat /\ m > 0 /\ m < 2 * m
    BY <1>1
  <2> HIDE DEF m
  <2>2. m % (2 * m) = m
    BY <2>1, SMT
  <2> QED
    BY <2>2 DEF m, MODULUS
<1> QED
  BY <1>1, <1>2 DEF Wrap, Num, MODULUS, INT_MIN

-----------------------------------------------------------------------------
(* Quotients of natural numbers, the facts all others are derived from.    *)
LEMMA Quotient ==
  ASSUME NEW m \in Nat, NEW n \in Nat, n > 0
  PROVE  /\ m \div n \in Nat
         /\ n * (m \div n) <= m
         /\ m < n * (m \div n) + n
BY SMT

(* Multiplying by a natural number keeps the order.                          *)
LEMMA MultMonotone ==
  ASSUME NEW x \in Nat, NEW y \in Nat, NEW n \in Nat, x <= y
  PROVE  n * x <= n * y
BY SMT

(* A product is at most a bound when one factor is at most the quotient.   *)
LEMMA ProductBound ==
  ASSUME NEW k \in Nat, NEW x \in Nat, NEW n \in Nat, n > 0
  PROVE  n * x <= k <=> x <= k \div n
<1> DEFINE q == k \div n
<1>1. q \in Nat /\ n * q <= k /\ k < n * q + n
  BY Quotient
<1>2. n * x \in Nat /\ n * (q + 1) = n * q + n
  BY <1>1
<1>3. ASSUME x <= q PROVE n * x <= k
  BY <1>1, <1>2, <1>3, MultMonotone
<1>4. ASSUME x >= q + 1 PROVE ~(n * x <= k)
  <2>1. n * (q + 1) <= n * x
    BY <1>1, <1>4, MultMonotone
  <2> QED
    BY <1>1, <1>2, <2>1
<1> QED
  BY <1>1, <1>3, <1>4

(* The sign of a product.                                                    *)
LEMMA ProductSigns ==
  ASSUME NEW x \in Int, NEW y \in Int
  PROVE  /\ x * y \in Int
         /\ x * y = y * x
         /\ (-x) * (-y) = x * y
         /\ (-x) * y = -(x * y)
         /\ x * (-y) = -(x * y)
BY SMT

(* The four tests of multiplication, one for each pair of signs, together  *)
(* let exactly the products pass that are words.                           *)
LEMMA MultRefusesOverflow ==
  ASSUME NEW a \in Word, NEW b \in Word
  PROVE  validate_multi_32(a, b) <=> a * b \in Word
<1>1. INT_MAX \in Nat /\ a \in Int /\ b \in Int
  BY WidthAssumption DEF Word, INT_MIN
<1>2. /\ a * b \in Int
      /\ a * b = b * a
      /\ (-a) * (-b) = a * b
      /\ (-b) * (-a) = a * b
      /\ b * (-a) = -(a * b)
      /\ a * (-b) = -(a * b)
  BY <1>1, ProductSigns
<1>3. CASE a > 0 /\ b > 0
  <2>1. b * a <= INT_MAX <=> a <= INT_MAX \div b
    BY <1>1, <1>3, ProductBound
  <2>2. TruncDiv(INT_MAX, b) = INT_MAX \div b
    BY <1>1, <1>3 DEF TruncDiv, Abs
  <2>3. a * b > 0
    BY <1>1, <1>3, SMT
  <2> QED
    BY <1>1, <1>2, <1>3, <2>1, <2>2, <2>3, Quotient DEF validate_multi_32, Word, INT_MIN
<1>4. CASE a < 0 /\ b < 0
  <2>1. (-b) * (-a) <= INT_MAX <=> -a <= INT_MAX \div (-b)
    BY <1>1, <1>4, ProductBound
  <2>2. TruncDiv(INT_MAX, b) = -(INT_MAX \div (-b))
    BY <1>1, <1>4 DEF TruncDiv, Abs
  <2>3. a * b > 0
    BY <1>1, <1>4, SMT
  <2>4. INT_MAX \div (-b) \in Nat
    BY <1>1, <1>4, Quotient
  <2> QED
    BY <1>1, <1>2, <1>4, <2>1, <2>2, <2>3, <2>4 DEF validate_multi_32, Word, INT_MIN
<1>5. CASE a < 0 /\ b > 0
  <2>1. b * (-a) <= INT_MAX + 1 <=> -a <= (INT_MAX + 1) \div b
    BY <1>1, <1>5, ProductBound
  <2>2. TruncDiv(INT_MIN, b) = -((INT_MAX + 1) \div b)
    BY <1>1, <1>5 DEF TruncDiv, Abs, INT_MIN
  <2>3. a * b < 0
    BY <1>1, <1>5, SMT
  <2>4. (INT_MAX + 1) \div b \in Nat
    BY <1>1, <1>5, Quotient
  <2> QED
    BY <1>1, <1>2, <1>5, <2>1, <2>2, <2>3, <2>4 DEF validate_multi_32, Word, INT_MIN
<1>6. CASE a > 0 /\ b < 0
  <2>1. a * (-b) <= INT_MAX + 1 <=> -b <= (INT_MAX + 1) \div a
    BY <1>1, <1>6, ProductBound
  <2>2. TruncDiv(INT_MIN, a) = -((INT_MAX + 1) \div a)
    BY <1>1, <1>6 DEF TruncDiv, Abs, INT_MIN
  <2>3. a * b < 0
    BY <1>1, <1>6, SMT
  <2>4. (INT_MAX + 1) \div a \in Nat
    BY <1>1, <1>6, Quotient
  <2> QED
    BY <1>1, <1>2, <1>6, <2>1, <2>2, <2>3, <2>4 DEF validate_multi_32, Word, INT_MIN
<1>7. CASE a = 0 \/ b = 0
  <2>1. a * b = 0
    BY <1>1, <1>7, SMT
  <2> QED
    BY <1>1, <1>7, <2>1 DEF validate_multi_32, Word, INT_MIN
<1> QED
  BY <1>1, <1>3, <1>4, <1>5, <1>6, <1>7
-----------------------------------------------------------------------------
(* C's division in terms of natural numbers: the remainder of the absolute *)
(* values, with the sign of the dividend.                                  *)
LEMMA TruncParts ==
  ASSUME NEW a \in Int, NEW b \in Int, b # 0
  PROVE  \E q, r \in Nat :
           /\ Abs(a) = Abs(b) * q + r
           /\ r < Abs(b)
           /\ TruncDiv(a, b) = IF (a < 0) = (b < 0) THEN q ELSE -q
           /\ TruncRem(a, b) = IF a < 0 THEN -r ELSE r
<1>1. Abs(a) \in Nat /\ Abs(b) \in Nat /\ Abs(b) > 0
  BY DEF Abs
<1> DEFINE q == Abs(a) \div Abs(b)
<1>2. q \in Nat /\ Abs(b) * q <= Abs(a) /\ Abs(a) < Abs(b) * q + Abs(b)
  BY <1>1, Quotient
<1>3. Abs(b) * q \in Nat
  BY <1>1, <1>2
<1> DEFINE r == Abs(a) - Abs(b) * q
<1>4. r \in Nat /\ r < Abs(b) /\ Abs(a) = Abs(b) * q + r
  <2> DEFINE p == Abs(b) * q
  <2>1. p \in Nat /\ p <= Abs(a) /\ Abs(a) < p + Abs(b)
    BY <1>2, <1>3
  <2> HIDE DEF p
  <2>2. /\ Abs(a) - p \in Nat
        /\ Abs(a) - p < Abs(b)
        /\ Abs(a) = p + (Abs(a) - p)
    BY <1>1, <2>1
  <2> QED
    BY <2>2 DEF p
<1>5. TruncDiv(a, b) = IF (a < 0) = (b < 0) THEN q ELSE -q
  BY DEF TruncDiv
<1> HIDE DEF q
<1>6. b * TruncDiv(a, b) = IF a < 0 THEN -(Abs(b) * q) ELSE Abs(b) * q
  <2>1. (-b) * q = -(b * q) /\ b * (-q) = -(b * q) /\ b * q \in Int
    BY <1>2, ProductSigns
  <2> QED
    BY <1>5, <2>1 DEF Abs
<1>7. TruncRem(a, b) = IF a < 0 THEN -r ELSE r
  BY <1>2, <1>3, <1>6 DEF TruncRem, Abs
<1> QED
  BY <1>2, <1>4, <1>5, <1>7

(* A multiple leaves no remainder.                                           *)
LEMMA MultipleHasNoRemainder ==
  ASSUME NEW n \in Nat, n > 0, NEW k \in Int
  PROVE  (n * k) % n = 0
BY SMT

(* The cases of Means.                                                     *)
LEMMA MeansByOperator ==
  ASSUME NEW a, NEW b, NEW r
  PROVE  /\ Means(ADD, a, b, r) <=> r = a + b
         /\ Means(MULT, a, b, r) <=> r = a * b
         /\ Means(DIV, a, b, r) <=> /\ b # 0
                                    /\ Abs(a - r * b) < Abs(b)
                                    /\ (a - r * b) * a >= 0
         /\ Means(MOD, a, b, r) <=> /\ b # 0
                                    /\ Abs(r) < Abs(b)
                                    /\ r * a >= 0
                                    /\ (a - r) % Abs(b) = 0
<1>1. ADD # MULT /\ ADD # DIV /\ ADD # MOD /\ MULT # DIV /\ MULT # MOD /\ DIV # MOD
  BY DEF ADD, MULT, DIV, MOD
<1> HIDE DEF ADD, MULT, DIV, MOD
<1> QED
  BY <1>1, Zenon DEF Means

(* Division fails exactly when the truncated quotient is not a word.       *)
LEMMA DivAnswers ==
  ASSUME NEW a \in Word, NEW b \in Word
  PROVE  IF validate_divide_32(a, b)
           THEN TruncDiv(a, b) \in Word /\ Means(DIV, a, b, TruncDiv(a, b))
           ELSE \A r \in Word : ~Means(DIV, a, b, r)
<1>1. /\ INT_MAX \in Nat /\ a \in Int /\ b \in Int
      /\ INT_MIN <= a /\ a <= INT_MAX /\ INT_MIN <= b /\ b <= INT_MAX
      /\ INT_MIN = -INT_MAX - 1
  BY WidthAssumption DEF Word, INT_MIN
<1>2. ASSUME validate_divide_32(a, b)
      PROVE  TruncDiv(a, b) \in Word /\ Means(DIV, a, b, TruncDiv(a, b))
  <2>1. b # 0 /\ ~(a = INT_MIN /\ b = -1)
    BY <1>2 DEF validate_divide_32
  <2>2. PICK q \in Nat, r \in Nat :
           /\ Abs(a) = Abs(b) * q + r
           /\ r < Abs(b)
           /\ TruncDiv(a, b) = IF (a < 0) = (b < 0) THEN q ELSE -q
           /\ TruncRem(a, b) = IF a < 0 THEN -r ELSE r
    BY <1>1, <2>1, TruncParts
  <2>3. TruncDiv(a, b) \in Int /\ a - TruncDiv(a, b) * b = TruncRem(a, b)
    <3>1. TruncDiv(a, b) \in Int
      BY <2>2
    <3>2. TruncDiv(a, b) * b = b * TruncDiv(a, b)
      BY <1>1, <3>1, ProductSigns
    <3> QED
      BY <3>1, <3>2 DEF TruncRem
  <2>4. Abs(TruncRem(a, b)) < Abs(b)
    BY <2>2 DEF Abs
  <2>5. TruncRem(a, b) * a >= 0
    BY <1>1, <2>2, SMT
  <2>6. Abs(b) * q \in Nat /\ q <= Abs(b) * q /\ (Abs(b) >= 2 => 2 * q <= Abs(b) * q)
    <3>1. Abs(b) \in Nat /\ Abs(b) >= 1
      BY <1>1, <2>1 DEF Abs
    <3> DEFINE n == Abs(b)
    <3> HIDE DEF n
    <3>2. n \in Nat /\ n >= 1 /\ q * n = n * q /\ q * n \in Nat
      BY <3>1 DEF n
    <3>3. q * 1 <= q * n /\ (n >= 2 => q * 2 <= q * n)
      BY <3>2, MultMonotone
    <3> QED
      BY <3>2, <3>3 DEF n
  <2>7. TruncDiv(a, b) \in Word
    <3> DEFINE p == Abs(b) * q
    <3>1. Abs(a) = p + r /\ p \in Nat /\ q <= p /\ (Abs(b) >= 2 => 2 * q <= p)
      BY <2>2, <2>6
    <3> HIDE DEF p
    <3> QED
      BY <1>1, <2>1, <2>2, <3>1 DEF Abs, Word
  <2> QED
    BY <2>1, <2>3, <2>4, <2>5, <2>7, MeansByOperator
<1>3. ASSUME ~validate_divide_32(a, b), NEW r \in Word
      PROVE  ~Means(DIV, a, b, r)
  <2>1. b = 0 \/ (a = INT_MIN /\ b = -1)
    BY <1>3 DEF validate_divide_32
  <2>2. CASE b = 0
    BY <2>2, MeansByOperator
  <2>3. CASE a = INT_MIN /\ b = -1
    <3>1. r \in Int /\ r <= INT_MAX /\ a - r * b = INT_MIN + r
      BY <1>1, <2>3 DEF Word
    <3>2. ~(Abs(INT_MIN + r) < Abs(b))
      BY <1>1, <2>3, <3>1 DEF Abs
    <3>3. ~(Abs(a - r * b) < Abs(b))
      BY <3>1, <3>2
    <3> QED
      BY <3>3, MeansByOperator
  <2> QED
    BY <2>1, <2>2, <2>3
<1> QED
  BY <1>2, <1>3

(* The remainder by the absolute value of the divisor is the remainder by  *)
(* the divisor, and abs(INT_MIN), which is INT_MIN, does no harm.          *)
LEMMA ModAnswers ==
  ASSUME NEW a \in Word, NEW b \in Word
  PROVE  IF b # 0
           THEN /\ TruncRem(a, Wrap(Abs(b))) \in Word
                /\ Means(MOD, a, b, TruncRem(a, Wrap(Abs(b))))
           ELSE \A r \in Word : ~Means(MOD, a, b, r)
<1>1. /\ INT_MAX \in Nat /\ a \in Int /\ b \in Int
      /\ INT_MIN <= a /\ a <= INT_MAX /\ INT_MIN <= b /\ b <= INT_MAX
      /\ INT_MIN = -INT_MAX - 1
  BY WidthAssumption DEF Word, INT_MIN
<1>2. ASSUME b # 0
      PROVE  /\ TruncRem(a, Wrap(Abs(b))) \in Word
             /\ Means(MOD, a, b, TruncRem(a, Wrap(Abs(b))))
  <2> DEFINE c == Wrap(Abs(b))
  <2>1. c \in Int /\ c # 0 /\ Abs(c) = Abs(b)
    <3>1. CASE b = INT_MIN
      <4>1. Abs(b) = INT_MAX + 1
        BY <1>1, <3>1 DEF Abs
      <4>2. c = INT_MIN
        BY <4>1, WrapPastTheEnd
      <4> QED
        BY <1>1, <3>1, <4>2
    <3>2. CASE b # INT_MIN
      <4>1. Abs(b) \in Word
        BY <1>1, <3>2 DEF Abs, Word
      <4>2. c = Abs(b)
        BY <4>1 DEF Wrap
      <4> QED
        BY <1>1, <1>2, <4>2 DEF Abs
    <3> QED
      BY <3>1, <3>2
  <2> HIDE DEF c
  <2>2. PICK q \in Nat, r \in Nat :
           /\ Abs(a) = Abs(c) * q + r
           /\ r < Abs(c)
           /\ TruncDiv(a, c) = IF (a < 0) = (c < 0) THEN q ELSE -q
           /\ TruncRem(a, c) = IF a < 0 THEN -r ELSE r
    BY <1>1, <2>1, TruncParts
  <2>3. Abs(TruncRem(a, c)) < Abs(b) /\ TruncRem(a, c) \in Word
    BY <1>1, <2>1, <2>2 DEF Abs, Word
  <2>4. TruncRem(a, c) * a >= 0
    BY <1>1, <2>2, SMT
  <2>5. (a - TruncRem(a, c)) % Abs(b) = 0
    <3> DEFINE n == Abs(b)
               k == IF a < 0 THEN -q ELSE q
    <3>1. n \in Nat /\ n > 0 /\ k \in Int
      BY <1>1, <1>2 DEF Abs
    <3>2. n * q \in Int /\ n * (-q) = -(n * q)
      BY <3>1, ProductSigns
    <3>3. Abs(a) = n * q + r
      BY <2>1, <2>2
    <3> HIDE DEF n
    <3>4. a - TruncRem(a, c) = n * k
      BY <1>1, <2>2, <3>2, <3>3 DEF Abs
    <3>5. (n * k) % n = 0
      BY <3>1, MultipleHasNoRemainder
    <3> QED
      BY <3>4, <3>5 DEF n
  <2> QED
    BY <1>2, <2>3, <2>4, <2>5, MeansByOperator DEF c
<1>3. ASSUME b = 0, NEW r \in Word
      PROVE  ~Means(MOD, a, b, r)
  BY <1>3, MeansByOperator
<1> QED
  BY <1>2, <1>3
-----------------------------------------------------------------------------
(* The byte of an operator as set_math_func sees it.                       *)
LEMMA OperatorByte ==
  ASSUME NEW e \in Equation
  PROVE  /\ e.operator >= 0 => rep_op(e) = e.operator
         /\ e.operator < 0 => rep_op(e) \in 128 .. 255
         /\ e.operator \in Int
BY DEF Equation, Int8, rep_op

(* The functions that set_math_func selects.                               *)
LEMMA FunctionsByOperator ==
  ASSUME NEW a, NEW b
  PROVE  /\ set_math_func(ADD, a, b) = add_func_32(a, b)
         /\ set_math_func(SUB, a, b) = sub_func_32(a, b)
         /\ set_math_func(MULT, a, b) = mult_func_32(a, b)
         /\ set_math_func(DIV, a, b) = div_func_32(a, b)
         /\ set_math_func(MOD, a, b) = mod_func_32(a, b)
         /\ \A op \in SHL .. ROR : set_math_func(op, a, b).err = 0
         /\ \A op \in Int : op \notin ADD .. ROR => set_math_func(op, a, b) = Failure
<1> USE DEF ADD, SUB, MULT, DIV, MOD, SHL, SHR, AND, OR, XOR, ROL, ROR
<1>1. /\ set_math_func(ADD, a, b) = add_func_32(a, b)
      /\ set_math_func(SUB, a, b) = sub_func_32(a, b)
      /\ set_math_func(MULT, a, b) = mult_func_32(a, b)
      /\ set_math_func(DIV, a, b) = div_func_32(a, b)
      /\ set_math_func(MOD, a, b) = mod_func_32(a, b)
  BY DEF set_math_func, add_func, sub_func, mult_func, div_func, mod_func
<1>2. ASSUME NEW op \in SHL .. ROR PROVE set_math_func(op, a, b).err = 0
  <2>1. /\ shift_l_func(a, b).err = 0 /\ shift_r_func(a, b).err = 0
        /\ and_func(a, b).err = 0 /\ or_func(a, b).err = 0
        /\ xor_func(a, b).err = 0
        /\ rotate_l_func(a, b).err = 0 /\ rotate_r_func(a, b).err = 0
    BY DEF shift_l_func, shift_r_func, and_func, or_func, xor_func,
           rotate_l_func, rotate_r_func, shift_l_func_32, shift_r_func_32,
           and_func_32, or_func_32, xor_func_32, rotate_l_func_32,
           rotate_r_func_32, Success
  <2>2. op \in {6, 7, 8, 9, 10, 11, 12}
    OBVIOUS
  <2> QED
    BY <2>1, <2>2 DEF set_math_func
<1>3. ASSUME NEW op \in Int, op \notin ADD .. ROR
      PROVE  set_math_func(op, a, b) = Failure
  BY <1>3 DEF set_math_func
<1> QED
  BY <1>1, <1>2, <1>3

\* The equations that solve_func solves: the solvable ones, but for the two
\* differences that it misjudges.
Solves(e) == IF Misjudged(e) THEN ~Solvable(e) ELSE Solvable(e)

(* solve_func solves those, and no others.                                 *)
LEMMA SolvesTheSolvable ==
  ASSUME NEW e \in Equation
  PROVE  solve_func(e).err = 0 <=> Solves(e)
<1> DEFINE a == e.num1
           b == e.num2
<1> USE DEF Success, Failure
<1>1. a \in Word /\ b \in Word /\ e.operator \in Int
  BY OperatorByte DEF Equation
<1>2. solve_func(e) = set_math_func(rep_op(e), a, b)
  BY DEF solve_func
<1>3. /\ e.operator >= 0 => rep_op(e) = e.operator
      /\ e.operator < 0 => rep_op(e) \in 128 .. 255
  BY OperatorByte
<1>4. /\ INT_MAX \in Nat /\ a \in Int /\ b \in Int
      /\ INT_MIN = -INT_MAX - 1
  BY <1>1, WidthAssumption DEF Word, INT_MIN
<1>a. e.operator # SUB => (Solves(e) <=> Solvable(e))
  BY DEF Solves, Misjudged, TooLarge
<1>5. CASE e.operator = ADD
  <2>1. Solves(e) <=> a + b \in Word
    BY <1>a, <1>5, MeansByOperator DEF Solvable, ADD, SUB, SHL, ROR
  <2>2. solve_func(e) = add_func_32(a, b)
    BY <1>2, <1>3, <1>5, FunctionsByOperator DEF ADD
  <2> QED
    BY <1>1, <2>1, <2>2, AddRefusesOverflow DEF add_func_32
<1>6. CASE e.operator = MULT
  <2>1. Solves(e) <=> a * b \in Word
    BY <1>a, <1>6, MeansByOperator DEF Solvable, MULT, SUB, SHL, ROR
  <2>2. solve_func(e) = mult_func_32(a, b)
    BY <1>2, <1>3, <1>6, FunctionsByOperator DEF MULT
  <2> QED
    BY <1>1, <2>1, <2>2, MultRefusesOverflow DEF mult_func_32
<1>7. CASE e.operator = DIV
  <2>1. Solves(e) <=> \E r \in Word : Means(DIV, a, b, r)
    BY <1>a, <1>7 DEF Solvable, DIV, SUB, SHL, ROR
  <2>2. solve_func(e) = div_func_32(a, b)
    BY <1>2, <1>3, <1>7, FunctionsByOperator DEF DIV
  <2> QED
    BY <1>1, <2>1, <2>2, DivAnswers DEF div_func_32
<1>8. CASE e.operator = MOD
  <2>1. Solves(e) <=> \E r \in Word : Means(MOD, a, b, r)
    BY <1>a, <1>8 DEF Solvable, MOD, SUB, SHL, ROR
  <2>2. solve_func(e) = mod_func_32(a, b)
    BY <1>2, <1>3, <1>8, FunctionsByOperator DEF MOD
  <2> QED
    <3>1. CASE b = 0
      <4>1. \A r \in Word : ~Means(MOD, a, b, r)
        BY <3>1, MeansByOperator
      <4>2. solve_func(e).err = -1
        BY <2>2, <3>1 DEF mod_func_32
      <4> QED
        BY <2>1, <4>1, <4>2
    <3>2. CASE b # 0
      <4>1. /\ TruncRem(a, Wrap(Abs(b))) \in Word
            /\ Means(MOD, a, b, TruncRem(a, Wrap(Abs(b))))
        BY <1>1, <3>2, ModAnswers
      <4>2. solve_func(e).err = 0
        BY <2>2, <3>2 DEF mod_func_32
      <4> QED
        BY <2>1, <4>1, <4>2
    <3> QED
      BY <3>1, <3>2
<1>9. CASE e.operator = SUB
  <2>1. Solves(e) <=> a - b \in INT_MIN + 1 .. INT_MAX + 1
    <3>1. Solvable(e) <=> a - b \in INT_MIN .. INT_MAX
      BY <1>9 DEF Solvable, Word, ADD, MULT, DIV, MOD, SUB, SHL, ROR
    <3>2. Misjudged(e) <=> a - b = INT_MAX + 1 \/ a - b = INT_MIN
      BY <1>9 DEF Misjudged, TooLarge
    <3> DEFINE d == a - b
    <3>3. d \in Int
      BY <1>4
    <3> HIDE DEF d
    <3>4. Solves(e) <=> d \in INT_MIN + 1 .. INT_MAX + 1
      BY <1>4, <3>1, <3>2, <3>3 DEF Solves, d
    <3> QED
      BY <3>4 DEF d
  <2>2. solve_func(e) = sub_func_32(a, b)
    BY <1>2, <1>3, <1>9, FunctionsByOperator DEF SUB
  <2> QED
    BY <1>1, <2>1, <2>2, SubRefusesOneTooFew DEF sub_func_32
<1>10. CASE e.operator \in SHL .. ROR
  BY <1>a, <1>2, <1>3, <1>10, FunctionsByOperator DEF Solvable, SUB, SHL, ROR
<1>11. CASE e.operator \notin ADD .. ROR
  <2>1. ~Solves(e)
    BY <1>a, <1>11 DEF Solvable, ADD, SUB, MULT, DIV, MOD, SHL, ROR
  <2>2. rep_op(e) \in Int /\ rep_op(e) \notin ADD .. ROR
    BY <1>1, <1>3, <1>11 DEF ADD, ROR
  <2> QED
    BY <1>2, <2>1, <2>2, FunctionsByOperator
<1> QED
  BY <1>1, <1>5, <1>6, <1>7, <1>8, <1>9, <1>10, <1>11
     DEF ADD, SUB, MULT, DIV, MOD, SHL, ROR
-----------------------------------------------------------------------------
(* The powers of two up to the n-th.                                       *)
IsPowers(h, n) == /\ h \in [0 .. n -> Nat]
                  /\ h[0] = 1
                  /\ \A i \in 1 .. n : h[i] = 2 * h[i - 1]

(* There are such powers up to every n, each from those before it.           *)
LEMMA PowersExist ==
  ASSUME NEW n \in Nat
  PROVE  \E h : IsPowers(h, n)
<1> DEFINE T == {m \in Nat : ~\E h : IsPowers(h, m)}
<1> SUFFICES ASSUME T # {} PROVE FALSE
  OBVIOUS
<1>1. PICK m \in T : \A k \in T : m <= k
  BY NonEmptyHasSmallest
<1>2. CASE m = 0
  <2>1. IsPowers([i \in 0 .. 0 |-> 1], 0)
    BY DEF IsPowers
  <2> QED
    BY <1>1, <1>2, <2>1
<1>3. CASE m > 0
  <2>1. m - 1 \in Nat /\ m - 1 \notin T /\ m \in Nat
    BY <1>1, <1>3
  <2>2. PICK h : IsPowers(h, m - 1)
    BY <2>1
  <2> DEFINE g == [i \in 0 .. m |-> IF i = m THEN 2 * h[m - 1] ELSE h[i]]
  <2>3. g \in [0 .. m -> Nat] /\ g[0] = 1
    BY <1>3, <2>1, <2>2 DEF IsPowers
  <2>4. ASSUME NEW i \in 1 .. m PROVE g[i] = 2 * g[i - 1]
    <3>1. i - 1 \in 0 .. m /\ i - 1 # m /\ g[i - 1] = h[i - 1]
      BY <1>3, <2>1
    <3>2. CASE i = m
      BY <3>1, <3>2
    <3>3. CASE i # m
      <4>1. i \in 1 .. m - 1 /\ g[i] = h[i]
        BY <2>1, <3>3
      <4>2. h[i] = 2 * h[i - 1]
        BY <2>2, <4>1 DEF IsPowers
      <4> QED
        BY <3>1, <4>1, <4>2
    <3> QED
      BY <3>2, <3>3
  <2>5. IsPowers(g, m)
    BY <2>3, <2>4 DEF IsPowers
  <2> QED
    BY <1>1, <2>5
<1> QED
  BY <1>1, <1>2, <1>3

(* Two lists of powers agree as far as both go.                              *)
LEMMA PowersAgree ==
  ASSUME NEW n \in Nat, NEW h, IsPowers(h, n), NEW m \in Nat, NEW g, IsPowers(g, m),
         NEW i \in Nat, i <= n, i <= m
  PROVE  h[i] = g[i]
<1> DEFINE T == {k \in Nat : k <= n /\ k <= m /\ h[k] # g[k]}
<1> SUFFICES ASSUME T # {} PROVE FALSE
  OBVIOUS
<1>1. PICK k \in T : \A j \in T : k <= j
  BY NonEmptyHasSmallest
<1>2. k > 0
  BY <1>1 DEF IsPowers
<1>3. k - 1 \in Nat /\ h[k - 1] = g[k - 1] /\ k \in 1 .. n /\ k \in 1 .. m
  BY <1>1, <1>2
<1> QED
  BY <1>1, <1>3 DEF IsPowers

(* The function is what its definition says.                               *)
LEMMA Pow2Def ==
  /\ Pow2 \in [Nat -> Nat]
  /\ Pow2[0] = 1
  /\ \A n \in Nat : Pow2[n + 1] = 2 * Pow2[n]
<1> DEFINE h(n) == CHOOSE f : IsPowers(f, n)
           P == [n \in Nat |-> h(n)[n]]
<1>1. \A n \in Nat : IsPowers(h(n), n)
  BY PowersExist
<1> HIDE DEF h
<1>2. P \in [Nat -> Nat]
  BY <1>1 DEF IsPowers
<1>3. P[0] = 1
  BY <1>1 DEF IsPowers
<1>4. ASSUME NEW n \in Nat, n # 0 PROVE P[n] = 2 * P[n - 1]
  <2>1. n - 1 \in Nat /\ n \in 1 .. n /\ IsPowers(h(n), n) /\ IsPowers(h(n - 1), n - 1)
    BY <1>1, <1>4
  <2>2. h(n)[n - 1] = h(n - 1)[n - 1]
    BY <2>1, PowersAgree
  <2>3. h(n)[n] = 2 * h(n)[n - 1]
    BY <2>1 DEF IsPowers
  <2> QED
    BY <2>1, <2>2, <2>3
<1> HIDE DEF P
<1>5. P = [n \in Nat |-> IF n = 0 THEN 1 ELSE 2 * P[n - 1]]
  BY <1>2, <1>3, <1>4
<1>6. Pow2 = [n \in Nat |-> IF n = 0 THEN 1 ELSE 2 * Pow2[n - 1]]
  BY <1>5 DEF Pow2
<1>7. ASSUME NEW n \in Nat PROVE Pow2[n + 1] = 2 * Pow2[n]
  BY <1>6
<1>8. Pow2[0] = 1 /\ DOMAIN Pow2 = Nat
  BY <1>6
<1>9. \A n \in Nat : Pow2[n] \in Nat
  <2> DEFINE T == {n \in Nat : Pow2[n] \notin Nat}
  <2> SUFFICES ASSUME T # {} PROVE FALSE
    OBVIOUS
  <2>1. PICK k \in T : \A j \in T : k <= j
    BY NonEmptyHasSmallest
  <2>2. k > 0 /\ k - 1 \in Nat
    BY <1>8, <2>1
  <2>3. Pow2[k - 1] \in Nat
    BY <2>1, <2>2
  <2>4. Pow2[(k - 1) + 1] = 2 * Pow2[k - 1]
    BY <1>7, <2>2
  <2> QED
    BY <2>1, <2>2, <2>3, <2>4
<1> QED
  BY <1>6, <1>7, <1>8, <1>9
-----------------------------------------------------------------------------
(* Quotient and remainder, and that there are no others.                   *)
LEMMA DivMod ==
  ASSUME NEW x \in Int, NEW n \in Nat, n > 0
  PROVE  /\ x \div n \in Int /\ x % n \in 0 .. n - 1
         /\ x = n * (x \div n) + (x % n)
BY SMT

(* A quotient and a remainder that fit are the quotient and the remainder.   *)
LEMMA DivModUnique ==
  ASSUME NEW n \in Nat, n > 0, NEW q \in Int, NEW r \in 0 .. n - 1
  PROVE  /\ (n * q + r) \div n = q
         /\ (n * q + r) % n = r
<1>1. n * q \in Int
  BY SMT
<1> PICK x \in Int : x = n * q + r
  BY <1>1
<1> PICK p \in Int : p = x \div n
  BY DivMod
<1> PICK s \in 0 .. n - 1 : s = x % n
  BY DivMod
<1>2. p \in Int /\ s \in 0 .. n - 1 /\ x = n * p + s
  BY DivMod
<1>3. n * p \in Int /\ n * (p + 1) = n * p + n /\ n * (q + 1) = n * q + n
  BY <1>2, SMT
<1>4. n * q + r = n * p + s
  BY <1>2
<1>5. ~(p >= q + 1)
  <2> SUFFICES ASSUME p >= q + 1 PROVE FALSE
    OBVIOUS
  <2>1. n * (q + 1) <= n * p
    BY <1>2, SMT
  <2> QED
    BY <1>1, <1>2, <1>3, <1>4, <2>1
<1>6. ~(q >= p + 1)
  <2> SUFFICES ASSUME q >= p + 1 PROVE FALSE
    OBVIOUS
  <2>1. n * (p + 1) <= n * q
    BY <1>2, SMT
  <2> QED
    BY <1>1, <1>2, <1>3, <1>4, <2>1
<1>7. p = q
  BY <1>2, <1>5, <1>6
<1>8. s = r
  BY <1>1, <1>2, <1>4, <1>7
<1> QED
  BY <1>7, <1>8

(* What the proofs below need of products, which the provers treat alone.    *)
LEMMA Products ==
  ASSUME NEW a \in Int, NEW b \in Int, NEW c \in Int
  PROVE  /\ a * b \in Int /\ a * b = b * a
         /\ a * (b * c) = (a * b) * c
         /\ a * (b + c) = a * b + a * c
         /\ a \in Nat /\ b \in Nat => a * b \in Nat
         /\ a > 0 /\ b > 0 => a * b > 0
BY SMT

(* Dividing twice is dividing by the product.                              *)
LEMMA DivDiv ==
  ASSUME NEW x \in Int, NEW a \in Nat, a > 0, NEW b \in Nat, b > 0
  PROVE  (x \div a) \div b = x \div (a * b)
<1> PICK q \in Int : q = x \div a
  BY DivMod
<1> PICK p \in Int : p = q \div b
  BY DivMod
<1> PICK r \in 0 .. a - 1 : x = a * q + r
  BY DivMod
<1> PICK s \in 0 .. b - 1 : q = b * p + s
  BY DivMod
<1>1. a * b \in Nat /\ a * b > 0 /\ a * s \in Int /\ b * p \in Int
  BY Products
<1>2. x = (a * b) * p + (a * s + r)
  <2>1. a * q = a * (b * p) + a * s
    BY <1>1, Products
  <2>2. a * (b * p) = (a * b) * p /\ (a * b) * p \in Int
    BY <1>1, Products
  <2> QED
    BY <1>1, <2>1, <2>2
<1>3. a * s + r \in 0 .. a * b - 1
  <2>1. a * (b - 1) = a * b - a
    BY SMT
  <2>2. a * s <= a * (b - 1) /\ a * s >= 0
    BY SMT
  <2> QED
    BY <1>1, <2>1, <2>2
<1>4. x \div (a * b) = p
  BY <1>1, <1>2, <1>3, DivModUnique
<1> QED
  BY <1>4

(* The quotient of a remainder is the remainder of the quotient.           *)
LEMMA ModThenDiv ==
  ASSUME NEW x \in Int, NEW a \in Nat, a > 0, NEW b \in Nat, b > 0
  PROVE  (x % (a * b)) \div a = (x \div a) % b
<1> PICK q \in Int : q = x \div a
  BY DivMod
<1> PICK p \in Int : p = q \div b
  BY DivMod
<1> PICK r \in 0 .. a - 1 : x = a * q + r
  BY DivMod
<1> PICK s \in 0 .. b - 1 : q = b * p + s /\ s = q % b
  BY DivMod
<1>1. a * b \in Nat /\ a * b > 0 /\ a * s \in Int /\ b * p \in Int
  BY Products
<1>2. x = (a * b) * p + (a * s + r)
  <2>1. a * q = a * (b * p) + a * s
    BY <1>1, Products
  <2>2. a * (b * p) = (a * b) * p /\ (a * b) * p \in Int
    BY <1>1, Products
  <2> QED
    BY <1>1, <2>1, <2>2
<1>3. a * s + r \in 0 .. a * b - 1
  <2>1. a * (b - 1) = a * b - a
    BY SMT
  <2>2. a * s <= a * (b - 1) /\ a * s >= 0
    BY SMT
  <2> QED
    BY <1>1, <2>1, <2>2
<1>4. x % (a * b) = a * s + r
  <2> PICK m \in Nat, t \in Int : m = a * b /\ t = a * s + r
    BY <1>1
  <2>1. m > 0 /\ t \in 0 .. m - 1 /\ x = m * p + t
    BY <1>1, <1>2, <1>3
  <2>2. (m * p + t) % m = t
    BY <2>1, DivModUnique
  <2> QED
    BY <2>1, <2>2
<1>5. (a * s + r) \div a = s
  BY DivModUnique
<1> QED
  BY <1>4, <1>5

(* Reducing modulo a multiple first changes no remainder.                    *)
LEMMA ModMod ==
  ASSUME NEW x \in Int, NEW a \in Nat, a > 0, NEW b \in Nat, b > 0
  PROVE  (x % (a * b)) % a = x % a
<1> DEFINE r == x % (a * b)
           p == x \div (a * b)
           q == r \div a
           s == r % a
<1>1. a * b \in Nat /\ a * b > 0
  BY Products
<1>2. p \in Int /\ r \in Int /\ x = (a * b) * p + r
  BY <1>1, DivMod
<1>3. q \in Int /\ s \in 0 .. a - 1 /\ r = a * q + s
  BY <1>2, DivMod
<1> HIDE DEF p, r, q, s
<1>4. (a * b) * p = a * (b * p) /\ b * p \in Int
  BY <1>2, Products
<1>5. ASSUME NEW t \in Int, (a * b) * p = a * t
      PROVE  x % a = s
  <2>1. a * t \in Int /\ a * q \in Int /\ a * (t + q) = a * t + a * q
    BY <1>3, <1>5, Products
  <2>2. x = a * t + (a * q + s)
    BY <1>2, <1>3, <1>5, Zenon
  <2>3. x = a * (t + q) + s
    BY <1>3, <2>1, <2>2
  <2>4. (a * (t + q) + s) % a = s
    BY <1>3, DivModUnique
  <2> QED
    BY <2>3, <2>4
<1>6. x % a = s
  BY <1>4, <1>5
<1> QED
  BY <1>6 DEF s, r
-----------------------------------------------------------------------------
(* Every power of two is positive.                                           *)
LEMMA PowerPositive ==
  ASSUME NEW n \in Nat
  PROVE  Pow2[n] \in Nat /\ Pow2[n] > 0
<1> DEFINE T == {k \in Nat : ~(Pow2[k] > 0)}
<1>1. ASSUME T # {} PROVE FALSE
  <2>1. PICK k \in T : \A j \in T : k <= j
    BY <1>1, NonEmptyHasSmallest
  <2>2. k # 0 /\ k - 1 \in Nat /\ k - 1 \notin T
    BY <2>1, Pow2Def
  <2>3. Pow2[(k - 1) + 1] = 2 * Pow2[k - 1] /\ Pow2[k - 1] \in Nat
    BY <2>2, Pow2Def
  <2> QED
    BY <2>1, <2>2, <2>3
<1> QED
  BY <1>1, Pow2Def

(* Exponents are added when powers are multiplied.                           *)
LEMMA PowerOfSum ==
  ASSUME NEW m \in Nat, NEW n \in Nat
  PROVE  Pow2[m + n] = Pow2[m] * Pow2[n]
<1> DEFINE T == {k \in Nat : Pow2[m + k] # Pow2[m] * Pow2[k]}
<1>1. ASSUME T # {} PROVE FALSE
  <2>1. PICK k \in T : \A j \in T : k <= j
    BY <1>1, NonEmptyHasSmallest
  <2>2. Pow2[m] \in Nat /\ Pow2[m] * 1 = Pow2[m] /\ m + 0 = m
    BY Pow2Def
  <2>3. k # 0
    BY <2>1, <2>2, Pow2Def
  <2>7. k - 1 \in Nat /\ k - 1 \notin T
    BY <2>1, <2>3
  <2> PICK j \in Nat : j = k - 1 /\ j \notin T
    BY <2>7
  <2>4. /\ Pow2[j + 1] = 2 * Pow2[j] /\ Pow2[j] \in Nat
        /\ Pow2[(m + j) + 1] = 2 * Pow2[m + j]
        /\ Pow2[m + j] = Pow2[m] * Pow2[j]
    BY <2>3, Pow2Def
  <2>5. Pow2[m] * (2 * Pow2[j]) = 2 * (Pow2[m] * Pow2[j])
    <3>1. ASSUME NEW a \in Nat, NEW b \in Nat
          PROVE  a * (2 * b) = 2 * (a * b)
      BY SMT
    <3> QED
      BY <2>2, <2>4, <3>1
  <2>6. k = j + 1 /\ m + k = (m + j) + 1
    OBVIOUS
  <2> QED
    BY <2>1, <2>4, <2>5, <2>6
<1> QED
  BY <1>1

(* Whether the i-th bit of u is 1.                                         *)
Bit(u, i) == (u \div Pow2[i]) % 2 = 1

(* The set of CalcOps in these terms.                                        *)
LEMMA BitsAreBits == \A u : Bits(u) = {i \in 0 .. NUM_BITS - 1 : Bit(u, i)}
BY DEF Bits, Bit

(* The bits below n are those of the remainder.                            *)
LEMMA BitOfMod ==
  ASSUME NEW u \in Nat, NEW n \in Nat, NEW i \in Nat, i < n
  PROVE  Bit(u % Pow2[n], i) <=> Bit(u, i)
<1>1. PICK j \in Nat : n = i + (j + 1)
  <2>1. n - i - 1 \in Nat /\ n = i + ((n - i - 1) + 1)
    OBVIOUS
  <2> QED
    BY <2>1
<1> DEFINE a == Pow2[i]
           c == Pow2[j + 1]
<1>2. a \in Nat /\ a > 0 /\ c \in Nat /\ c > 0 /\ c = 2 * Pow2[j]
  BY <1>1, PowerPositive, Pow2Def
<1>3. Pow2[j] \in Nat /\ Pow2[j] > 0
  BY <1>1, PowerPositive
<1>4. Pow2[n] = a * c
  BY <1>1, PowerOfSum
<1> HIDE DEF a, c
<1>9. u \in Int /\ 2 \in Nat /\ 2 > 0
  OBVIOUS
<1>5. (u % (a * c)) \div a = (u \div a) % c
  BY <1>2, <1>9, ModThenDiv, Zenon
<1>6. u \div a \in Int
  BY <1>2, DivMod
<1>7. ((u \div a) % (2 * Pow2[j])) % 2 = (u \div a) % 2
  BY <1>3, <1>6, <1>9, ModMod, Zenon
<1>8. ((u % Pow2[n]) \div a) % 2 = (u \div a) % 2
  BY <1>2, <1>4, <1>5, <1>7, Zenon
<1> QED
  BY <1>8 DEF Bit, a

(* Dividing by a power of two moves the bits down.                           *)
LEMMA BitOfQuotient ==
  ASSUME NEW u \in Nat, NEW n \in Nat, NEW i \in Nat
  PROVE  Bit(u \div Pow2[n], i) <=> Bit(u, i + n)
<1> PICK a \in Nat, b \in Nat : a = Pow2[n] /\ b = Pow2[i] /\ a > 0 /\ b > 0
  BY PowerPositive
<1>1. Pow2[i + n] = a * b
  BY PowerOfSum, Products
<1>2. (u \div a) \div b = u \div (a * b)
  BY DivDiv
<1> QED
  BY <1>1, <1>2 DEF Bit

(* Multiplying by one moves them up, and 0 comes in.                         *)
LEMMA BitOfProduct ==
  ASSUME NEW u \in Nat, NEW n \in Nat, NEW i \in Nat
  PROVE  Bit(u * Pow2[n], i) <=> i >= n /\ Bit(u, i - n)
<1>1. CASE i >= n
  <2> PICK j \in Nat : j = i - n /\ i = n + j
    BY <1>1
  <2> PICK a \in Nat, b \in Nat : a = Pow2[n] /\ b = Pow2[j] /\ a > 0 /\ b > 0
    BY PowerPositive
  <2>1. Pow2[i] = a * b
    BY PowerOfSum
  <2>2. u * a \in Int /\ (u * a) \div a = u
    <3>1. u * a = a * u + 0 /\ u * a \in Int
      BY Products
    <3> QED
      BY <3>1, DivModUnique
  <2>3. (u * a) \div (a * b) = u \div b
    BY <2>2, DivDiv
  <2> QED
    BY <1>1, <2>1, <2>3 DEF Bit
<1>2. CASE i < n
  <2> PICK j \in Nat : n = i + (j + 1)
    <3>1. n - i - 1 \in Nat /\ n = i + ((n - i - 1) + 1)
      BY <1>2
    <3> QED
      BY <3>1
  <2> PICK a \in Nat, b \in Nat : a = Pow2[i] /\ b = Pow2[j] /\ a > 0 /\ b > 0
    BY PowerPositive
  <2>1. Pow2[n] = a * (2 * b)
    BY PowerOfSum, Pow2Def
  <2>2. u * (a * (2 * b)) = a * (2 * (u * b)) + 0 /\ u * b \in Int
    BY SMT
  <2>3. (u * (a * (2 * b))) \div a = 2 * (u * b)
    <3> PICK v \in Int : v = 2 * (u * b)
      BY <2>2
    <3>1. (a * v + 0) \div a = v
      BY DivModUnique
    <3> QED
      BY <2>2, <3>1
  <2>4. (2 * (u * b)) % 2 = 0
    BY <2>2
  <2> QED
    BY <1>2, <2>1, <2>3, <2>4 DEF Bit
<1> QED
  BY <1>1, <1>2

(* A number below the n-th power has no 1 bit from n on.                     *)
LEMMA NoBitAbove ==
  ASSUME NEW n \in Nat, NEW u \in 0 .. Pow2[n] - 1, NEW i \in Nat, i >= n
  PROVE  ~Bit(u, i)
<1> PICK j \in Nat : i = n + j
  <2>1. i - n \in Nat /\ i = n + (i - n)
    OBVIOUS
  <2> QED
    BY <2>1
<1> PICK a \in Nat, b \in Nat : a = Pow2[n] /\ b = Pow2[j] /\ a > 0 /\ b > 0
  BY PowerPositive
<1>1. Pow2[i] = a * b /\ a * b \in Nat /\ a <= a * b
  <2>1. a * b \in Nat /\ a <= a * b
    BY SMT
  <2> QED
    BY <2>1, PowerOfSum
<1> PICK c \in Nat : c = Pow2[i] /\ a <= c
  BY <1>1
<1>2. u \in 0 .. c - 1 /\ c > 0
  OBVIOUS
<1>3. (c * 0 + u) \div c = 0
  BY <1>2, DivModUnique
<1>4. c * 0 + u = u
  BY <1>2
<1> QED
  BY <1>3, <1>4 DEF Bit

(* Every set of positions below n is that of the 1 bits of a number.       *)
LEMMA NumberOfBits ==
  ASSUME NEW n \in Nat, NEW B \in SUBSET (0 .. n - 1)
  PROVE  \E u \in 0 .. Pow2[n] - 1 : \A i \in 0 .. n - 1 : Bit(u, i) <=> i \in B
<1> DEFINE Good(u, k) == \A i \in 0 .. k - 1 : Bit(u, i) <=> i \in B
           T == {k \in Nat : ~\E u \in 0 .. Pow2[k] - 1 : Good(u, k)}
<1>1. ASSUME T # {} PROVE FALSE
  <2>1. PICK k \in T : \A j \in T : k <= j
    BY <1>1, NonEmptyHasSmallest
  <2>2. k # 0
    <3>1. Pow2[0] = 1 /\ 0 \in 0 .. 1 - 1 /\ Good(0, 0)
      BY Pow2Def
    <3> QED
      BY <2>1, <3>1
  <2> PICK j \in Nat : k = j + 1
    <3>1. k - 1 \in Nat /\ k = (k - 1) + 1
      BY <2>2
    <3> QED
      BY <3>1
  <2>3. PICK u \in 0 .. Pow2[j] - 1 : Good(u, j)
    BY <2>1
  <2> PICK a \in Nat : a = Pow2[j] /\ a > 0
    BY PowerPositive
  <2>4. Pow2[k] = 2 * a
    BY Pow2Def
  <2> DEFINE t == IF j \in B THEN 1 ELSE 0
             v == a * t + u
  <2>5. v \in 0 .. Pow2[k] - 1 /\ v \in Nat /\ t \in Int
    BY <2>4
  <2>6. v \div a = t /\ v % a = u
    <3> PICK b \in Int : b = t
      BY <2>5
    <3>1. (a * b + u) \div a = b /\ (a * b + u) % a = u
      BY DivModUnique
    <3> QED
      BY <3>1
  <2>7. Bit(v, j) <=> j \in B
    <3>1. t % 2 = 1 <=> j \in B
      OBVIOUS
    <3> QED
      BY <2>6, <3>1 DEF Bit
  <2> HIDE DEF v, t
  <2>8. ASSUME NEW i \in 0 .. k - 1 PROVE Bit(v, i) <=> i \in B
    <3>1. CASE i = j
      BY <2>7, <3>1
    <3>2. CASE i # j
      <4>1. i \in 0 .. j - 1 /\ i \in Nat /\ i < j
        BY <3>2
      <4>2. Bit(v % Pow2[j], i) <=> Bit(v, i)
        BY <2>5, <4>1, BitOfMod
      <4> QED
        BY <2>3, <2>6, <4>1, <4>2
    <3> QED
      BY <3>1, <3>2
  <2> QED
    BY <2>1, <2>5, <2>8
<1> QED
  BY <1>1

(* What a number of that width is made of.                                 *)
LEMMA FromBitsHas ==
  ASSUME NEW B \in SUBSET (0 .. NUM_BITS - 1)
  PROVE  FromBits(B) \in UWord /\ Bits(FromBits(B)) = B
<1>1. NUM_BITS \in Nat /\ UWord = 0 .. Pow2[NUM_BITS] - 1
  BY WidthAssumption DEF UWord, MODULUS
<1>2. PICK u \in UWord : \A i \in 0 .. NUM_BITS - 1 : Bit(u, i) <=> i \in B
  BY <1>1, NumberOfBits
<1>3. Bits(u) = B
  BY <1>2, BitsAreBits
<1> QED
  BY <1>3 DEF FromBits

(* The unsigned view of what is stored is the number that was.             *)
LEMMA UnumOfNum ==
  ASSUME NEW u \in UWord
  PROVE  Num(u) \in Word /\ Unum(Num(u)) = u
<1> PICK m \in Nat : m = MODULUS /\ m > 0 /\ m = 2 * (INT_MAX + 1) /\ INT_MAX \in Nat
  BY WidthAssumption DEF MODULUS
<1>1. u \in 0 .. m - 1
  BY DEF UWord
<1>2. (m * 0 + u) % m = u /\ (m * (-1) + u) % m = u
  BY <1>1, DivModUnique
<1>3. m * 0 + u = u /\ m * (-1) + u = u - m
  BY <1>1
<1>4. u % m = u /\ (u - m) % m = u
  BY <1>2, <1>3
<1> QED
  BY <1>1, <1>4 DEF Num, Unum, Word, INT_MIN

(* The unsigned view is a number of the width.                               *)
LEMMA UnumIsUWord ==
  ASSUME NEW w \in Int
  PROVE  Unum(w) \in UWord
<1> PICK m \in Nat : m = MODULUS /\ m > 0
  BY WidthAssumption DEF MODULUS
<1>1. w % m \in 0 .. m - 1
  BY DivMod
<1> QED
  BY <1>1 DEF Unum, UWord
-----------------------------------------------------------------------------
(* The width and the modulus, by the assumption on them.                     *)
LEMMA WidthFacts ==
  /\ NUM_BITS \in Nat /\ NUM_BITS > 0
  /\ MODULUS \in Nat /\ MODULUS > 0 /\ MODULUS = Pow2[NUM_BITS]
  /\ UWord = 0 .. Pow2[NUM_BITS] - 1
BY WidthAssumption DEF MODULUS, UWord

(* A position is in the bits of a word if the bit there is 1, and no bit   *)
(* is 1 outside of the word.                                               *)
LEMMA InBits ==
  ASSUME NEW u \in UWord, NEW i \in Int
  PROVE  /\ i \in Bits(u) => i \in 0 .. NUM_BITS - 1
         /\ i >= 0 => (i \in Bits(u) <=> Bit(u, i))
<1>1. i \in Bits(u) <=> i \in 0 .. NUM_BITS - 1 /\ Bit(u, i)
  BY BitsAreBits
<1>2. i >= NUM_BITS => ~Bit(u, i)
  BY WidthFacts, NoBitAbove
<1> QED
  BY <1>1, <1>2, WidthFacts

(* What the shift instructions do to the bits.                             *)
LEMMA ShiftLeftBits ==
  ASSUME NEW u \in UWord, NEW n \in Nat
  PROVE  /\ ShiftLeft(u, n) \in UWord
         /\ \A i \in 0 .. NUM_BITS - 1 :
              i \in Bits(ShiftLeft(u, n)) <=> i - (n % NUM_BITS) \in Bits(u)
<1> DEFINE k == n % NUM_BITS
           p == u * Pow2[k]
           v == p % Pow2[NUM_BITS]
<1>1. k \in Nat /\ u \in Nat
  BY WidthFacts, DivMod
<1>2. Pow2[k] \in Nat /\ Pow2[NUM_BITS] \in Nat /\ Pow2[NUM_BITS] > 0
  BY <1>1, WidthFacts, PowerPositive
<1> HIDE DEF k
<1>3. p \in Nat
  BY <1>1, <1>2, Products
<1>4. v \in 0 .. Pow2[NUM_BITS] - 1
  BY <1>2, <1>3, DivMod
<1>5. ShiftLeft(u, n) = v /\ v \in UWord
  BY <1>4, WidthFacts DEF ShiftLeft, k
<1>6. ASSUME NEW i \in 0 .. NUM_BITS - 1
      PROVE  i \in Bits(v) <=> i - k \in Bits(u)
  <2>1. i \in Nat /\ i < NUM_BITS /\ i \in Int /\ i - k \in Int
    BY <1>1, WidthFacts
  <2>2. i \in Bits(v) <=> Bit(v, i)
    BY <1>5, <2>1, InBits
  <2>3. Bit(v, i) <=> Bit(p, i)
    BY <1>3, <2>1, WidthFacts, BitOfMod
  <2>4. Bit(p, i) <=> i >= k /\ Bit(u, i - k)
    BY <1>1, <2>1, BitOfProduct
  <2>5. i - k \in Bits(u) <=> i - k >= 0 /\ Bit(u, i - k)
    BY <2>1, InBits
  <2> QED
    BY <1>1, <2>1, <2>2, <2>3, <2>4, <2>5
<1> QED
  BY <1>5, <1>6 DEF k

(* The same to the right.                                                    *)
LEMMA ShiftRightBits ==
  ASSUME NEW u \in UWord, NEW n \in Nat
  PROVE  /\ ShiftRight(u, n) \in UWord
         /\ \A i \in 0 .. NUM_BITS - 1 :
              i \in Bits(ShiftRight(u, n)) <=> i + (n % NUM_BITS) \in Bits(u)
<1> DEFINE k == n % NUM_BITS
           v == u \div Pow2[k]
<1>1. k \in Nat /\ u \in Nat
  BY WidthFacts, DivMod
<1>2. Pow2[k] \in Nat /\ Pow2[k] > 0
  BY <1>1, PowerPositive
<1> HIDE DEF k
<1>3. v \in Nat /\ v <= u
  <2> DEFINE a == Pow2[k]
  <2>1. a \in Nat /\ a > 0
    BY <1>2
  <2> HIDE DEF a
  <2>2. u \div a \in Nat /\ a * (u \div a) <= u
    BY <1>1, <2>1, SMT
  <2>3. ASSUME NEW q \in Nat PROVE q <= a * q
    BY <2>1, SMT
  <2>4. u \div a <= a * (u \div a) /\ a * (u \div a) \in Int
    BY <2>1, <2>2, <2>3, Products
  <2> QED
    BY <1>1, <2>2, <2>4 DEF a
<1>4. ShiftRight(u, n) = v /\ v \in UWord
  BY <1>1, <1>3, WidthFacts DEF ShiftRight, k
<1>5. ASSUME NEW i \in 0 .. NUM_BITS - 1
      PROVE  i \in Bits(v) <=> i + k \in Bits(u)
  <2>1. i \in Nat /\ i \in Int /\ i + k \in Int /\ i + k >= 0
    BY <1>1, WidthFacts
  <2>2. i \in Bits(v) <=> Bit(v, i)
    BY <1>4, <2>1, InBits
  <2>3. Bit(v, i) <=> Bit(u, i + k)
    BY <1>1, <2>1, BitOfQuotient
  <2>4. i + k \in Bits(u) <=> Bit(u, i + k)
    BY <2>1, InBits
  <2> QED
    BY <2>2, <2>3, <2>4
<1> QED
  BY <1>4, <1>5 DEF k

(* The count of the opposite shift of a rotation.                          *)
LEMMA ComplementCount ==
  ASSUME NEW n \in Nat
  PROVE  /\ Complement(n) \in Nat
         /\ Complement(n) % NUM_BITS = IF n % NUM_BITS = 0 THEN 0
                                       ELSE NUM_BITS - (n % NUM_BITS)
<1> DEFINE w == NUM_BITS
           m == MODULUS
           b == m \div w
           q == n \div w
           k == n % w
<1>1. w \in Nat /\ w > 0 /\ m \in Nat /\ m > 0
  BY WidthFacts
<1>2. m = w * b /\ b \in Nat /\ b > 0
  <2>1. b \in Int /\ m = w * b + 0 /\ m = w * b
    <3>1. b \in Int /\ m = w * b + (m % w) /\ m % w = 0
      BY <1>1, CountAssumption, DivMod
    <3>2. w * b \in Int
      BY <1>1, <3>1, Products
    <3> QED
      BY <3>1, <3>2
  <2> HIDE DEF b, w, m
  <2>2. b > 0
    BY <1>1, <2>1, SMT
  <2> QED
    BY <2>1, <2>2
<1>3. q \in Int /\ k \in 0 .. w - 1 /\ n = w * q + k
  BY <1>1, DivMod
<1> HIDE DEF w, m, b, q, k
<1>4. (w - n) % m \in 0 .. m - 1 /\ w - n \in Int
  <2>1. w - n \in Int
    BY <1>1
  <2> QED
    BY <1>1, <2>1, DivMod
<1>5. ((w - n) % m) % w = (w - n) % w
  BY <1>1, <1>2, <1>4, ModMod
<1>6. /\ w * q \in Int /\ -q \in Int /\ 1 - q \in Int
      /\ w * (-q) = -(w * q) /\ w * (1 - q) = w - w * q
  BY <1>1, <1>3, SMT
<1>7. CASE k = 0
  <2>1. w - n = w * (1 - q) + k
    BY <1>1, <1>3, <1>6, <1>7
  <2>2. (w * (1 - q) + k) % w = k
    BY <1>1, <1>3, <1>6, DivModUnique
  <2> QED
    BY <1>4, <1>5, <1>7, <2>1, <2>2 DEF w, m, k, Complement
<1>8. CASE k # 0
  <2>1. w - n = w * (-q) + (w - k) /\ w - k \in 0 .. w - 1
    BY <1>1, <1>3, <1>6, <1>8
  <2>2. (w * (-q) + (w - k)) % w = w - k
    BY <1>1, <1>6, <2>1, DivModUnique
  <2> QED
    BY <1>4, <1>5, <1>8, <2>1, <2>2 DEF w, m, k, Complement
<1> QED
  BY <1>7, <1>8

(* Where a rotation takes a bit from.                                      *)
LEMMA RotatedPosition ==
  ASSUME NEW n \in Nat, NEW i \in 0 .. NUM_BITS - 1
  PROVE  LET k == n % NUM_BITS
         IN  /\ k \in 0 .. NUM_BITS - 1
             /\ (i - n) % NUM_BITS = IF i >= k THEN i - k ELSE i - k + NUM_BITS
             /\ (i + n) % NUM_BITS = IF i + k < NUM_BITS THEN i + k
                                                         ELSE i + k - NUM_BITS
<1> DEFINE w == NUM_BITS
           q == n \div w
           k == n % w
<1>1. w \in Nat /\ w > 0
  BY WidthFacts
<1>2. q \in Int /\ k \in 0 .. w - 1 /\ n = w * q + k
  BY <1>1, DivMod
<1>3. i \in 0 .. w - 1
  OBVIOUS
<1> HIDE DEF w, q, k
<1>4. /\ w * q \in Int /\ -q \in Int /\ -q - 1 \in Int /\ q + 1 \in Int
      /\ w * (-q) = -(w * q) /\ w * (-q - 1) = -(w * q) - w
      /\ w * (q + 1) = w * q + w
  BY <1>1, <1>2, SMT
<1>5. (i - n) % w = IF i >= k THEN i - k ELSE i - k + w
  <2>1. CASE i >= k
    <3>1. i - n = w * (-q) + (i - k) /\ i - k \in 0 .. w - 1
      BY <1>1, <1>2, <1>3, <1>4, <2>1
    <3>2. (w * (-q) + (i - k)) % w = i - k
      BY <1>1, <1>4, <3>1, DivModUnique
    <3> QED
      BY <2>1, <3>1, <3>2
  <2>2. CASE ~(i >= k)
    <3>1. i - n = w * (-q - 1) + (i - k + w) /\ i - k + w \in 0 .. w - 1
      BY <1>1, <1>2, <1>3, <1>4, <2>2
    <3>2. (w * (-q - 1) + (i - k + w)) % w = i - k + w
      BY <1>1, <1>4, <3>1, DivModUnique
    <3> QED
      BY <2>2, <3>1, <3>2
  <2> QED
    BY <2>1, <2>2
<1>6. (i + n) % w = IF i + k < w THEN i + k ELSE i + k - w
  <2>1. CASE i + k < w
    <3>1. i + n = w * q + (i + k) /\ i + k \in 0 .. w - 1
      BY <1>1, <1>2, <1>3, <1>4, <2>1
    <3>2. (w * q + (i + k)) % w = i + k
      BY <1>1, <1>2, <3>1, DivModUnique
    <3> QED
      BY <2>1, <3>1, <3>2
  <2>2. CASE ~(i + k < w)
    <3>1. i + n = w * (q + 1) + (i + k - w) /\ i + k - w \in 0 .. w - 1
      BY <1>1, <1>2, <1>3, <1>4, <2>2
    <3>2. (w * (q + 1) + (i + k - w)) % w = i + k - w
      BY <1>1, <1>4, <3>1, DivModUnique
    <3> QED
      BY <2>2, <3>1, <3>2
  <2> QED
    BY <2>1, <2>2
<1> QED
  BY <1>2, <1>5, <1>6 DEF w, k

(* The word that a function of the bits returns has the bits that the      *)
(* equation means, and is a word.                                          *)
LEMMA BitsOfResult ==
  ASSUME NEW u \in UWord
  PROVE  /\ Success(Num(u)).err = 0
         /\ Success(Num(u)).num \in Word
         /\ Unum(Success(Num(u)).num) = u
BY UnumOfNum DEF Success

(* The cases of ResultBits.                                                *)
LEMMA ResultBitsByOperator ==
  ASSUME NEW u, NEW n, NEW i \in 0 .. NUM_BITS - 1
  PROVE  /\ i \in ResultBits(SHL, u, n) <=> i - n \in Bits(u)
         /\ i \in ResultBits(SHR, u, n) <=> i + n \in Bits(u)
         /\ i \in ResultBits(AND, u, n) <=> i \in Bits(u) /\ i \in Bits(n)
         /\ i \in ResultBits(OR, u, n) <=> i \in Bits(u) \/ i \in Bits(n)
         /\ i \in ResultBits(XOR, u, n) <=> ~(i \in Bits(u) <=> i \in Bits(n))
         /\ i \in ResultBits(ROL, u, n) <=> (i - n) % NUM_BITS \in Bits(u)
         /\ i \in ResultBits(ROR, u, n) <=> (i + n) % NUM_BITS \in Bits(u)
BY DEF ResultBits, SHL, SHR, AND, OR, XOR, ROL, ROR

(* The reference has no bit outside of the word.                             *)
LEMMA ResultBitsInWord ==
  ASSUME NEW u, NEW n, NEW op
  PROVE  ResultBits(op, u, n) \subseteq 0 .. NUM_BITS - 1
BY DEF ResultBits

(* Two sets of bits are the same when they agree on the positions.           *)
LEMMA SameBits ==
  ASSUME NEW u, NEW B \in SUBSET (0 .. NUM_BITS - 1),
         \A i \in 0 .. NUM_BITS - 1 : i \in Bits(u) <=> i \in B
  PROVE  Bits(u) = B
BY DEF Bits

(* The functions of the unsigned operators.                                  *)
LEMMA BitFunctions ==
  ASSUME NEW a, NEW b
  PROVE  LET u == Unum(a)
             n == Unum(b)
         IN  /\ set_math_func(SHL, a, b) = Success(Num(ShiftLeft(u, n)))
             /\ set_math_func(SHR, a, b) = Success(Num(ShiftRight(u, n)))
             /\ set_math_func(AND, a, b) = Success(Num(FromBits(Bits(u) \cap Bits(n))))
             /\ set_math_func(OR, a, b) = Success(Num(FromBits(Bits(u) \cup Bits(n))))
             /\ set_math_func(XOR, a, b)
                  = Success(Num(FromBits((Bits(u) \cup Bits(n)) \ (Bits(u) \cap Bits(n)))))
             /\ set_math_func(ROL, a, b)
                  = Success(Num(FromBits(Bits(ShiftLeft(u, n))
                                         \cup Bits(ShiftRight(u, Complement(n))))))
             /\ set_math_func(ROR, a, b)
                  = Success(Num(FromBits(Bits(ShiftRight(u, n))
                                         \cup Bits(ShiftLeft(u, Complement(n))))))
BY DEF set_math_func, shift_l_func, shift_r_func, and_func, or_func, xor_func,
       rotate_l_func, rotate_r_func, shift_l_func_32, shift_r_func_32,
       and_func_32, or_func_32, xor_func_32, rotate_l_func_32, rotate_r_func_32,
       ADD, SUB, MULT, DIV, MOD, SHL, SHR, AND, OR, XOR, ROL, ROR

(* A rotation brings every bit to its place, by whatever count: one of the *)
(* two shifts does, and the other one brings nothing there, or the same.   *)
LEMMA RotateLeftBits ==
  ASSUME NEW u \in UWord, NEW n \in Nat, NEW i \in 0 .. NUM_BITS - 1
  PROVE  i \in Bits(ShiftLeft(u, n)) \cup Bits(ShiftRight(u, Complement(n)))
           <=> (i - n) % NUM_BITS \in Bits(u)
<1> DEFINE k == n % NUM_BITS
           c == Complement(n) % NUM_BITS
<1>1. i \in Bits(ShiftLeft(u, n)) <=> i - k \in Bits(u)
  BY ShiftLeftBits
<1>2. i \in Bits(ShiftRight(u, Complement(n))) <=> i + c \in Bits(u)
  BY ComplementCount, ShiftRightBits
<1>3. c = IF k = 0 THEN 0 ELSE NUM_BITS - k
  BY ComplementCount
<1>4. /\ k \in 0 .. NUM_BITS - 1
      /\ (i - n) % NUM_BITS = IF i >= k THEN i - k ELSE i - k + NUM_BITS
  BY RotatedPosition
<1>5. \A j \in Int : j \in Bits(u) => j \in 0 .. NUM_BITS - 1
  BY InBits
<1>6. NUM_BITS \in Nat /\ i \in Int
  BY WidthFacts
<1> HIDE DEF k, c
<1>7. CASE k = 0
  <2>1. i - k = i /\ i + c = i /\ i >= k
    BY <1>3, <1>6, <1>7
  <2> QED
    BY <1>1, <1>2, <1>4, <2>1
<1>8. CASE k # 0 /\ i >= k
  <2>1. i + c \in Int /\ i + c \notin 0 .. NUM_BITS - 1
    BY <1>3, <1>4, <1>6, <1>8
  <2> QED
    BY <1>1, <1>2, <1>4, <1>5, <1>8, <2>1
<1>9. CASE k # 0 /\ ~(i >= k)
  <2>1. /\ i - k \in Int /\ i - k \notin 0 .. NUM_BITS - 1
        /\ i + c = i - k + NUM_BITS
    BY <1>3, <1>4, <1>6, <1>9
  <2> QED
    BY <1>1, <1>2, <1>4, <1>5, <1>9, <2>1
<1> QED
  BY <1>7, <1>8, <1>9

(* The same to the right.                                                    *)
LEMMA RotateRightBits ==
  ASSUME NEW u \in UWord, NEW n \in Nat, NEW i \in 0 .. NUM_BITS - 1
  PROVE  i \in Bits(ShiftRight(u, n)) \cup Bits(ShiftLeft(u, Complement(n)))
           <=> (i + n) % NUM_BITS \in Bits(u)
<1> DEFINE k == n % NUM_BITS
           c == Complement(n) % NUM_BITS
<1>1. i \in Bits(ShiftRight(u, n)) <=> i + k \in Bits(u)
  BY ShiftRightBits
<1>2. i \in Bits(ShiftLeft(u, Complement(n))) <=> i - c \in Bits(u)
  BY ComplementCount, ShiftLeftBits
<1>3. c = IF k = 0 THEN 0 ELSE NUM_BITS - k
  BY ComplementCount
<1>4. /\ k \in 0 .. NUM_BITS - 1
      /\ (i + n) % NUM_BITS = IF i + k < NUM_BITS THEN i + k ELSE i + k - NUM_BITS
  BY RotatedPosition
<1>5. \A j \in Int : j \in Bits(u) => j \in 0 .. NUM_BITS - 1
  BY InBits
<1>6. NUM_BITS \in Nat /\ i \in Int /\ i < NUM_BITS /\ i >= 0
  BY WidthFacts
<1> HIDE DEF k, c
<1>7. CASE k = 0
  <2>1. i - c = i /\ i + k = i /\ i + k < NUM_BITS
    BY <1>3, <1>6, <1>7
  <2> QED
    BY <1>1, <1>2, <1>4, <2>1
<1>8. CASE k # 0 /\ i + k < NUM_BITS
  <2>1. i - c \in Int /\ i - c \notin 0 .. NUM_BITS - 1
    BY <1>3, <1>4, <1>6, <1>8
  <2> QED
    BY <1>1, <1>2, <1>4, <1>5, <1>8, <2>1
<1>9. CASE k # 0 /\ ~(i + k < NUM_BITS)
  <2>1. /\ i + k \in Int /\ i + k \notin 0 .. NUM_BITS - 1
        /\ i - c = i + k - NUM_BITS
    BY <1>3, <1>4, <1>6, <1>9
  <2> QED
    BY <1>1, <1>2, <1>4, <1>5, <1>9, <2>1
<1> QED
  BY <1>7, <1>8, <1>9

(* The shifts, the bitwise operators and the rotations never fail, and the *)
(* unsigned view of their result has the bits that the equation means; a   *)
(* shift by no less than the width only returns some word.                 *)
LEMMA BitAnswers ==
  ASSUME NEW a \in Word, NEW b \in Word, NEW op \in SHL .. ROR
  PROVE  LET r == set_math_func(op, a, b)
         IN  /\ r.err = 0
             /\ r.num \in Word
             /\ Unum(r.num) \in UWord
             /\ Unum(b) < NUM_BITS \/ op \notin {SHL, SHR} =>
                  Bits(Unum(r.num)) = ResultBits(op, Unum(a), Unum(b))
<1> DEFINE u == Unum(a)
           n == Unum(b)
           r == set_math_func(op, a, b)
           Due(v) == n < NUM_BITS \/ op \notin {SHL, SHR} =>
                       \A i \in 0 .. NUM_BITS - 1 :
                         i \in Bits(v) <=> i \in ResultBits(op, u, n)
<1>1. a \in Int /\ b \in Int
  BY WidthAssumption DEF Word, INT_MIN
<1>2. u \in UWord /\ n \in UWord /\ n \in Nat
  <2>1. u \in UWord /\ n \in UWord
    BY <1>1, UnumIsUWord
  <2> HIDE DEF n
  <2> QED
    BY <2>1, WidthFacts DEF UWord
<1>3. Bits(u) \subseteq 0 .. NUM_BITS - 1 /\ Bits(n) \subseteq 0 .. NUM_BITS - 1
  BY DEF Bits
<1> HIDE DEF u, n
<1>4. SUFFICES \E v \in UWord : r = Success(Num(v)) /\ Due(v)
  <2>1. PICK v \in UWord : r = Success(Num(v)) /\ Due(v)
    BY <1>4
  <2>2. r.err = 0 /\ r.num \in Word /\ Unum(r.num) = v
    BY <2>1, BitsOfResult
  <2>3. n < NUM_BITS \/ op \notin {SHL, SHR} => Bits(v) = ResultBits(op, u, n)
    BY <2>1, ResultBitsInWord, SameBits
  <2> QED
    BY <2>1, <2>2, <2>3 DEF u, n
<1>5. CASE op = SHL
  <2>1. r = Success(Num(ShiftLeft(u, n))) /\ ShiftLeft(u, n) \in UWord
    BY <1>2, <1>5, BitFunctions, ShiftLeftBits DEF u, n
  <2>2. n < NUM_BITS => n % NUM_BITS = n
    BY <1>2, WidthFacts
  <2>3. Due(ShiftLeft(u, n))
    BY <1>2, <1>5, <2>2, ShiftLeftBits, ResultBitsByOperator
  <2> QED
    BY <2>1, <2>3
<1>6. CASE op = SHR
  <2>1. r = Success(Num(ShiftRight(u, n))) /\ ShiftRight(u, n) \in UWord
    BY <1>2, <1>6, BitFunctions, ShiftRightBits DEF u, n
  <2>2. n < NUM_BITS => n % NUM_BITS = n
    BY <1>2, WidthFacts
  <2>3. Due(ShiftRight(u, n))
    BY <1>2, <1>6, <2>2, ShiftRightBits, ResultBitsByOperator
  <2> QED
    BY <2>1, <2>3
<1>7. ASSUME NEW B \in SUBSET (0 .. NUM_BITS - 1), r = Success(Num(FromBits(B))),
             \A i \in 0 .. NUM_BITS - 1 : i \in B <=> i \in ResultBits(op, u, n)
      PROVE  \E v \in UWord : r = Success(Num(v)) /\ Due(v)
  <2>1. FromBits(B) \in UWord /\ Bits(FromBits(B)) = B
    BY FromBitsHas
  <2> QED
    BY <1>7, <2>1
<1>8. CASE op = AND
  <2> DEFINE B == Bits(u) \cap Bits(n)
  <2>1. r = Success(Num(FromBits(B)))
    BY <1>8, BitFunctions DEF u, n
  <2>2. \A i \in 0 .. NUM_BITS - 1 : i \in B <=> i \in ResultBits(op, u, n)
    BY <1>8, ResultBitsByOperator
  <2> QED
    BY <1>3, <1>7, <2>1, <2>2
<1>9. CASE op = OR
  <2> DEFINE B == Bits(u) \cup Bits(n)
  <2>1. r = Success(Num(FromBits(B)))
    BY <1>9, BitFunctions DEF u, n
  <2>2. \A i \in 0 .. NUM_BITS - 1 : i \in B <=> i \in ResultBits(op, u, n)
    BY <1>9, ResultBitsByOperator
  <2> QED
    BY <1>3, <1>7, <2>1, <2>2
<1>10. CASE op = XOR
  <2> DEFINE B == (Bits(u) \cup Bits(n)) \ (Bits(u) \cap Bits(n))
  <2>1. r = Success(Num(FromBits(B)))
    BY <1>10, BitFunctions DEF u, n
  <2>2. \A i \in 0 .. NUM_BITS - 1 : i \in B <=> i \in ResultBits(op, u, n)
    BY <1>10, ResultBitsByOperator
  <2> QED
    BY <1>3, <1>7, <2>1, <2>2
<1>11. CASE op = ROL
  <2> DEFINE B == Bits(ShiftLeft(u, n)) \cup Bits(ShiftRight(u, Complement(n)))
  <2>1. r = Success(Num(FromBits(B)))
    BY <1>11, BitFunctions DEF u, n
  <2>2. \A i \in 0 .. NUM_BITS - 1 : i \in B <=> i \in ResultBits(op, u, n)
    BY <1>2, <1>11, RotateLeftBits, ResultBitsByOperator
  <2>3. B \in SUBSET (0 .. NUM_BITS - 1)
    BY DEF Bits
  <2> QED
    BY <1>7, <2>1, <2>2, <2>3
<1>12. CASE op = ROR
  <2> DEFINE B == Bits(ShiftRight(u, n)) \cup Bits(ShiftLeft(u, Complement(n)))
  <2>1. r = Success(Num(FromBits(B)))
    BY <1>12, BitFunctions DEF u, n
  <2>2. \A i \in 0 .. NUM_BITS - 1 : i \in B <=> i \in ResultBits(op, u, n)
    BY <1>2, <1>12, RotateRightBits, ResultBitsByOperator
  <2>3. B \in SUBSET (0 .. NUM_BITS - 1)
    BY DEF Bits
  <2> QED
    BY <1>7, <2>1, <2>2, <2>3
<1>13. op \in {SHL, SHR, AND, OR, XOR, ROL, ROR}
  BY DEF SHL, SHR, AND, OR, XOR, ROL, ROR
<1> QED
  BY <1>5, <1>6, <1>8, <1>9, <1>10, <1>11, <1>12, <1>13

(* A function of math_funcs fails, or leaves a word.                       *)
LEMMA FunctionsReturnWords ==
  ASSUME NEW a \in Word, NEW b \in Word, NEW op \in Int
  PROVE  LET r == set_math_func(op, a, b)
         IN  r.err = -1 \/ (r.err = 0 /\ r.num \in Word)
<1> DEFINE r == set_math_func(op, a, b)
<1> USE DEF Success, Failure
<1>1. CASE op = ADD
  BY <1>1, AddRefusesOverflow, FunctionsByOperator DEF add_func_32, Wrap
<1>2. CASE op = SUB
  <2>1. /\ INT_MAX \in Nat /\ INT_MIN = -INT_MAX - 1 /\ a - b \in Int
        /\ validate_sub_32(a, b) => a - b \in INT_MIN + 1 .. INT_MAX + 1
    BY SubRefusesOneTooFew, WidthAssumption DEF Word, INT_MIN
  <2>2. Wrap(INT_MAX + 1) \in Word
    BY <2>1, WrapPastTheEnd DEF Word
  <2>3. validate_sub_32(a, b) => Wrap(a - b) \in Word
    <3>1. CASE a - b = INT_MAX + 1
      BY <2>2, <3>1
    <3>2. CASE a - b # INT_MAX + 1
      BY <2>1, <3>2 DEF Word, Wrap
    <3> QED
      BY <3>1, <3>2
  <2> QED
    BY <1>2, <2>3, FunctionsByOperator DEF sub_func_32
<1>3. CASE op = MULT
  BY <1>3, MultRefusesOverflow, FunctionsByOperator DEF mult_func_32, Wrap
<1>4. CASE op = DIV
  BY <1>4, DivAnswers, FunctionsByOperator DEF div_func_32
<1>5. CASE op = MOD
  BY <1>5, ModAnswers, FunctionsByOperator DEF mod_func_32
<1>6. CASE op \in SHL .. ROR
  BY <1>6, BitAnswers
<1>7. CASE op \notin ADD .. ROR
  BY <1>7, FunctionsByOperator
<1> QED
  BY <1>1, <1>2, <1>3, <1>4, <1>5, <1>6, <1>7
     DEF ADD, SUB, MULT, DIV, MOD, SHL, ROR
-----------------------------------------------------------------------------
(* What solve_func tells of an equation that it solves is its answer, but  *)
(* for a difference that is too large, and the field it is told in holds a *)
(* word.                                                                   *)
LEMMA SolutionsAnswer ==
  ASSUME NEW e \in Equation, solve_func(e).err = 0
  PROVE  /\ Solution(e).solution \in Word
         /\ Solution(e).solution_type \in {INT, UINT}
         /\ NumberTold(Solution(e)) \in Word \cup UWord
         /\ ~TooLarge(e) => Answers(NumberTold(Solution(e)), e)
<1> DEFINE a == e.num1
           b == e.num2
           op == e.operator
           r == set_math_func(op, a, b)
           s == Solution(e)
<1>1. Solves(e) /\ a \in Word /\ b \in Word
  BY SolvesTheSolvable DEF Equation
<1>2. op \in ADD .. ROR /\ rep_op(e) = op
  BY <1>1, OperatorByte DEF Solves, Misjudged, TooLarge, Solvable, ADD, SUB, MULT, DIV, MOD, SHL, ROR
<1>3. /\ solve_func(e) = r /\ r.err = 0
      /\ s.solution = r.num /\ s.solution_type = SolutionType(op)
  BY <1>2 DEF solve_func, Solution
<1>4. a \in Int /\ b \in Int /\ INT_MAX \in Nat
  BY <1>1, WidthAssumption DEF Word, INT_MIN
<1> HIDE DEF a, b, op, s
<1>5. CASE op \in {ADD, MULT, DIV, MOD}
  <2>1. r.num \in Word /\ Means(op, a, b, r.num)
    <3>1. CASE op = ADD
      BY <1>1, <1>3, <3>1, AddRefusesOverflow, MeansByOperator, FunctionsByOperator
         DEF add_func_32, Success, Failure, Wrap
    <3>2. CASE op = MULT
      BY <1>1, <1>3, <3>2, MultRefusesOverflow, MeansByOperator, FunctionsByOperator
         DEF mult_func_32, Success, Failure, Wrap
    <3>3. CASE op = DIV
      BY <1>1, <1>3, <3>3, DivAnswers, FunctionsByOperator
         DEF div_func_32, Success, Failure
    <3>4. CASE op = MOD
      BY <1>1, <1>3, <3>4, ModAnswers, FunctionsByOperator
         DEF mod_func_32, Success, Failure
    <3> QED
      BY <1>5, <3>1, <3>2, <3>3, <3>4
  <2>2. s.solution_type = INT
    BY <1>3, <1>5 DEF SolutionType, ADD, MULT, DIV, MOD
  <2> QED
    BY <1>3, <1>5, <2>1, <2>2 DEF NumberTold, Answers, a, b, op, s
<1>6. CASE op = SUB
  <2>1. r.num = Wrap(a - b) /\ a - b \in INT_MIN + 1 .. INT_MAX + 1
    BY <1>1, <1>3, <1>6, SubRefusesOneTooFew, FunctionsByOperator
       DEF sub_func_32, Success, Failure
  <2>2. r.num \in Word
    BY <1>1, <1>3, <1>6, FunctionsReturnWords DEF SUB
  <2>3. s.solution_type = INT
    BY <1>3, <1>6 DEF SolutionType, SUB, MOD
  <2>4. NumberTold(s) = r.num
    BY <1>3, <2>3 DEF NumberTold
  <2>5. ASSUME ~TooLarge(e)
        PROVE  r.num = a - b
    <3>1. a - b # INT_MAX + 1
      BY <1>6, <2>5 DEF TooLarge, a, b, op
    <3>2. a - b \in Word
      BY <1>4, <2>1, <3>1 DEF Word, INT_MIN
    <3> QED
      BY <2>1, <3>2 DEF Wrap
  <2> QED
    BY <1>3, <1>6, <2>2, <2>3, <2>4, <2>5 DEF Answers, a, b, op, s
<1>7. CASE op \in SHL .. ROR
  <2>1. /\ r.num \in Word /\ Unum(r.num) \in UWord
        /\ Unum(b) < NUM_BITS \/ op \notin {SHL, SHR} =>
             Bits(Unum(r.num)) = ResultBits(op, Unum(a), Unum(b))
    BY <1>1, <1>7, BitAnswers
  <2>2. s.solution_type = UINT
    BY <1>3, <1>7 DEF SolutionType, SHL, ROR, MOD
  <2>3. NumberTold(s) = Unum(r.num)
    BY <1>3, <2>2 DEF NumberTold, INT, UINT
  <2> QED
    BY <1>3, <1>7, <2>1, <2>2, <2>3 DEF Answers, a, b, op, s
<1>8. op \in {ADD, MULT, DIV, MOD} \/ op = SUB \/ op \in SHL .. ROR
  BY <1>2 DEF ADD, SUB, MULT, DIV, MOD, SHL, ROR
<1> QED
  BY <1>5, <1>6, <1>7, <1>8
=============================================================================
