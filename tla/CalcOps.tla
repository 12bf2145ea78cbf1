------------------------------- MODULE CalcOps -------------------------------
(***************************************************************************)
(* The arithmetic of the calculator: math_funcs_thirty_two.c.  The source  *)
(* math_funcs.c is the same text at 64 bits, so the width is a parameter.  *)
(*                                                                         *)
(* A convert_u is represented by its signed member; Unum is the unsigned   *)
(* view of the same bits.  Where C leaves the outcome open the operators   *)
(* have what the compiled program does: a signed result wraps around,      *)
(* abs(INT_MIN) is INT_MIN, and a shift takes its count modulo the width.  *)
(* The NULL tests of p_result are left out: no caller passes NULL.         *)
(***************************************************************************)
EXTENDS Integers

CONSTANTS NUM_BITS,   \* width of an operand
          INT_MAX     \* largest signed value of that width

\* The powers of two.
Pow2[n \in Nat] == IF n = 0 THEN 1 ELSE 2 * Pow2[n - 1]

ASSUME WidthAssumption == /\ NUM_BITS \in Nat \ {0}
                          /\ INT_MAX \in Nat
                          /\ Pow2[NUM_BITS] = 2 * (INT_MAX + 1)

MODULUS == 2 * (INT_MAX + 1)
INT_MIN == -INT_MAX - 1
Word    == INT_MIN .. INT_MAX
UWord   == 0 .. MODULUS - 1

\* The width is itself a power of two, as 32 and 64 are, so that reducing a
\* count modulo 2 ^ NUM_BITS does not change what it is modulo the width.
ASSUME CountAssumption == MODULUS % NUM_BITS = 0

Unum(w) == w % MODULUS
Num(u)  == IF u > INT_MAX THEN u - MODULUS ELSE u

\* The word a signed result is stored as.
Wrap(n) == IF n \in Word THEN n ELSE Num(n % MODULUS)

\* What a function of math_funcs returns, and what it leaves in *p_result.
\* A function that fails does not touch the result.
Success(w) == [err |-> 0, num |-> w]
Failure    == [err |-> -1]
-----------------------------------------------------------------------------
Abs(n) == IF n < 0 THEN -n ELSE n

\* The division of C, which truncates towards zero, and its remainder.
TruncDiv(a, b) == LET q == Abs(a) \div Abs(b)
                  IN  IF (a < 0) = (b < 0) THEN q ELSE -q
TruncRem(a, b) == a - b * TruncDiv(a, b)

validate_add_32(num1, num2) ==
  /\ ~(num1 > 0 /\ num2 > INT_MAX - num1)
  /\ ~(num1 < 0 /\ num2 < INT_MIN - num1)

add_func_32(num1, num2) ==
  IF validate_add_32(num1, num2) THEN Success(Wrap(num1 + num2)) ELSE Failure

validate_sub_32_strict(num1, num2) ==
  /\ ~(num1 > 0 /\ num2 < INT_MIN + num1 - 1)
  /\ ~(num1 < 0 /\ num2 > INT_MAX + num1)
validate_sub_32(num1, num2) ==
  /\ ~(num1 > 0 /\ num2 < INT_MIN + num1)
  /\ ~(num1 < 0 /\ num2 > INT_MAX + num1)

sub_func_32(num1, num2) ==
  IF validate_sub_32(num1, num2) THEN Success(Wrap(num1 - num2)) ELSE Failure

validate_multi_32_same_sign(num1, num2) ==
  /\ ~(num1 > 0 /\ num2 > 0 /\ num1 > TruncDiv(INT_MAX, num2))
  /\ ~(num1 < 0 /\ num2 < 0 /\ num1 < TruncDiv(INT_MAX, num2))
validate_multi_32(num1, num2) ==
  /\ ~(num1 > 0 /\ num2 > 0 /\ num1 > TruncDiv(INT_MAX, num2))
  /\ ~(num1 < 0 /\ num2 < 0 /\ num1 < TruncDiv(INT_MAX, num2))
  /\ ~(num1 < 0 /\ num2 > 0 /\ num1 < TruncDiv(INT_MIN, num2))
  /\ ~(num1 > 0 /\ num2 < 0 /\ num2 < TruncDiv(INT_MIN, num1))

mult_func_32(num1, num2) ==
  IF validate_multi_32(num1, num2) THEN Success(Wrap(num1 * num2)) ELSE Failure

validate_divide_32(num1, num2) ==
  /\ num2 # 0
  /\ ~(num1 = INT_MIN /\ num2 = -1)

div_func_32(num1, num2) ==
  IF validate_divide_32(num1, num2) THEN Success(TruncDiv(num1, num2)) ELSE Failure

mod_func_32(num1, num2) ==
  IF num2 = 0 THEN Failure ELSE Success(TruncRem(num1, Wrap(Abs(num2))))
-----------------------------------------------------------------------------
\* A word as the set of the positions of its 1 bits, and back.
Bits(u)     == {i \in 0 .. NUM_BITS - 1 : (u \div Pow2[i]) % 2 = 1}
FromBits(B) == CHOOSE u \in UWord : Bits(u) = B

\* The shift instructions: bits that leave the word are lost, 0 comes in.
ShiftLeft(u, n)  == (u * Pow2[n % NUM_BITS]) % MODULUS
ShiftRight(u, n) == u \div Pow2[n % NUM_BITS]

\* NUM_BITS - num2.unum is an unsigned subtraction.
Complement(n) == (NUM_BITS - n) % MODULUS

shift_l_func_32(num1, num2) ==
  Success(Num(ShiftLeft(Unum(num1), Unum(num2))))
shift_r_arithmetic(num1, num2) ==
  Success(num1 \div Pow2[Unum(num2) % NUM_BITS])
shift_r_func_32(num1, num2) ==
  Success(Num(ShiftRight(Unum(num1), Unum(num2))))

and_func_32(num1, num2) ==
  Success(Num(FromBits(Bits(Unum(num1)) \cap Bits(Unum(num2)))))
or_func_32(num1, num2) ==
  Success(Num(FromBits(Bits(Unum(num1)) \cup Bits(Unum(num2)))))
xor_func_32(num1, num2) ==
  LET B1 == Bits(Unum(num1))
      B2 == Bits(Unum(num2))
  IN  Success(Num(FromBits((B1 \cup B2) \ (B1 \cap B2))))

rotate_l_func_32(num1, num2) ==
  LET u == Unum(num1)
      n == Unum(num2)
  IN  Success(Num(FromBits(Bits(ShiftLeft(u, n))
                           \cup Bits(ShiftRight(u, Complement(n))))))
rotate_r_func_32(num1, num2) ==
  LET u == Unum(num1)
      n == Unum(num2)
  IN  Success(Num(FromBits(Bits(ShiftRight(u, n))
                           \cup Bits(ShiftLeft(u, Complement(n))))))
=============================================================================
