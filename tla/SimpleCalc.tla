----------------------------- MODULE SimpleCalc -----------------------------
(***************************************************************************)
(* The simplecalc program: main of simple_main.c, the argument parsing of  *)
(* cli_handle.c and the dispatch of calc_handle_thirty_two.c, around the   *)
(* arithmetic of CalcOps.  One action per call of main.                    *)
(*                                                                         *)
(* An argument is a text: what it begins with, the number its digits       *)
(* denote (0 when it has none, as for strtol), and whether strtol consumes *)
(* all of it; so an empty text is the same as "0", as it is for the code.  *)
(* It begins with a minus sign, with blanks and a minus sign, which strtol *)
(* takes for the same, or with neither: blanks or a plus sign before the   *)
(* digits make no difference to the code.  An operator is its index in     *)
(* p_ops_str, 0 for a text that is not in that table.                      *)
(***************************************************************************)
EXTENDS Equations

CONSTANTS ULONG_MAX,  \* largest unsigned long
          MaxValue,   \* bound on the numbers that are typed
          NULL

\* A long is at least as wide as an operand.
ASSUME LongAssumption == ULONG_MAX \in Nat /\ ULONG_MAX >= MODULUS - 1

ASSUME ValueAssumption == MaxValue \in Nat

\* What a calc_t_32 holds; NULL is none.
Calcs == [num1 : Word, num2 : Word, result : Word,
          oper : 0 .. NUM_OPERS - 1, func_ptr : 0 .. NUM_OPERS - 1]

ASSUME NullAssumption == NULL \notin Calcs

VARIABLES pc,         \* the next call of main
          argv,       \* argc and argv
          num1, num2, \* main's operands, by their signed member
          p_new_calc, \* the calc_t_32, or NULL
          err,        \* main's err, the exit status
          out         \* what is printed: nothing or one number

vars == <<pc, argv, num1, num2, p_new_calc, err, out>>

VALID_NUM_ARGS == 4

Texts == {t \in [sign  : {"none", "minus", "blanks_minus"},
                 value : 0 .. MaxValue,
                 clean : BOOLEAN] : t.clean \/ t.value = 0}

Requests == [argc  : {VALID_NUM_ARGS - 1, VALID_NUM_ARGS},
             oper  : 0 .. NUM_OPERS - 1,
             left  : Texts,
             right : Texts]

Init == /\ pc = "parse_args"
        /\ argv \in Requests
        /\ num1 = 0
        /\ num2 = 0
        /\ p_new_calc = NULL
        /\ err = -1
        /\ out = <<>>
-----------------------------------------------------------------------------
Negative(t) == t.sign # "none"
Typed(t)    == IF Negative(t) THEN -t.value ELSE t.value

Known(oper) == oper \in 1 .. NUM_OPERS - 1

(* The operators up to MOD are signed.  A text that is not in the table    *)
(* ends the loop of choose_check_32 with the index of the last operator.   *)
IsSigned(oper) == (IF Known(oper) THEN oper ELSE NUM_OPERS - 1) <= MOD

(* convert_from_string; its "No digits" test refuses only texts that the   *)
(* test after it refuses as well.                                          *)
convert_from_string(t) ==
  IF t.clean /\ Typed(t) \in Word THEN Success(Typed(t)) ELSE Failure

(* strtoul negates in an unsigned long what follows a minus sign.          *)
strtoul(t) == IF Negative(t) /\ t.value # 0 THEN ULONG_MAX + 1 - t.value
                                            ELSE t.value

(* A value that is no unsigned long is an ERANGE.  The others go, when     *)
(* they fit, into the unsigned member of the union.                        *)
convert_from_string_unsigned(t) ==
  IF t.clean /\ t.value <= ULONG_MAX /\ strtoul(t) \in UWord
    THEN Success(Num(strtoul(t)))
    ELSE Failure

(* The first character of an operand of a bit operation is no minus sign.  *)
ConvertAnySign(oper, t) ==
  IF IsSigned(oper) THEN convert_from_string(t) ELSE convert_from_string_unsigned(t)
Convert(oper, t) ==
  IF IsSigned(oper) THEN convert_from_string(t)
  ELSE IF t.sign = "minus" THEN Failure ELSE convert_from_string_unsigned(t)

ArgsAccepted == /\ argv.argc = VALID_NUM_ARGS
                /\ Convert(argv.oper, argv.left).err = 0
                /\ Convert(argv.oper, argv.right).err = 0

ParseArgs == /\ pc = "parse_args"
             /\ ArgsAccepted
             /\ num1' = Convert(argv.oper, argv.left).num
             /\ num2' = Convert(argv.oper, argv.right).num
             /\ err' = 0
             /\ pc' = "calc_init"
             /\ UNCHANGED <<argv, p_new_calc, out>>

(* What a first operand may have left in num1 is not read again.           *)
ArgsRefused == /\ pc = "parse_args"
               /\ ~ArgsAccepted
               /\ err' = -1
               /\ pc' = "free"
               /\ UNCHANGED <<argv, num1, num2, p_new_calc, out>>

(* calloc; main keeps err, which is 0, when it fails.                      *)
CalcInit == /\ pc = "calc_init"
            /\ p_new_calc' = [num1 |-> 0, num2 |-> 0, result |-> 0,
                              oper |-> 0, func_ptr |-> 0]
            /\ pc' = "set_calc"
            /\ UNCHANGED <<argv, num1, num2, err, out>>

AfterCalcInitFailsGoOn == "set_calc"
AfterCalcInitFails == "free"

CalcInitFails == /\ pc = "calc_init"
                 /\ pc' = AfterCalcInitFails
                 /\ UNCHANGED <<argv, num1, num2, p_new_calc, err, out>>

SetCalc == /\ pc = "set_calc"
           /\ Known(argv.oper)
           /\ p_new_calc' = [p_new_calc EXCEPT !.num1 = num1, !.num2 = num2,
                               !.oper = argv.oper, !.func_ptr = argv.oper]
           /\ err' = 0
           /\ pc' = "solve_func"
           /\ UNCHANGED <<argv, num1, num2, out>>

SetCalcFails == /\ pc = "set_calc"
                /\ ~Known(argv.oper)
                /\ err' = -1
                /\ pc' = "free"
                /\ UNCHANGED <<argv, num1, num2, p_new_calc, out>>

(* The function that set_math_func_32 selects, called by solve_func_32.    *)
Apply(func, a, b) ==
  CASE func = 0    -> Failure
    [] func = ADD  -> add_func_32(a, b)
    [] func = SUB  -> sub_func_32(a, b)
    [] func = MULT -> mult_func_32(a, b)
    [] func = DIV  -> div_func_32(a, b)
    [] func = MOD  -> mod_func_32(a, b)
    [] func = SHL  -> shift_l_func_32(a, b)
    [] func = SHR  -> shift_r_func_32(a, b)
    [] func = AND  -> and_func_32(a, b)
    [] func = OR   -> or_func_32(a, b)
    [] func = XOR  -> xor_func_32(a, b)
    [] func = ROL  -> rotate_l_func_32(a, b)
    [] func = ROR  -> rotate_r_func_32(a, b)

Solve == /\ pc = "solve_func"
         /\ LET r == Apply(p_new_calc.func_ptr, p_new_calc.num1, p_new_calc.num2)
            IN  /\ err' = r.err
                /\ IF r.err = 0
                     THEN /\ p_new_calc' = [p_new_calc EXCEPT !.result = r.num]
                          /\ pc' = "print_result"
                     ELSE /\ pc' = "free"
                          /\ UNCHANGED p_new_calc
         /\ UNCHANGED <<argv, num1, num2, out>>

Printed(calc) == IF calc.oper <= MOD THEN calc.result ELSE Unum(calc.result)

PrintResult == /\ pc = "print_result"
               /\ out' = <<Printed(p_new_calc)>>
               /\ pc' = "free"
               /\ UNCHANGED <<argv, num1, num2, p_new_calc, err>>

Free == /\ pc = "free"
        /\ p_new_calc' = NULL
        /\ pc' = "exited"
        /\ UNCHANGED <<argv, num1, num2, err, out>>

Next == \/ ParseArgs \/ ArgsRefused \/ CalcInit \/ CalcInitFails
        \/ SetCalc \/ SetCalcFails \/ Solve \/ PrintResult \/ Free

Spec == Init /\ [][Next]_vars
-----------------------------------------------------------------------------
(* Every operand and every result is a word of the machine, and main calls *)
(* the functions of calc_handle_thirty_two.c with a calculator only.       *)
TypeOK ==
  /\ pc \in {"parse_args", "calc_init", "set_calc", "solve_func",
             "print_result", "free", "exited"}
  /\ argv \in Requests
  /\ num1 \in Word /\ num2 \in Word
  /\ pc \in {"set_calc", "solve_func", "print_result"} => p_new_calc # NULL
  /\ p_new_calc \in Calcs \cup {NULL}
  /\ err \in {-1, 0}
  /\ out = <<>> \/ \E n \in Word \cup UWord : out = <<n>>

(* The operands as their writer means them, for the kind of operator.      *)
InRange(t) == t.clean /\ IF IsSigned(argv.oper)
                           THEN Typed(t) \in Word
                           ELSE ~Negative(t) /\ t.value \in UWord
WellFormed == /\ argv.argc = VALID_NUM_ARGS
              /\ argv.oper # 0
              /\ InRange(argv.left) /\ InRange(argv.right)

\* main has come to its end and was not short of memory.
Ended == pc = "free" /\ (p_new_calc = NULL => err # 0)

(* +, *, / and %: what is printed is the exact result, and an equation is  *)
(* refused only when the exact result does not exist or is not a word.     *)
(* INT_MIN is a word: line 7 of SimpleCalc.tests wants a sum of INT_MIN    *)
(* refused all the same, see SumOfIntMinIsRefused below.                   *)
SignedAnswers ==
  Ended /\ WellFormed /\ argv.oper \in {ADD, MULT, DIV, MOD} =>
    LET a == Typed(argv.left)
        b == Typed(argv.right)
    IN  IF \E r \in Word : Means(argv.oper, a, b, r)
          THEN out # <<>> /\ Means(argv.oper, a, b, out[1])
          ELSE out = <<>>

(* Subtraction: validate_sub_32 is off by one at both ends, and only there.*)
(* A difference of INT_MAX + 1 is printed as INT_MIN, and one of INT_MIN   *)
(* is refused; every other one is printed if and only if it is a word.     *)
SubOffByOne ==
  Ended /\ WellFormed /\ argv.oper = SUB =>
    LET difference == Typed(argv.left) - Typed(argv.right)
    IN  out = CASE difference \in Word \ {INT_MIN} -> <<difference>>
                [] difference = INT_MAX + 1 -> <<INT_MIN>>
                [] OTHER -> <<>>

(* Shifts, rotations and the bitwise operators: whatever the signed view   *)
(* of an operand on the way, the unsigned number printed has the bits that *)
(* the typed numbers give.  Rotations hold for every count, 0 and more     *)
(* than the width included; C defines a shift only for a smaller count.    *)
UnsignedAnswers ==
  Ended /\ WellFormed /\ argv.oper \in SHL .. ROR =>
    /\ out # <<>> /\ out[1] \in UWord
    /\ argv.right.value < NUM_BITS \/ argv.oper \notin {SHL, SHR} =>
         Bits(out[1]) = ResultBits(argv.oper, argv.left.value, argv.right.value)

(* What the test of the first character misses: blanks, a minus sign and 0 *)
(* or a number whose negative, in an unsigned long, is an unsigned word.   *)
SlipsThrough(t) == /\ ~IsSigned(argv.oper)
                   /\ t.clean /\ t.sign = "blanks_minus"
                   /\ \/ t.value = 0
                      \/ t.value \in ULONG_MAX + 2 - MODULUS .. ULONG_MAX

(* The exit status tells whether a number was printed, and none is printed *)
(* for arguments that are not an equation: a text outside the operator     *)
(* table, which choose_check_32 takes for the last operator, a malformed   *)
(* operand, one out of range or, but for those that slip through, a        *)
(* negative one of a bit operation.                                        *)
StatusTells ==
  Ended => /\ err = 0 <=> out # <<>>
           /\ out # <<>> => /\ argv.argc = VALID_NUM_ARGS
                            /\ argv.oper # 0
                            /\ \A t \in {argv.left, argv.right} :
                                 InRange(t) \/ SlipsThrough(t)

(* "Negative numbers not accepted for bit related equations", says the     *)
(* README of simplecalc; a blank before the sign gets one accepted.        *)
NegativesNotAccepted ==
  out # <<>> /\ argv.oper \in SHL .. ROR =>
    ~Negative(argv.left) /\ ~Negative(argv.right)

(* SimpleCalc.tests:7, "-2147483647 + -1 FAIL": a sum of INT_MIN is        *)
(* refused.  The code prints it, for it is a word.                         *)
SumOfIntMinIsRefused ==
  Ended /\ WellFormed /\ argv.oper = ADD
        /\ Typed(argv.left) + Typed(argv.right) = INT_MIN => out = <<>>

(* validate_sub_32: "check that the subtract function will not over or     *)
(* underflow".                                                             *)
SubDoesNotOverflow ==
  Ended /\ WellFormed /\ argv.oper = SUB /\ out # <<>> =>
    out[1] = Typed(argv.left) - Typed(argv.right)
=============================================================================
