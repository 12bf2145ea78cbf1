-------------------------- MODULE SimpleCalcProofs --------------------------
(***************************************************************************)
(* Proofs about SimpleCalc for every width of the words and every number   *)
(* that may be typed: what the signed operators answer and what the exit   *)
(* status tells.                                                           *)
(***************************************************************************)
EXTENDS SimpleCalc, CalcProofs

(* The operands as parse_args stores them, and what the operator makes of  *)
(* them.                                                                   *)
Left    == Convert(argv.oper, argv.left)
Right   == Convert(argv.oper, argv.right)
Outcome == Apply(argv.oper, Left.num, Right.num)

Asked(result, func) == [num1 |-> Left.num, num2 |-> Right.num, result |-> result,
                        oper |-> func, func_ptr |-> func]

(* What main knows between its calls.                                      *)
Parsed == pc \in {"calc_init", "set_calc", "solve_func", "print_result"} =>
            /\ ArgsAccepted
            /\ num1 = Left.num /\ num2 = Right.num
            /\ err = 0
Unallocated == pc \in {"parse_args", "calc_init"} => p_new_calc = NULL
Silent == pc \notin {"free", "exited"} => out = <<>>
Allocated == pc = "set_calc" =>
               p_new_calc = [num1 |-> 0, num2 |-> 0, result |-> 0,
                             oper |-> 0, func_ptr |-> 0]
Set == pc = "solve_func" =>
         Known(argv.oper) /\ p_new_calc = Asked(0, argv.oper)
Solved == pc = "print_result" =>
            /\ Known(argv.oper)
            /\ Outcome.err = 0
            /\ p_new_calc = Asked(Outcome.num, argv.oper)

(* The three ways to the end: no memory, a refusal, a number.              *)
Refused  == /\ err # 0
            /\ out = <<>>
            /\ ArgsAccepted /\ Known(argv.oper) => Outcome.err # 0
Answered == /\ err = 0
            /\ ArgsAccepted /\ Known(argv.oper)
            /\ Outcome.err = 0
            /\ out = <<Printed(Asked(Outcome.num, argv.oper))>>
NoMemory == p_new_calc = NULL /\ err = 0 /\ out = <<>>
Finished == pc = "free" => Refused \/ Answered \/ NoMemory

Inv == /\ argv \in Requests
       /\ Parsed /\ Silent /\ Unallocated /\ Allocated /\ Set /\ Solved /\ Finished

LEMMA InvInit == Init => Inv
BY DEF Init, Inv, Parsed, Silent, Unallocated, Allocated, Set, Solved, Finished

LEMMA InvStep == Inv /\ [Next]_vars => Inv'
<1> SUFFICES ASSUME Inv, [Next]_vars PROVE Inv'
  OBVIOUS
<1> USE DEF Inv
<1>0. argv' = argv
  BY DEF Next, vars, ParseArgs, ArgsRefused, CalcInit, CalcInitFails, SetCalc,
         SetCalcFails, Solve, PrintResult, Free
<1>a. /\ argv' \in Requests
      /\ Left' = Left /\ Right' = Right /\ Outcome' = Outcome
      /\ ArgsAccepted' <=> ArgsAccepted
      /\ \A r, f : Asked(r, f)' = Asked(r, f)
  BY <1>0 DEF Left, Right, Outcome, ArgsAccepted, Asked
<1> USE DEF Parsed, Silent, Unallocated, Allocated, Set, Solved, Finished
<1>1. CASE ParseArgs
  BY <1>0, <1>a, <1>1 DEF ParseArgs, Left, Right
<1>2. CASE ArgsRefused
  BY <1>0, <1>a, <1>2 DEF ArgsRefused, Refused
<1>3. CASE CalcInit
  BY <1>0, <1>a, <1>3 DEF CalcInit
<1>4. CASE CalcInitFails
  BY <1>0, <1>a, <1>4 DEF CalcInitFails, AfterCalcInitFails, NoMemory
<1>5. CASE SetCalc
  <2>1. p_new_calc' = Asked(0, argv.oper)
    <3>1. p_new_calc = [num1 |-> 0, num2 |-> 0, result |-> 0,
                        oper |-> 0, func_ptr |-> 0]
      BY <1>5 DEF SetCalc
    <3>2. p_new_calc' = [p_new_calc EXCEPT !.num1 = Left.num, !.num2 = Right.num,
                           !.oper = argv.oper, !.func_ptr = argv.oper]
      BY <1>5 DEF SetCalc
    <3> QED
      BY ONLY <3>1, <3>2 DEF Asked
  <2>2. Asked(0, argv.oper)' = Asked(0, argv.oper)
    BY <1>0, <1>a DEF Asked
  <2> QED
    BY <1>0, <1>a, <1>5, <2>1, <2>2 DEF SetCalc
<1>6. CASE SetCalcFails
  BY <1>0, <1>a, <1>6 DEF SetCalcFails, Refused
<1>7. CASE Solve
  BY <1>0, <1>a, <1>7 DEF Solve, Refused, Outcome, Asked
<1>8. CASE PrintResult
  BY <1>0, <1>a, <1>8 DEF PrintResult, Answered
<1>9. CASE Free
  BY <1>0, <1>a, <1>9 DEF Free
<1>10. CASE UNCHANGED vars
  BY <1>0, <1>a, <1>10 DEF vars, Refused, Answered, NoMemory
<1> QED
  BY <1>1, <1>2, <1>3, <1>4, <1>5, <1>6, <1>7, <1>8, <1>9, <1>10 DEF Next

(* Whatever the program does: it is in one of the states Inv describes.    *)
THEOREM ProgressInvariant == Spec => []Inv
BY InvInit, InvStep, PTL DEF Spec
-----------------------------------------------------------------------------
(* A conversion succeeds on the operands that the operator is defined for, *)
(* and on those that slip through.                                         *)
LEMMA ConvertChecks ==
  ASSUME NEW t \in Texts
  PROVE  /\ InRange(t) => Convert(argv.oper, t).err = 0
         /\ Convert(argv.oper, t).err = 0 => InRange(t) \/ SlipsThrough(t)
         /\ IsSigned(argv.oper) /\ InRange(t) =>
              /\ Convert(argv.oper, t).num = Typed(t)
              /\ Typed(t) \in Word
<1>1. MODULUS \in Nat \ {0} /\ ULONG_MAX \in Nat /\ ULONG_MAX >= MODULUS - 1
  BY WidthAssumption, LongAssumption DEF MODULUS
<1>2. CASE IsSigned(argv.oper)
  BY <1>2 DEF Convert, InRange, convert_from_string, Success, Failure
<1>3. CASE ~IsSigned(argv.oper)
  <2> DEFINE v == t.value
  <2>1. v \in Nat /\ t.sign \in {"none", "minus", "blanks_minus"}
    BY ValueAssumption DEF Texts
  <2>2. Convert(argv.oper, t).err = 0 <=>
          t.sign # "minus" /\ t.clean /\ v <= ULONG_MAX /\ strtoul(t) \in UWord
    BY <1>3 DEF Convert, convert_from_string_unsigned, Success, Failure
  <2>3. InRange(t) <=> t.clean /\ t.sign = "none" /\ v \in 0 .. MODULUS - 1
    BY <1>3 DEF InRange, Negative, UWord
  <2>4. SlipsThrough(t) <=> /\ t.clean /\ t.sign = "blanks_minus"
                            /\ v = 0 \/ v \in ULONG_MAX + 2 - MODULUS .. ULONG_MAX
    BY <1>3 DEF SlipsThrough
  <2>5. strtoul(t) = IF t.sign # "none" /\ v # 0 THEN ULONG_MAX + 1 - v ELSE v
    BY DEF strtoul, Negative
  <2> HIDE DEF v
  <2>6. strtoul(t) \in 0 .. MODULUS - 1 <=> strtoul(t) \in UWord
    BY DEF UWord
  <2>7. InRange(t) => Convert(argv.oper, t).err = 0
    BY <1>1, <2>1, <2>2, <2>3, <2>5, <2>6
  <2>8. Convert(argv.oper, t).err = 0 => InRange(t) \/ SlipsThrough(t)
    BY <1>1, <2>1, <2>2, <2>3, <2>4, <2>5, <2>6
  <2> QED
    BY <1>3, <2>7, <2>8
<1> QED
  BY <1>2, <1>3

(* At the end of main, when memory was not short, an equation is answered  *)
(* or refused by the function of its operator.                             *)
LEMMA EndOfMain ==
  ASSUME Inv, Ended
  PROVE  /\ Refused \/ Answered
         /\ WellFormed => ArgsAccepted /\ Known(argv.oper)
         /\ argv.left \in Texts /\ argv.right \in Texts
<1>1. Refused \/ Answered
  BY DEF Inv, Finished, Ended, NoMemory
<1>2. argv.oper # 0 <=> Known(argv.oper)
  BY DEF Inv, Requests, Known, NUM_OPERS
<1>3. argv.left \in Texts /\ argv.right \in Texts
  BY DEF Inv, Requests
<1> QED
  BY <1>1, <1>2, <1>3, ConvertChecks DEF WellFormed, ArgsAccepted

(* The same for the signed operators, in terms of the typed numbers.       *)
LEMMA EndOfSigned ==
  ASSUME Inv, Ended, WellFormed, IsSigned(argv.oper)
  PROVE  LET a == Typed(argv.left)
             b == Typed(argv.right)
             r == Apply(argv.oper, a, b)
         IN  /\ a \in Word /\ b \in Word
             /\ out = IF r.err = 0 THEN <<r.num>> ELSE <<>>
<1> DEFINE a == Typed(argv.left)
           b == Typed(argv.right)
           r == Apply(argv.oper, a, b)
<1>1. /\ a \in Word /\ b \in Word
      /\ Left.num = a /\ Right.num = b
  BY EndOfMain, ConvertChecks DEF WellFormed, Left, Right
<1>2. Outcome = r
  BY <1>1 DEF Outcome
<1>3. argv.oper <= MOD
  BY EndOfMain DEF IsSigned, Known
<1>4. CASE Refused
  BY <1>1, <1>2, <1>4, EndOfMain DEF Refused
<1>5. CASE Answered
  BY <1>1, <1>2, <1>3, <1>5 DEF Answered, Printed, Asked
<1> QED
  BY <1>1, <1>4, <1>5, EndOfMain

(* The functions of the signed operators.                                  *)
LEMMA SignedFunctions ==
  ASSUME NEW a, NEW b
  PROVE  /\ Apply(ADD, a, b) = add_func_32(a, b)
         /\ Apply(SUB, a, b) = sub_func_32(a, b)
         /\ Apply(MULT, a, b) = mult_func_32(a, b)
         /\ Apply(DIV, a, b) = div_func_32(a, b)
         /\ Apply(MOD, a, b) = mod_func_32(a, b)
BY DEF Apply, ADD, SUB, MULT, DIV, MOD, SHL, SHR, AND, OR, XOR, ROL, ROR

(* The dispatch of the 32-bit calculator is that of the 64-bit one.        *)
LEMMA SameFunctions ==
  ASSUME NEW op \in 0 .. NUM_OPERS - 1, NEW a, NEW b
  PROVE  Apply(op, a, b) = set_math_func(op, a, b)
<1> USE DEF ADD, SUB, MULT, DIV, MOD, SHL, SHR, AND, OR, XOR, ROL, ROR
<1>1. op \in {0, 1, 2, 3, 4, 5, 6, 7, 8, 9, 10, 11, 12}
  BY DEF NUM_OPERS
<1> QED
  BY <1>1 DEF Apply, set_math_func, add_func, sub_func, mult_func, div_func,
     mod_func, shift_l_func, shift_r_func, and_func, or_func, xor_func,
     rotate_l_func, rotate_r_func

(* An accepted operand is stored as a word, whose unsigned view is the     *)
(* number typed when the operator is unsigned and there was no sign.       *)
LEMMA AcceptedOperands ==
  ASSUME NEW t, Convert(argv.oper, t).err = 0
  PROVE  /\ Convert(argv.oper, t).num \in Word
         /\ ~IsSigned(argv.oper) /\ ~Negative(t) =>
              Unum(Convert(argv.oper, t).num) = t.value
BY UnumOfNum DEF Convert, convert_from_string, convert_from_string_unsigned,
   strtoul, Success, Failure
-----------------------------------------------------------------------------
(* Every operand and every result, and so every number that is printed, is *)
(* a word of the machine, and no function is called without a calculator.  *)
THEOREM SimpleTypeCorrect == Spec => []TypeOK
<1> USE DEF Inv
<1>0. INT_MAX \in Nat /\ 0 \in Word /\ \A w \in Word : w \in Int
  BY WidthAssumption DEF Word, INT_MIN
<1>1. Init => TypeOK
  BY <1>0 DEF Init, TypeOK
<1>2. TypeOK /\ Inv /\ [Next]_vars => TypeOK'
  <2> SUFFICES ASSUME TypeOK, Inv, [Next]_vars PROVE TypeOK'
    OBVIOUS
  <2> USE DEF TypeOK
  <2>1. CASE ParseArgs
    BY <2>1, AcceptedOperands DEF ParseArgs, ArgsAccepted
  <2>2. CASE ArgsRefused
    BY <2>2 DEF ArgsRefused
  <2>3. CASE CalcInit
    BY <1>0, <2>3, NullAssumption DEF CalcInit, Calcs, NUM_OPERS
  <2>4. CASE CalcInitFails
    BY <2>4 DEF CalcInitFails, AfterCalcInitFails
  <2>5. CASE SetCalc
    <3>1. p_new_calc = [num1 |-> 0, num2 |-> 0, result |-> 0,
                        oper |-> 0, func_ptr |-> 0]
      BY <2>5 DEF SetCalc, Allocated
    <3>2. p_new_calc' = [num1 |-> num1, num2 |-> num2, result |-> 0,
                         oper |-> argv.oper, func_ptr |-> argv.oper]
      BY <2>5, <3>1 DEF SetCalc
    <3>3. argv.oper \in 0 .. NUM_OPERS - 1
      BY DEF Requests
    <3>4. p_new_calc' \in Calcs
      BY <1>0, <3>2, <3>3 DEF Calcs
    <3> QED
      BY <2>5, <3>4, NullAssumption DEF SetCalc
  <2>6. CASE SetCalcFails
    BY <2>6 DEF SetCalcFails
  <2>7. CASE Solve
    <3>1. p_new_calc = Asked(0, argv.oper) /\ num1 = Left.num /\ num2 = Right.num
      BY <2>7 DEF Solve, Set, Parsed
    <3>2. argv.oper \in 0 .. NUM_OPERS - 1 /\ argv.oper \in Int
      BY DEF Requests, NUM_OPERS
    <3> DEFINE r == Apply(argv.oper, num1, num2)
    <3>3. r.err = -1 \/ (r.err = 0 /\ r.num \in Word)
      BY <3>2, SameFunctions, FunctionsReturnWords
    <3>4. /\ err' = r.err
          /\ IF r.err = 0 THEN /\ p_new_calc' = Asked(r.num, argv.oper)
                               /\ pc' = "print_result"
                          ELSE pc' = "free" /\ p_new_calc' = p_new_calc
      BY <2>7, <3>1 DEF Solve, Asked
    <3> HIDE DEF r
    <3>5. r.err = 0 => p_new_calc' \in Calcs
      BY <3>1, <3>2, <3>3, <3>4 DEF Asked, Calcs
    <3> QED
      BY <2>7, <3>3, <3>4, <3>5, NullAssumption DEF Solve
  <2>8. CASE PrintResult
    <3>1. /\ p_new_calc = Asked(Outcome.num, argv.oper)
          /\ num1 = Left.num /\ num2 = Right.num /\ Outcome.err = 0
      BY <2>8 DEF PrintResult, Solved, Parsed
    <3>2. argv.oper \in 0 .. NUM_OPERS - 1 /\ argv.oper \in Int
      BY DEF Requests, NUM_OPERS
    <3>3. Outcome.num \in Word
      BY <3>1, <3>2, SameFunctions, FunctionsReturnWords DEF Outcome
    <3>4. Printed(p_new_calc) \in Word \cup UWord
      BY <1>0, <3>1, <3>3, UnumIsUWord DEF Printed, Asked
    <3> QED
      BY <2>8, <3>4 DEF PrintResult
  <2>9. CASE Free
    BY <2>9 DEF Free
  <2>10. CASE UNCHANGED vars
    BY <2>10 DEF vars
  <2> QED
    BY <2>1, <2>2, <2>3, <2>4, <2>5, <2>6, <2>7, <2>8, <2>9, <2>10 DEF Next
<1> QED
  BY <1>1, <1>2, ProgressInvariant, PTL DEF Spec

(* The exit status of simplecalc tells whether it printed a number, and it *)
(* prints none for arguments that are not an equation.                     *)
THEOREM StatusTellsTheOutcome == Spec => []StatusTells
<1>1. Inv => StatusTells
  <2> SUFFICES ASSUME Inv, Ended
               PROVE  /\ err = 0 <=> out # <<>>
                      /\ out # <<>> =>
                           /\ argv.argc = VALID_NUM_ARGS
                           /\ argv.oper # 0
                           /\ \A t \in {argv.left, argv.right} :
                                InRange(t) \/ SlipsThrough(t)
    BY DEF StatusTells
  <2>1. CASE Refused
    BY <2>1 DEF Refused
  <2>2. CASE Answered
    <3>1. err = 0 /\ out # <<>> /\ ArgsAccepted /\ Known(argv.oper)
      BY <2>2 DEF Answered
    <3>2. \A t \in {argv.left, argv.right} : InRange(t) \/ SlipsThrough(t)
      BY <3>1, EndOfMain, ConvertChecks DEF ArgsAccepted
    <3> QED
      BY <3>1, <3>2 DEF ArgsAccepted, Known
  <2> QED
    BY <2>1, <2>2, EndOfMain
<1> QED
  BY <1>1, ProgressInvariant, PTL

(* Subtraction prints every difference that is a word except INT_MIN, and  *)
(* prints INT_MIN for the one that is one too large.                       *)
THEOREM SubtractionIsOffByOne == Spec => []SubOffByOne
<1>1. Inv => SubOffByOne
  <2> DEFINE a == Typed(argv.left)
             b == Typed(argv.right)
  <2> SUFFICES ASSUME Inv, Ended, WellFormed, argv.oper = SUB
               PROVE  out = CASE a - b \in Word \ {INT_MIN} -> <<a - b>>
                              [] a - b = INT_MAX + 1 -> <<INT_MIN>>
                              [] OTHER -> <<>>
    BY DEF SubOffByOne
  <2>1. /\ a \in Word /\ b \in Word
        /\ out = IF sub_func_32(a, b).err = 0
                   THEN <<sub_func_32(a, b).num>> ELSE <<>>
    BY EndOfSigned, SignedFunctions DEF IsSigned, Known, NUM_OPERS, SUB, MOD
  <2>2. /\ INT_MAX \in Nat /\ a - b \in Int /\ INT_MIN = -INT_MAX - 1
        /\ validate_sub_32(a, b) <=> a - b \in INT_MIN + 1 .. INT_MAX + 1
    BY <2>1, SubRefusesOneTooFew, WidthAssumption DEF Word, INT_MIN
  <2>3. CASE a - b \in Word \ {INT_MIN}
    <3>1. validate_sub_32(a, b) /\ a - b # INT_MAX + 1
      BY <2>2, <2>3 DEF Word
    <3>2. out = <<a - b>>
      BY <2>1, <2>3, <3>1 DEF sub_func_32, Success, Wrap
    <3> QED
      BY <2>3, <3>1, <3>2
  <2>4. CASE a - b = INT_MAX + 1
    <3>1. validate_sub_32(a, b) /\ a - b \notin Word
      BY <2>2, <2>4 DEF Word
    <3>2. out = <<INT_MIN>>
      BY <2>1, <2>4, <3>1, WrapPastTheEnd DEF sub_func_32, Success
    <3> QED
      BY <2>4, <3>1, <3>2
  <2>5. CASE a - b \notin Word \ {INT_MIN} /\ a - b # INT_MAX + 1
    <3>1. ~validate_sub_32(a, b)
      BY <2>2, <2>5 DEF Word
    <3> QED
      BY <2>1, <2>5, <3>1 DEF sub_func_32, Failure
  <2> QED
    BY <2>3, <2>4, <2>5
<1> QED
  BY <1>1, ProgressInvariant, PTL

(* +, *, / and % print the exact result, and refuse an equation only when  *)
(* it has none that is a word.                                             *)
THEOREM SignedAnswersAreExact == Spec => []SignedAnswers
<1>1. Inv => SignedAnswers
  <2> DEFINE a == Typed(argv.left)
             b == Typed(argv.right)
             r == Apply(argv.oper, a, b)
  <2> SUFFICES ASSUME Inv, Ended, WellFormed,
                      argv.oper \in {ADD, MULT, DIV, MOD}
               PROVE  IF \E w \in Word : Means(argv.oper, a, b, w)
                        THEN out # <<>> /\ Means(argv.oper, a, b, out[1])
                        ELSE out = <<>>
    BY DEF SignedAnswers
  <2>1. /\ a \in Word /\ b \in Word
        /\ out = IF r.err = 0 THEN <<r.num>> ELSE <<>>
    BY EndOfSigned DEF IsSigned, Known, NUM_OPERS, ADD, MULT, DIV, MOD
  <2> HIDE DEF a, b
  <2>2. \/ r.err = 0 /\ r.num \in Word /\ Means(argv.oper, a, b, r.num)
        \/ r.err # 0 /\ \A w \in Word : ~Means(argv.oper, a, b, w)
    <3>1. CASE argv.oper = ADD
      BY <2>1, <3>1, AddRefusesOverflow, MeansByOperator, SignedFunctions
         DEF add_func_32, Success, Failure, Wrap
    <3>2. CASE argv.oper = MULT
      BY <2>1, <3>2, MultRefusesOverflow, MeansByOperator, SignedFunctions
         DEF mult_func_32, Success, Failure, Wrap
    <3>3. CASE argv.oper = DIV
      BY <2>1, <3>3, DivAnswers, SignedFunctions DEF div_func_32, Success, Failure
    <3>4. CASE argv.oper = MOD
      BY <2>1, <3>4, ModAnswers, SignedFunctions DEF mod_func_32, Success, Failure
    <3> QED
      BY <3>1, <3>2, <3>3, <3>4
  <2> QED
    BY <2>1, <2>2
<1> QED
  BY <1>1, ProgressInvariant, PTL

(* Shifts, rotations and the bitwise operators print the unsigned number   *)
(* with the bits that the typed numbers give, however the operands were    *)
(* stored; rotations for every count.                                      *)
THEOREM UnsignedAnswersAreExact == Spec => []UnsignedAnswers
<1>1. Inv => UnsignedAnswers
  <2> DEFINE op == argv.oper
             u == argv.left.value
             n == argv.right.value
  <2> SUFFICES ASSUME Inv, Ended, WellFormed, op \in SHL .. ROR
               PROVE  /\ out # <<>> /\ out[1] \in UWord
                      /\ n < NUM_BITS \/ op \notin {SHL, SHR} =>
                           Bits(out[1]) = ResultBits(op, u, n)
    BY DEF UnsignedAnswers
  <2>1. op \in 0 .. NUM_OPERS - 1 /\ ~IsSigned(op) /\ ~(op <= MOD)
    BY DEF IsSigned, Known, NUM_OPERS, SHL, ROR, MOD
  <2>2. ArgsAccepted /\ Known(op)
    BY EndOfMain
  <2>3. /\ Left.num \in Word /\ Unum(Left.num) = u
        /\ Right.num \in Word /\ Unum(Right.num) = n
    BY <2>1, <2>2, AcceptedOperands DEF ArgsAccepted, Left, Right, WellFormed, InRange
  <2>4. Outcome = set_math_func(op, Left.num, Right.num)
    BY <2>1, SameFunctions DEF Outcome
  <2>5. /\ Outcome.err = 0 /\ Unum(Outcome.num) \in UWord
        /\ n < NUM_BITS \/ op \notin {SHL, SHR} =>
             Bits(Unum(Outcome.num)) = ResultBits(op, u, n)
    BY <2>3, <2>4, BitAnswers
  <2>6. Answered
    BY <2>2, <2>5, EndOfMain DEF Refused
  <2>7. out = <<Unum(Outcome.num)>>
    BY <2>1, <2>6 DEF Answered, Printed, Asked
  <2> QED
    BY <2>5, <2>7
<1> QED
  BY <1>1, ProgressInvariant, PTL
=============================================================================
