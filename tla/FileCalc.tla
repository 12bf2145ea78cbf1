------------------------------ MODULE FileCalc ------------------------------
(***************************************************************************)
(* Equations in files: the 64-bit calculator of calc_handle.c and          *)
(* math_funcs.c, as process_equations of threadcalc and parse_stream of    *)
(* netcalc use it, and the solutions that write_file and write_stream make *)
(* of its results.                                                         *)
(*                                                                         *)
(* math_funcs.c is math_funcs_thirty_two.c with int64_t for int32_t and    *)
(* llabs for abs, so each function is that of CalcOps at its own width.    *)
(* In a file both operands of every operator are signed, and the operator  *)
(* is a byte that may have any value.                                      *)
(***************************************************************************)
EXTENDS Equations

INT == 1
UINT == 2

Int8 == -128 .. 127

Equation == [operator : Int8, num1 : Word, num2 : Word]
-----------------------------------------------------------------------------
add_func(num1, num2)      == add_func_32(num1, num2)
sub_func(num1, num2)      == sub_func_32(num1, num2)
mult_func(num1, num2)     == mult_func_32(num1, num2)
div_func(num1, num2)      == div_func_32(num1, num2)
mod_func(num1, num2)      == mod_func_32(num1, num2)
shift_l_func(num1, num2)  == shift_l_func_32(num1, num2)
shift_r_func(num1, num2)  == shift_r_func_32(num1, num2)
and_func(num1, num2)      == and_func_32(num1, num2)
or_func(num1, num2)       == or_func_32(num1, num2)
xor_func(num1, num2)      == xor_func_32(num1, num2)
rotate_l_func(num1, num2) == rotate_l_func_32(num1, num2)
rotate_r_func(num1, num2) == rotate_r_func_32(num1, num2)

(* The function that set_math_func selects, applied; NULL for others.      *)
set_math_func(oper, num1, num2) ==
  CASE oper = ADD  -> add_func(num1, num2)
    [] oper = SUB  -> sub_func(num1, num2)
    [] oper = MULT -> mult_func(num1, num2)
    [] oper = DIV  -> div_func(num1, num2)
    [] oper = MOD  -> mod_func(num1, num2)
    [] oper = SHL  -> shift_l_func(num1, num2)
    [] oper = SHR  -> shift_r_func(num1, num2)
    [] oper = AND  -> and_func(num1, num2)
    [] oper = OR   -> or_func(num1, num2)
    [] oper = XOR  -> xor_func(num1, num2)
    [] oper = ROL  -> rotate_l_func(num1, num2)
    [] oper = ROR  -> rotate_r_func(num1, num2)
    [] OTHER       -> Failure

\* rep_op = (unsigned char)*p_oper
rep_op(equation) == equation.operator % 256

\* set_calc_file refuses an operator that set_math_func does not know, and
\* solve_func calls the function of every other.
solve_func(equation) ==
  set_math_func(rep_op(equation), equation.num1, equation.num2)

\* Up to MOD64 the solution is signed.
SolutionType(oper) == IF oper <= MOD THEN INT ELSE UINT

\* The fields of the solve_equation_t that tell the result of an equation
\* that solve_func solves.
Solution(equation) == [solution |-> solve_func(equation).num,
                       solution_type |-> SolutionType(rep_op(equation))]
-----------------------------------------------------------------------------
\* The number that a solution tells its reader.
NumberTold(s) == IF s.solution_type = INT THEN s.solution ELSE Unum(s.solution)

\* The equations that are to be solved, by their meaning.
Solvable(e) ==
  \/ /\ e.operator \in {ADD, MULT, DIV, MOD}
     /\ \E r \in Word : Means(e.operator, e.num1, e.num2, r)
  \/ /\ e.operator = SUB
     /\ e.num1 - e.num2 \in Word
  \/ e.operator \in SHL .. ROR

\* n is the answer to e: the exact result, or the bits that the unsigned view
\* of the operands gives (C defines a shift only for a count below the width).
Answers(n, e) ==
  \/ /\ e.operator \in {ADD, MULT, DIV, MOD}
     /\ n \in Word /\ Means(e.operator, e.num1, e.num2, n)
  \/ /\ e.operator = SUB
     /\ n = e.num1 - e.num2
  \/ /\ e.operator \in SHL .. ROR
     /\ n \in UWord
     /\ Unum(e.num2) < NUM_BITS \/ e.operator \notin {SHL, SHR} =>
          Bits(n) = ResultBits(e.operator, Unum(e.num1), Unum(e.num2))

\* The differences that validate_sub misjudges: it lets the first pass, which
\* is no word, and refuses the second, which is one.
TooLarge(e)  == e.operator = SUB /\ e.num1 - e.num2 = INT_MAX + 1
Misjudged(e) == TooLarge(e) \/ (e.operator = SUB /\ e.num1 - e.num2 = INT_MIN)
=============================================================================
