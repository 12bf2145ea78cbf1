---------------------------- MODULE MCThreadCalc ----------------------------
(***************************************************************************)
(* What the files hold in TLC's instances of ThreadCalc.                   *)
(***************************************************************************)
EXTENDS ThreadCalc

Eq(op, a, b) == [operator |-> op, num1 |-> a, num2 |-> b]
File(n, equations) == [valid |-> TRUE, count |-> n, eqs |-> equations]

\* A file that is refused; a regular one, with a signed and an unsigned
\* operator; one with more equations than it announces, the last of which
\* cannot be solved; and one whose number of equations is negative as an int.
MCContents == { [valid |-> FALSE, count |-> 0, eqs |-> <<>>],
                File(2, <<Eq(MOD, INT_MIN + 1, 4), Eq(SHL, 5, 1)>>),
                File(1, <<Eq(SHR, -1, 1), Eq(MULT, -2, 3), Eq(ADD, INT_MAX, 1)>>),
                File(IntMax + 1, <<Eq(SUB, 0, 1)>>) }

\* A file with one equation more than it announces, the first a difference
\* that is too large.  The others violate SolvedAsGraded, too, when they take
\* its place: an equation that cannot be solved before one that can, and a
\* number of equations that is 0 as an int.
GradedFile     == { File(1, <<Eq(SUB, 0, INT_MIN), Eq(ADD, 1, 2)>>) }
UnsolvableFile == { File(2, <<Eq(DIV, 1, 0), Eq(ADD, 1, 2)>>) }
CountlessFile  == { File(2 * (IntMax + 1), [i \in 1 .. 2 * (IntMax + 1) |-> Eq(ADD, 1, 1)]) }

\* Operators on both sides of every bound that the byte passes.
Operators == {-128, -1, 0, 13, 127} \cup ADD .. ROR

(* Every equation that a file can hold, of this width: it is solved if and *)
(* only if it is solvable, and the solution tells its answer; but for the  *)
(* two differences that validate_sub misjudges.                            *)
ASSUME EveryEquation ==
  \A e \in [operator : Operators, num1 : Word, num2 : Word] :
    /\ solve_func(e).err = 0 <=> (Solvable(e) # Misjudged(e))
    /\ solve_func(e).err = 0 /\ ~TooLarge(e) => Answers(NumberTold(Solution(e)), e)
=============================================================================
