------------------------------ MODULE Equations ------------------------------
(***************************************************************************)
(* The operators of an equation, which have the same numbers in            *)
(* calc_handle_thirty_two.h and in calc_handle.h, and what an equation     *)
(* means: a reference that owes nothing to the code's arithmetic.          *)
(***************************************************************************)
EXTENDS CalcOps

ADD == 1
SUB == 2
MULT == 3
DIV == 4
MOD == 5
SHL == 6
SHR == 7
AND == 8
OR == 9
XOR == 10
ROL == 11
ROR == 12
NUM_OPERS == 13
-----------------------------------------------------------------------------
\* r is what a op b means, by definition and not by the code's arithmetic.
Means(op, a, b, r) ==
  CASE op = ADD  -> r = a + b
    [] op = MULT -> r = a * b
    [] op = DIV  -> /\ b # 0
                    /\ Abs(a - r * b) < Abs(b)
                    /\ (a - r * b) * a >= 0
    [] op = MOD  -> /\ b # 0
                    /\ Abs(r) < Abs(b)
                    /\ r * a >= 0
                    /\ (a - r) % Abs(b) = 0

(* The positions of the 1 bits of u op n, by definition.                   *)
ResultBits(op, u, n) ==
  {i \in 0 .. NUM_BITS - 1 :
     CASE op = SHL -> i - n \in Bits(u)
       [] op = SHR -> i + n \in Bits(u)
       [] op = AND -> i \in Bits(u) /\ i \in Bits(n)
       [] op = OR  -> i \in Bits(u) \/ i \in Bits(n)
       [] op = XOR -> (i \in Bits(u)) # (i \in Bits(n))
       [] op = ROL -> (i - n) % NUM_BITS \in Bits(u)
       [] op = ROR -> (i + n) % NUM_BITS \in Bits(u)}
=============================================================================
