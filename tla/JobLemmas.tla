------------------------------ MODULE JobLemmas ------------------------------
(***************************************************************************)
(* Facts about job queues and about the workers that take jobs from them,  *)
(* for any kind of job, and about the smallest of a set of numbers: what   *)
(* the proofs about the thread pool and about the programs that use it     *)
(* have in common.                                                         *)
(***************************************************************************)
EXTENDS FiniteSetsExt, FiniteSetTheorems, SequenceTheorems,
        WellFoundedInduction, TLAPS

(* What appending to and taking from the job queue does to its elements.   *)
LEMMA AppendElements ==
  ASSUME NEW S, NEW s \in Seq(S), NEW x \in S
  PROVE  /\ Range(Append(s, x)) = Range(s) \cup {x}
         /\ IsInjective(s) /\ x \notin Range(s) => IsInjective(Append(s, x))
<1>1. /\ DOMAIN s = 1 .. Len(s) /\ Len(s) \in Nat
      /\ DOMAIN Append(s, x) = 1 .. Len(s) + 1
      /\ \A i \in 1 .. Len(s) : Append(s, x)[i] = s[i]
      /\ Append(s, x)[Len(s) + 1] = x
  BY AppendProperties, LenProperties
<1>2. \A i \in 1 .. Len(s) + 1 : i \in 1 .. Len(s) \/ i = Len(s) + 1
  BY <1>1
<1>3. 1 .. Len(s) \subseteq 1 .. Len(s) + 1 /\ Len(s) + 1 \in 1 .. Len(s) + 1
  BY <1>1
<1>4. Range(Append(s, x)) = Range(s) \cup {x}
  BY <1>1, <1>2, <1>3 DEF Range
<1>5. ASSUME IsInjective(s), x \notin Range(s)
      PROVE  IsInjective(Append(s, x))
  BY <1>1, <1>2, <1>5 DEF IsInjective, Range
<1> QED
  BY <1>4, <1>5

LEMMA TailElements ==
  ASSUME NEW S, NEW s \in Seq(S), s # <<>>
  PROVE  /\ Range(s) = {Head(s)} \cup Range(Tail(s))
         /\ IsInjective(s) => /\ IsInjective(Tail(s))
                              /\ Head(s) \notin Range(Tail(s))
<1>1. /\ DOMAIN s = 1 .. Len(s) /\ Len(s) \in Nat /\ Len(s) > 0
      /\ Head(s) = s[1]
      /\ DOMAIN Tail(s) = 1 .. Len(s) - 1
      /\ \A i \in 1 .. Len(s) - 1 : Tail(s)[i] = s[i + 1]
  BY HeadTailProperties, LenProperties, EmptySeq
<1>2. \A i \in 1 .. Len(s) :
        i = 1 \/ (i - 1 \in 1 .. Len(s) - 1 /\ i = (i - 1) + 1)
  BY <1>1
<1>3. \A i \in 1 .. Len(s) - 1 : i + 1 \in 1 .. Len(s) /\ i + 1 # 1
  BY <1>1
<1>4. Range(s) = {Head(s)} \cup Range(Tail(s))
  <2>1. ASSUME NEW y \in Range(s) PROVE y \in {Head(s)} \cup Range(Tail(s))
    <3>1. PICK i \in 1 .. Len(s) : y = s[i]
      BY <1>1, <2>1 DEF Range
    <3>2. CASE i = 1
      BY <1>1, <3>1, <3>2
    <3>3. CASE i - 1 \in 1 .. Len(s) - 1
      <4>1. Tail(s)[i - 1] = y
        BY <1>1, <1>2, <3>1, <3>3
      <4> QED
        BY <1>1, <3>3, <4>1 DEF Range
    <3> QED
      BY <1>2, <3>2, <3>3
  <2>2. ASSUME NEW y \in Range(Tail(s)) PROVE y \in Range(s)
    BY <1>1, <1>3, <2>2 DEF Range
  <2>3. Head(s) \in Range(s)
    BY <1>1 DEF Range
  <2> QED
    BY <2>1, <2>2, <2>3
<1>5. ASSUME IsInjective(s) PROVE IsInjective(Tail(s))
  BY <1>1, <1>3, <1>5 DEF IsInjective
<1>6. ASSUME IsInjective(s) PROVE Head(s) \notin Range(Tail(s))
  BY <1>1, <1>3, <1>6 DEF IsInjective, Range
<1> QED
  BY <1>4, <1>5, <1>6

-----------------------------------------------------------------------------
(* The jobs p that are pending, those that the workers are busy with by b, *)
(* and those of fin are all different jobs.                                *)
Apart(p, b, fin, idle) ==
  /\ IsInjective(p)
  /\ \A w \in DOMAIN b : b[w] # idle => b[w] \notin Range(p) \cup fin
  /\ \A v, w \in DOMAIN b : b[v] # idle /\ b[v] = b[w] => v = w
  /\ Range(p) \cap fin = {}

(* Pending jobs and those of busy workers.                                 *)
InHand(p, b, idle) == Range(p) \cup (Range(b) \ {idle})

(* A new job that is submitted is one more. *)
LEMMA SubmitKeepsApart ==
  ASSUME NEW S, NEW W, NEW idle, idle \notin S,
         NEW p \in Seq(S), NEW b \in [W -> S \cup {idle}], NEW fin,
         NEW j \in S, j \notin Range(p) \cup Range(b) \cup fin,
         Apart(p, b, fin, idle)
  PROVE  /\ Append(p, j) \in Seq(S) /\ Len(Append(p, j)) = Len(p) + 1
         /\ Apart(Append(p, j), b, fin, idle)
         /\ InHand(Append(p, j), b, idle) = InHand(p, b, idle) \cup {j}
<1>1. Append(p, j) \in Seq(S) /\ Len(Append(p, j)) = Len(p) + 1
  BY AppendProperties
<1>2. /\ Range(Append(p, j)) = Range(p) \cup {j}
      /\ IsInjective(p) => IsInjective(Append(p, j))
  BY AppendElements
<1>3. \A w \in DOMAIN b : b[w] # j
  BY DEF Range
<1> QED
  BY <1>1, <1>2, <1>3 DEF Apart, InHand

(* The oldest job j, when a worker starts it, is still one job in hand.  q *)
(* is the rest of the queue.                                               *)
LEMMA StartKeepsApart ==
  ASSUME NEW S, NEW W, NEW idle, idle \notin S,
         NEW b \in [W -> S \cup {idle}], NEW fin, NEW p, NEW q, NEW j \in S,
         Range(p) = {j} \cup Range(q), j \notin Range(q), IsInjective(q),
         NEW w \in W, b[w] = idle, Apart(p, b, fin, idle)
  PROVE  LET b2 == [b EXCEPT ![w] = j]
         IN  /\ b2 \in [W -> S \cup {idle}]
             /\ Apart(q, b2, fin, idle)
             /\ \A x : x \in InHand(q, b2, idle) <=> x \in InHand(p, b, idle)
<1> DEFINE b2 == [b EXCEPT ![w] = j]
<1>1. /\ DOMAIN b = W /\ DOMAIN b2 = W /\ b2[w] = j
      /\ \A v \in W : v # w => b2[v] = b[v]
  OBVIOUS
<1> HIDE DEF b2
<1>2. j # idle
  OBVIOUS
<1>3. Range(b2) \ {idle} = (Range(b) \ {idle}) \cup {j}
  <2>1. ASSUME NEW y \in Range(b2), y # idle
        PROVE  y \in (Range(b) \ {idle}) \cup {j}
    BY <1>1, <2>1 DEF Range
  <2>2. ASSUME NEW y \in Range(b), y # idle PROVE y \in Range(b2)
    BY <1>1, <2>2 DEF Range
  <2>3. j \in Range(b2)
    BY <1>1 DEF Range
  <2> QED
    BY <1>1, <1>2, <2>1, <2>2, <2>3
<1>4. Apart(q, b2, fin, idle)
  <2>1. \A v \in W : b2[v] # idle => b2[v] \notin Range(q) \cup fin
    BY <1>1 DEF Apart
  <2>2. \A v \in W : b[v] # j
    BY <1>1, <1>2 DEF Apart
  <2>3. \A u, v \in W : b2[u] # idle /\ b2[u] = b2[v] => u = v
    BY <1>1, <2>2 DEF Apart
  <2> QED
    BY <1>1, <2>1, <2>3 DEF Apart
<1>5. InHand(q, b2, idle) = InHand(p, b, idle)
  BY <1>3 DEF InHand
<1>6. b2 \in [W -> S \cup {idle}]
  BY DEF b2
<1> QED
  BY <1>4, <1>5, <1>6 DEF b2

(* A job that is finished is in hand no more. *)
LEMMA FinishKeepsApart ==
  ASSUME NEW S, NEW W, NEW idle, idle \notin S,
         NEW p \in Seq(S), NEW b \in [W -> S \cup {idle}], NEW fin,
         NEW w \in W, b[w] # idle, Apart(p, b, fin, idle)
  PROVE  LET b2 == [b EXCEPT ![w] = idle]
         IN  /\ b[w] \in S /\ b2 \in [W -> S \cup {idle}]
             /\ Apart(p, b2, fin \cup {b[w]}, idle)
             /\ InHand(p, b2, idle) = InHand(p, b, idle) \ {b[w]}
             /\ b[w] \in InHand(p, b, idle)
<1> DEFINE b2 == [b EXCEPT ![w] = idle]
<1>1. /\ DOMAIN b = W /\ DOMAIN b2 = W /\ b2[w] = idle
      /\ \A v \in W : v # w => b2[v] = b[v]
      /\ b[w] \in S /\ b2 \in [W -> S \cup {idle}]
  OBVIOUS
<1> HIDE DEF b2
<1>2. \A v \in W : v # w => b[v] # b[w]
  BY <1>1 DEF Apart
<1>3. Range(b2) \ {idle} = (Range(b) \ {idle}) \ {b[w]}
  <2>1. ASSUME NEW y \in Range(b2), y # idle
        PROVE  y \in Range(b) /\ y # b[w]
    BY <1>1, <1>2, <2>1 DEF Range
  <2>2. ASSUME NEW y \in Range(b), y # idle, y # b[w] PROVE y \in Range(b2)
    BY <1>1, <2>2 DEF Range
  <2> QED
    BY <2>1, <2>2
<1>4. b[w] \notin Range(p) /\ b[w] \in Range(b)
  BY <1>1 DEF Apart, Range
<1>5. Apart(p, b2, fin \cup {b[w]}, idle)
  BY <1>1, <1>2, <1>4 DEF Apart
<1>6. /\ InHand(p, b2, idle) = InHand(p, b, idle) \ {b[w]}
      /\ b[w] \in InHand(p, b, idle)
  BY <1>3, <1>4 DEF InHand
<1> QED
  BY <1>1, <1>5, <1>6 DEF b2

(* When no worker is busy and the pending jobs are thrown away none is.    *)
LEMMA NothingInHand ==
  ASSUME NEW W, NEW idle, NEW b, DOMAIN b = W, \A w \in W : b[w] = idle, NEW fin
  PROVE  Apart(<<>>, b, fin, idle) /\ InHand(<<>>, b, idle) = {}
<1>1. Range(<<>>) = {} /\ IsInjective(<<>>)
  BY DEF Range, IsInjective
<1> QED
  BY <1>1 DEF Apart, InHand, Range
-----------------------------------------------------------------------------
(* A set of natural numbers that is not empty has a smallest element: open *)
(* and accept find a lowest free descriptor when there is a free one.      *)
LEMMA NonEmptyHasSmallest ==
  ASSUME NEW T \in SUBSET Nat, T # {}
  PROVE  \E x \in T : \A y \in T : x <= y
<1> DEFINE R == {ss \in Nat \X Nat : ss[1] < ss[2]}
<1>1. IsWellFoundedOn(R, Nat)
  BY NatLessThanWellFounded DEF OpToRel
<1>2. PICK x \in T : \A y \in T : <<y, x>> \notin R
  <2> HIDE DEF R
  <2> QED
    BY <1>1, WFMin
<1>3. \A y \in T : ~(y < x)
  <2> TAKE y \in T
  <2>1. <<y, x>> \in Nat \X Nat
    OBVIOUS
  <2>2. <<y, x>>[1] = y /\ <<y, x>>[2] = x
    OBVIOUS
  <2> QED
    BY <1>2, <2>1, <2>2
<1> QED
  BY <1>3

LEMMA MinIsSmallest ==
  ASSUME NEW T \in SUBSET Nat, T # {}
  PROVE  Min(T) \in T /\ \A y \in T : Min(T) <= y
BY NonEmptyHasSmallest DEF Min

(* How many of the first n numbers have all before them in P, and no gap:  *)
(* so are the solutions of a file counted.                                 *)
LEMMA FirstOnesCounted ==
  ASSUME NEW n \in Nat, NEW P
  PROVE  LET m == Cardinality({ i \in 1 .. n : \A j \in 1 .. i : j \in P })
         IN  /\ m \in 0 .. n
             /\ \A k \in 0 .. n : (\A j \in 1 .. k : j \in P) <=> k <= m
<1> DEFINE G == { i \in 1 .. n : \A j \in 1 .. i : j \in P }
           T == { i \in 1 .. n + 1 : i = n + 1 \/ i \notin P }
<1>1. T \in SUBSET Nat /\ n + 1 \in T
  OBVIOUS
<1>2. PICK x \in T : \A y \in T : x <= y
  BY <1>1, NonEmptyHasSmallest
<1>3. x \in 1 .. n + 1 /\ \A j \in 1 .. x - 1 : j \in P
  BY <1>2
<1>4. x = n + 1 \/ x \notin P
  BY <1>2
<1>5. G = 1 .. x - 1
  BY <1>3, <1>4
<1>6. Cardinality(G) = x - 1
  <2>1. Cardinality(1 .. x - 1) = IF 1 > x - 1 THEN 0 ELSE (x - 1) - 1 + 1
    BY <1>3, FS_Interval
  <2> HIDE DEF G
  <2>2. Cardinality(1 .. x - 1) = x - 1
    BY <1>3, <2>1
  <2> QED
    BY <1>5, <2>2
<1>7. \A k \in 0 .. n : (\A j \in 1 .. k : j \in P) <=> k <= x - 1
  BY <1>3, <1>4
<1> QED
  BY <1>3, <1>6, <1>7
-----------------------------------------------------------------------------
(* Whatever its elements are, a sequence stays one when it grows, and what *)
(* was in it stays in its place.                                           *)
LEMMA AppendGrows ==
  ASSUME NEW s, s \in Seq(Range(s)), NEW x
  PROVE  /\ Append(s, x) \in Seq(Range(Append(s, x)))
         /\ Len(s) \in Nat
         /\ DOMAIN s = 1 .. Len(s)
         /\ DOMAIN Append(s, x) = 1 .. Len(s) + 1
         /\ \A i \in 1 .. Len(s) : Append(s, x)[i] = s[i]
         /\ Append(s, x)[Len(s) + 1] = x
<1> DEFINE S == Range(s) \cup {x}
<1>1. s \in Seq(S)
  BY SeqMonotonic
<1> HIDE DEF S
<1>2. x \in S
  BY DEF S
<1>3. Append(s, x) \in Seq(S) /\ Range(Append(s, x)) = Range(s) \cup {x}
  BY <1>1, <1>2, AppendProperties, AppendElements
<1>4. Append(s, x) \in Seq(Range(Append(s, x)))
  BY <1>3 DEF S
<1> QED
  BY <1>1, <1>2, <1>4, AppendProperties, LenProperties
=============================================================================
