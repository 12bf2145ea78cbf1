--------------------------- MODULE RingQueueProofs ---------------------------
(***************************************************************************)
(* Proofs about RingQueue for every capacity and every set of arguments:   *)
(* the shape of the window is an invariant, no node is leaked, and the     *)
(* array implements the bounded FIFO of FifoQueue.                         *)
(***************************************************************************)
EXTENDS RingQueue, SequenceTheorems, TLAPS

(* Indices never move past twice the capacity, where the C remainder is a  *)
(* subtraction.  With it every other step is linear arithmetic.            *)
LEMMA WrapIsSubtraction ==
  ASSUME NEW x \in 0 .. 2 * Capacity - 1
  PROVE  Wrap(x) = IF x < Capacity THEN x ELSE x - Capacity
<1>1. Capacity \in Nat /\ Capacity > 0 /\ x \in Nat
  BY CapacityAssumption
<1>2. CASE x < Capacity
  BY <1>1, <1>2, SMT DEF Wrap
<1>3. CASE x >= Capacity
  <2>1. PICK y \in Nat : x = y + Capacity /\ y < Capacity
    BY <1>1, <1>3
  <2>2. (y + Capacity) % Capacity = y
    BY <1>1, <2>1, SMT
  <2> QED
    BY <1>1, <1>3, <2>1, <2>2 DEF Wrap
<1> QED
  BY <1>1, <1>2, <1>3

(* How far slot i lies behind the front, going round.                      *)
Distance(i) == IF i >= front THEN i - front ELSE i - front + Capacity

(* The window in linear form: a slot is occupied when it lies less than    *)
(* size behind the front.                                                  *)
LEMMA OccupiedByDistance ==
  ASSUME TypeOK, NEW i \in Slots
  PROVE  i \in Occupied <=> Distance(i) < size
<1>0. /\ Capacity \in Nat /\ Capacity > 0
      /\ front \in 0 .. Capacity - 1 /\ size \in 0 .. Capacity
      /\ i \in 0 .. Capacity - 1
  BY CapacityAssumption DEF TypeOK, Slots
<1>1. ASSUME i \in Occupied PROVE Distance(i) < size
  <2>1. PICK k \in 0 .. size - 1 : i = Wrap(front + k)
    BY <1>1 DEF Occupied
  <2>2. front + k \in 0 .. 2 * Capacity - 1
    BY <1>0
  <2> QED
    BY <1>0, <2>1, <2>2, WrapIsSubtraction DEF Distance
<1>2. ASSUME Distance(i) < size PROVE i \in Occupied
  <2>1. /\ Distance(i) \in 0 .. size - 1
        /\ front + Distance(i) \in 0 .. 2 * Capacity - 1
    BY <1>0, <1>2 DEF Distance
  <2>2. Wrap(front + Distance(i)) = i
    BY <1>0, <2>1, WrapIsSubtraction DEF Distance
  <2> QED
    BY <2>1, <2>2 DEF Occupied
<1> QED
  BY <1>1, <1>2
-----------------------------------------------------------------------------
(* Where the youngest node is, and which slots hold one, in linear form.   *)
RearFollows == size > 0 => rear = IF front + size - 1 < Capacity
                                  THEN front + size - 1
                                  ELSE front + size - 1 - Capacity

HeldByDistance == \A i \in Slots : items[i] # NULL <=> Distance(i) < size

(* The inductive invariant.  Each conjunct needs the others: a store is    *)
(* harmless because the slot behind the youngest node is free, which is    *)
(* HeldByDistance read at the index RearFollows gives.                     *)
IInv == /\ TypeOK
        /\ size = 0 => front = 0 /\ rear = 0
        /\ RearFollows
        /\ HeldByDistance
        /\ ~leaked
        /\ ~alive => size = 0

(* The facts about the indices that every step below starts from.          *)
LEMMA Bounds ==
  ASSUME TypeOK
  PROVE  /\ Capacity \in Nat /\ Capacity > 0
         /\ front \in 0 .. Capacity - 1 /\ rear \in 0 .. Capacity - 1
         /\ size \in 0 .. Capacity
  BY CapacityAssumption DEF TypeOK, Slots

LEMMA InitInv == Init => IInv
<1> SUFFICES ASSUME Init PROVE IInv
  OBVIOUS
<1>0. alive \in BOOLEAN /\ leaked \in BOOLEAN
  BY Zenon DEF Init
<1>1. TypeOK
  BY <1>0, CapacityAssumption DEF Init, TypeOK, EmptySlots, Slots
<1>2. HeldByDistance
  BY CapacityAssumption DEF HeldByDistance, Init, EmptySlots, Distance, Slots
<1>3. ~leaked
  BY Zenon DEF Init
<1> QED
  BY <1>1, <1>2, <1>3 DEF IInv, Init, RearFollows

(* The invariant gives the properties in the form the runs check.          *)
LEMMA InvImplies == IInv => IndicesAgree /\ WindowFull /\ NoLeak
<1> SUFFICES ASSUME IInv PROVE IndicesAgree /\ WindowFull /\ NoLeak
  OBVIOUS
<1>0. TypeOK
  BY DEF IInv
<1>1. ASSUME size > 0 PROVE rear = Wrap(front + size - 1)
  <2>1. front + size - 1 \in 0 .. 2 * Capacity - 1
    BY <1>0, <1>1, Bounds
  <2> QED
    BY <1>0, <1>1, <2>1, Bounds, WrapIsSubtraction DEF IInv, RearFollows
<1>2. IndicesAgree
  BY <1>0, <1>1, Bounds DEF IInv, IndicesAgree, IsEmpty
<1>3. WindowFull
  BY <1>0, OccupiedByDistance DEF IInv, WindowFull, HeldByDistance
<1> QED
  BY <1>2, <1>3 DEF IInv, NoLeak

(* queue_clear's loop reaches every node, so the array is left empty.      *)
LEMMA ClearedIsEmpty ==
  ASSUME IInv PROVE Cleared = EmptySlots
  BY InvImplies DEF WindowFull, Cleared, EmptySlots

(* The array with nothing in it is a well-shaped state of the queue.       *)
LEMMA EmptyHeld ==
  ASSUME TypeOK, IInv, items' = EmptySlots, front' = 0, rear' = 0, size' = 0
  PROVE  RearFollows' /\ HeldByDistance'
  BY Bounds DEF RearFollows, HeldByDistance, EmptySlots, Distance, Slots

LEMMA NextInv == IInv /\ [Next]_vars => IInv'
<1> SUFFICES ASSUME IInv, [Next]_vars PROVE IInv'
  OBVIOUS
<1>0. TypeOK /\ ~leaked
  BY DEF IInv
<1>1. ASSUME New PROVE IInv'
  <2>1. TypeOK'
    BY <1>0, <1>1, Bounds DEF TypeOK, New, EmptySlots, Slots
  <2> QED
    BY <1>0, <1>1, <2>1, EmptyHeld DEF IInv, New
<1>2. CASE EnqueueRefused
  <2>1. TypeOK'
    BY <1>0, <1>2 DEF TypeOK, EnqueueRefused
  <2> QED
    BY <1>0, <1>2, <2>1
       DEF IInv, EnqueueRefused, RearFollows, HeldByDistance, Distance
<1>3. ASSUME NEW x \in Items, EnqueueFirst(x) PROVE IInv'
  <2>1. /\ size = 0 /\ size' = 1 /\ front = 0 /\ rear = 0
        /\ front' = 0 /\ rear' = 0 /\ alive' = alive /\ alive
        /\ items' = [items EXCEPT ![0] = x]
    BY <1>3 DEF IInv, EnqueueFirst, StoreAt, IsEmpty
  <2>2. items[0] = NULL
    BY <1>0, <2>1, Bounds DEF IInv, HeldByDistance, Slots, Distance
  <2>3. TypeOK'
    BY <1>0, <1>3, <2>1, <2>2, Bounds DEF TypeOK, EnqueueFirst, StoreAt, Slots
  <2>4. RearFollows' /\ HeldByDistance'
    BY <1>0, <2>1, Bounds, NullAssumption
       DEF IInv, TypeOK, RearFollows, HeldByDistance, Slots, Distance
  <2>5. ~leaked'
    BY <1>0, <1>3, <2>1, <2>2 DEF EnqueueFirst, StoreAt
  <2> QED
    BY <2>1, <2>3, <2>4, <2>5 DEF IInv
<1>4. ASSUME NEW x \in Items, EnqueueNext(x) PROVE IInv'
  <2>1. /\ size > 0 /\ size < Capacity /\ size' = size + 1
        /\ front' = front /\ alive' = alive /\ alive
        /\ items' = [items EXCEPT ![rear'] = x]
    BY <1>0, <1>4, Bounds DEF EnqueueNext, StoreAt, IsEmpty, IsFull
  <2>2. rear' = IF rear + 1 < Capacity THEN rear + 1 ELSE rear + 1 - Capacity
    <3>1. rear + 1 \in 0 .. 2 * Capacity - 1
      BY <1>0, Bounds
    <3>2. rear' = Wrap(rear + 1)
      BY <1>4 DEF EnqueueNext
    <3> QED
      BY <1>0, <3>1, <3>2, Bounds, WrapIsSubtraction
  <2>3. rear' \in Slots /\ Distance(rear') = size
    BY <1>0, <2>1, <2>2, Bounds DEF IInv, RearFollows, Slots, Distance
  <2>4. items[rear'] = NULL
    BY <1>0, <2>1, <2>3, Bounds DEF IInv, HeldByDistance
  <2>5. TypeOK'
    BY <1>0, <1>4, <2>1, <2>3, <2>4, Bounds
       DEF TypeOK, EnqueueNext, StoreAt
  <2>6. RearFollows'
    BY <1>0, <2>1, <2>2, Bounds DEF IInv, RearFollows
  <2>7. HeldByDistance'
    <3> SUFFICES ASSUME NEW i \in Slots
                 PROVE  items'[i] # NULL <=> Distance(i)' < size'
      BY DEF HeldByDistance
    <3>1. CASE i = rear'
      BY <1>0, <2>1, <2>3, <3>1, Bounds, NullAssumption DEF TypeOK, Distance
    <3>2. CASE i # rear'
      <4>1. items'[i] = items[i]
        BY <1>0, <2>1, <3>2 DEF TypeOK
      <4>2. Distance(i) # size
        BY <1>0, <2>1, <2>3, <3>2, Bounds DEF Distance, Slots
      <4>3. Distance(i)' = Distance(i) /\ Distance(i) \in Int
        BY <1>0, <2>1, Bounds DEF Distance, Slots
      <4>4. items[i] # NULL <=> Distance(i) < size
        BY DEF IInv, HeldByDistance
      <4> QED
        BY <1>0, <2>1, <4>1, <4>2, <4>3, <4>4, Bounds
    <3> QED
      BY <3>1, <3>2
  <2>8. ~leaked'
    BY <1>0, <1>4, <2>4 DEF EnqueueNext, StoreAt
  <2> QED
    BY <2>1, <2>5, <2>6, <2>7, <2>8, <1>0, Bounds DEF IInv
<1>5. CASE DequeueNone
  <2>1. TypeOK'
    BY <1>0, <1>5 DEF TypeOK, DequeueNone
  <2> QED
    BY <1>0, <1>5, <2>1
       DEF IInv, DequeueNone, RearFollows, HeldByDistance, Distance
<1>6. CASE Dequeue
  <2>1. /\ size > 0 /\ size' = size - 1 /\ alive /\ alive' = alive
        /\ items' = [items EXCEPT ![front] = NULL]
        /\ items[front] # NULL /\ out' = items[front] /\ ~leaked'
    BY <1>0, <1>6, Bounds DEF Dequeue, Peek, IsEmpty
  <2>2. /\ size = 1 => front' = 0 /\ rear' = 0
        /\ size > 1 => /\ rear' = rear
                       /\ front' = IF front + 1 < Capacity
                                   THEN front + 1
                                   ELSE front + 1 - Capacity
    <3>1. front + 1 \in 0 .. 2 * Capacity - 1
      BY <1>0, Bounds
    <3>2. Wrap(front + 1) = IF front + 1 < Capacity
                            THEN front + 1
                            ELSE front + 1 - Capacity
      BY <1>0, <3>1, Bounds, WrapIsSubtraction
    <3> QED
      BY <1>0, <1>6, <3>2, Bounds DEF Dequeue, Reset
  <2>3. TypeOK'
    <3>1. /\ front' \in Slots /\ rear' \in Slots /\ size' \in 0 .. Capacity
          /\ items' \in [Slots -> Items \cup {NULL}]
          /\ out' \in Items \cup {NULL}
      BY <1>0, <2>1, <2>2, Bounds DEF TypeOK, Slots
    <3> QED
      BY <1>0, <1>6, <2>1, <3>1 DEF TypeOK, Dequeue
  <2>4. RearFollows'
    BY <1>0, <2>1, <2>2, Bounds DEF IInv, RearFollows
  <2>5. HeldByDistance'
    <3> SUFFICES ASSUME NEW i \in Slots
                 PROVE  items'[i] # NULL <=> Distance(i)' < size'
      BY DEF HeldByDistance
    <3>1. items'[i] = IF i = front THEN NULL ELSE items[i]
      BY <1>0, <2>1 DEF TypeOK
    <3>2. Distance(i)' < size' <=> i # front /\ Distance(i) < size
      BY <1>0, <2>1, <2>2, Bounds DEF Distance, Slots
    <3> QED
      BY <3>1, <3>2 DEF IInv, HeldByDistance
  <2> QED
    BY <1>0, <2>1, <2>2, <2>3, <2>4, <2>5, Bounds DEF IInv
<1>7. CASE Clear
  <2>1. items' = EmptySlots /\ front' = 0 /\ rear' = 0 /\ size' = 0
    BY <1>7, ClearedIsEmpty DEF Clear, IInv, IsEmpty
  <2>2. TypeOK'
    BY <1>0, <1>7, <2>1, Bounds DEF TypeOK, Clear, EmptySlots, Slots
  <2> QED
    BY <1>0, <1>7, <2>1, <2>2, EmptyHeld DEF IInv, Clear
<1>8. CASE Destroy
  <2>1. ~leaked'
    BY <1>0, <1>8, ClearedIsEmpty DEF Destroy
  <2>2. alive' \in BOOLEAN /\ leaked' \in BOOLEAN
    BY <1>8, <2>1, Zenon DEF Destroy
  <2>3. TypeOK'
    BY <1>0, <1>8, <2>2, Bounds DEF TypeOK, Destroy, EmptySlots, Slots
  <2> QED
    BY <1>0, <1>8, <2>1, <2>3, EmptyHeld DEF IInv, Destroy
<1>9. CASE UNCHANGED vars
  BY <1>9 DEF IInv, TypeOK, RearFollows, HeldByDistance, Distance, vars
<1> QED
  BY <1>1, <1>2, <1>3, <1>4, <1>5, <1>6, <1>7, <1>8, <1>9 DEF Next

LEMMA SpecInv == Spec => []IInv
  BY InitInv, NextInv, PTL DEF Spec

(* Every variable keeps its type: no index leaves the array, the size      *)
(* never passes the capacity (queue.c's fullcheck, for every capacity).    *)
THEOREM QueueTypeCorrect == Spec => []TypeOK
<1>1. IInv => TypeOK
  BY DEF IInv
<1> QED
  BY <1>1, SpecInv, PTL

(* The empty-queue rule of queue_enqueue and the reset rule of             *)
(* queue_dequeue agree on where rear is, for every sequence of calls.      *)
THEOREM QueueIndicesAgree == Spec => []IndicesAgree
  BY SpecInv, InvImplies, PTL

(* The nodes fill exactly the window of size slots behind the front.       *)
THEOREM QueueWindowFull == Spec => []WindowFull
  BY SpecInv, InvImplies, PTL

(* No node_t is overwritten by queue_enqueue or missed by queue_clear.     *)
THEOREM QueueNoLeak == Spec => []NoLeak
  BY SpecInv, InvImplies, PTL
-----------------------------------------------------------------------------
(* Refinement: the slot of the k-th oldest node, and the contents with it. *)
Slot(k) == IF front + k - 1 < Capacity
           THEN front + k - 1
           ELSE front + k - 1 - Capacity

Linear == [k \in 1 .. size |-> items[Slot(k)]]

LEMMA ContentsLinear == TypeOK => Contents = Linear
<1> SUFFICES ASSUME TypeOK PROVE Contents = Linear
  OBVIOUS
<1>1. ASSUME NEW k \in 1 .. size PROVE Wrap(front + k - 1) = Slot(k)
  <2>1. front + k - 1 \in 0 .. 2 * Capacity - 1
    BY Bounds
  <2> QED
    BY <2>1, Bounds, WrapIsSubtraction DEF Slot
<1> QED
  BY <1>1 DEF Contents, Linear

(* The contents as a sequence of arguments.                                *)
ContentsAre == /\ Contents \in Seq(Items)
               /\ Len(Contents) = size
               /\ \A k \in 1 .. size : Contents[k] = items[Slot(k)]

LEMMA ContentsOfItems == IInv => ContentsAre
<1> SUFFICES ASSUME IInv PROVE ContentsAre
  OBVIOUS
<1>0. TypeOK
  BY DEF IInv
<1>1. ASSUME NEW k \in 1 .. size PROVE items[Slot(k)] \in Items
  <2>1. Slot(k) \in Slots /\ Distance(Slot(k)) < size
    BY <1>0, Bounds DEF Slot, Slots, Distance
  <2> QED
    BY <1>0, <2>1 DEF IInv, TypeOK, HeldByDistance
<1> QED
  BY <1>0, <1>1, ContentsLinear, Bounds DEF Linear, ContentsAre

LEMMA NextContentsOfItems == IInv' => ContentsAre'
  BY ContentsOfItems, PTL

(* What each operation does to the contents.                               *)
LEMMA StoreAppends ==
  ASSUME IInv, IInv', NEW x \in Items, EnqueueFirst(x) \/ EnqueueNext(x)
  PROVE  Contents' = Append(Contents, x) /\ Len(Contents) < Capacity
<1>0. TypeOK /\ ContentsAre /\ ContentsAre'
  BY ContentsOfItems, NextContentsOfItems DEF IInv
<1>1. /\ size' = size + 1 /\ size < Capacity /\ front' = front
      /\ items' = [items EXCEPT ![rear'] = x]
  BY Bounds, <1>0 DEF EnqueueFirst, EnqueueNext, StoreAt, IsFull
<1>2. rear' \in Slots /\ RearFollows'
  BY DEF IInv, TypeOK
<1>3. items'[Slot(size)'] = x
  BY Bounds, <1>0, <1>1, <1>2 DEF RearFollows, Slot, Slots, TypeOK
<1>4. ASSUME NEW k \in 1 .. size PROVE items'[Slot(k)'] = items[Slot(k)]
  BY Bounds, <1>0, <1>1, <1>2 DEF RearFollows, Slot, Slots, TypeOK
<1>5. /\ Len(Contents') = Len(Append(Contents, x))
      /\ Contents' \in Seq(Items) /\ Append(Contents, x) \in Seq(Items)
  BY Bounds, <1>0, <1>1 DEF ContentsAre
<1>6. \A k \in 1 .. size + 1 : Contents'[k] = Append(Contents, x)[k]
  <2>1. ASSUME NEW k \in 1 .. size
        PROVE  Contents'[k] = Append(Contents, x)[k]
    <3>1. Contents'[k] = items'[Slot(k)']
      BY Bounds, <1>0, <1>1 DEF ContentsAre
    <3>2. Append(Contents, x)[k] = items[Slot(k)]
      BY <1>0 DEF ContentsAre
    <3> QED
      BY <3>1, <3>2, <1>4
  <2>2. Contents'[size + 1] = x
    BY Bounds, <1>0, <1>1, <1>3 DEF ContentsAre
  <2>3. Append(Contents, x)[size + 1] = x
    BY <1>0 DEF ContentsAre
  <2>4. \A k \in 1 .. size + 1 : k \in 1 .. size \/ k = size + 1
    BY Bounds, <1>0
  <2> QED
    BY <2>1, <2>2, <2>3, <2>4
<1> QED
  BY Bounds, <1>0, <1>1, <1>5, <1>6, SeqEqual DEF ContentsAre

LEMMA DequeueDelivers ==
  ASSUME IInv, IInv', Dequeue
  PROVE  /\ Contents # <<>>
         /\ out' = Head(Contents)
         /\ Contents' = Tail(Contents)
<1>0. TypeOK /\ ContentsAre /\ ContentsAre'
  BY ContentsOfItems, NextContentsOfItems DEF IInv
<1>1. /\ size > 0 /\ size' = size - 1
      /\ out' = items[front]
      /\ items' = [items EXCEPT ![front] = NULL]
  BY Bounds, <1>0 DEF Dequeue, Peek, IsEmpty
<1>2. Contents # <<>> /\ Contents[1] = items[front]
  BY Bounds, <1>0, <1>1 DEF ContentsAre, Slot
<1>3. ASSUME NEW k \in 1 .. size - 1
      PROVE  items'[Slot(k)'] = items[Slot(k + 1)]
  <2>1. front' = IF front + 1 < Capacity
                 THEN front + 1 ELSE front + 1 - Capacity
    <3>1. front + 1 \in 0 .. 2 * Capacity - 1
      BY Bounds, <1>0
    <3>2. Wrap(front + 1) = IF front + 1 < Capacity
                            THEN front + 1 ELSE front + 1 - Capacity
      BY Bounds, <1>0, <3>1, WrapIsSubtraction
    <3> QED
      BY Bounds, <1>0, <1>3, <3>2 DEF Dequeue, Reset
  <2>2. Slot(k)' = Slot(k + 1)
    BY Bounds, <1>0, <2>1 DEF Slot
  <2>3. Slot(k + 1) \in Slots /\ Slot(k + 1) # front
    BY Bounds, <1>0 DEF Slot, Slots
  <2> QED
    BY <1>0, <1>1, <2>2, <2>3 DEF TypeOK
<1>4. /\ Tail(Contents) \in Seq(Items) /\ Len(Tail(Contents)) = size - 1
      /\ \A k \in 1 .. size - 1 : Tail(Contents)[k] = Contents[k + 1]
  BY Bounds, <1>0, <1>2, HeadTailProperties DEF ContentsAre
<1>5. ASSUME NEW k \in 1 .. size - 1 PROVE Contents'[k] = Tail(Contents)[k]
  <2>1. Contents'[k] = items'[Slot(k)']
    BY Bounds, <1>0, <1>1 DEF ContentsAre
  <2>2. Contents[k + 1] = items[Slot(k + 1)]
    BY Bounds, <1>0 DEF ContentsAre
  <2> QED
    BY <1>3, <1>4, <2>1, <2>2
<1>6. /\ Contents' \in Seq(Items)
      /\ Len(Contents') = Len(Tail(Contents))
      /\ \A k \in 1 .. Len(Contents') : Contents'[k] = Tail(Contents)[k]
  BY <1>0, <1>1, <1>4, <1>5 DEF ContentsAre
<1>7. Contents' = Tail(Contents)
  BY <1>4, <1>6, SeqEqual
<1> QED
  BY <1>0, <1>1, <1>2, <1>7 DEF ContentsAre

LEMMA EmptyContents == size = 0 => Contents = <<>>
  BY DEF Contents

LEMMA NextEmptyContents == size' = 0 => Contents' = <<>>
  BY DEF Contents

LEMMA StepRefines == IInv /\ IInv' /\ [Next]_vars => [Fifo!Next]_(Fifo!vars)
<1> SUFFICES ASSUME IInv, IInv', [Next]_vars PROVE [Fifo!Next]_(Fifo!vars)
  OBVIOUS
<1>1. CASE New
  BY <1>1, EmptyContents, NextEmptyContents DEF New, Fifo!vars, IInv
<1>2. CASE EnqueueRefused
  BY <1>2 DEF EnqueueRefused, Fifo!vars, Contents
<1>3. ASSUME NEW x \in Items, EnqueueFirst(x) \/ EnqueueNext(x)
      PROVE  Fifo!Put(x)
  BY <1>3, StoreAppends DEF Fifo!Put, EnqueueFirst, EnqueueNext
<1>4. CASE DequeueNone
  BY <1>4 DEF DequeueNone, Fifo!vars, Contents
<1>5. ASSUME Dequeue PROVE Fifo!Get
  BY <1>5, DequeueDelivers DEF Fifo!Get
<1>6. ASSUME Clear \/ Destroy PROVE Fifo!Discard
  BY <1>6, NextEmptyContents DEF Fifo!Discard, Clear, Destroy
<1>7. CASE UNCHANGED vars
  BY <1>7 DEF vars, Fifo!vars, Contents
<1> QED
  BY <1>1, <1>2, <1>3, <1>4, <1>5, <1>6, <1>7 DEF Next, Fifo!Next

LEMMA InitRefines == Init => Fifo!Init
  BY EmptyContents DEF Init, Fifo!Init

(* The circular array implements the bounded FIFO for every capacity: what *)
(* queue_dequeue delivers is what queue_enqueue stored, in that order, and *)
(* each node once.                                                         *)
THEOREM QueueImplementsFifo == Spec => ImplementsFifo
<1>1. IInv /\ IInv' /\ [Next]_vars => [Fifo!Next]_(Fifo!vars)
  BY StepRefines
<1>2. Init => Fifo!Init
  BY InitRefines
<1> QED
  BY <1>1, <1>2, SpecInv, PTL DEF Spec, ImplementsFifo, Fifo!Spec
=============================================================================
