------------------------------ MODULE RingQueue ------------------------------
(***************************************************************************)
(* The job queue of the thread pool: queue_t of 4_ThreadCalc/src/queue.c,  *)
(* a circular array of node pointers with a front index, a rear index and  *)
(* a size.  One action per function of queue.h.  A node_t is represented   *)
(* by its argument; the task and del_f pointers travel with it.            *)
(*                                                                         *)
(* The array has two unusual rules.  Enqueueing into an empty queue stores *)
(* at items[rear] without advancing rear, and dequeueing the last node     *)
(* resets both indices to 0, so that front = rear both when the queue is   *)
(* empty and when it holds one node.                                       *)
(***************************************************************************)
EXTENDS Integers, Sequences

CONSTANTS Items,      \* non-NULL arguments a caller may enqueue
          Capacity,   \* the capacity queue_new is called with (MAX_JOBS)
          NULL

ASSUME CapacityAssumption == Capacity \in Nat \ {0}
ASSUME NullAssumption == NULL \notin Items

VARIABLES alive,      \* the queue is allocated (the caller's pointer)
          items,      \* queue->items
          front,      \* queue->front
          rear,       \* queue->rear
          size,       \* queue->size
          leaked,     \* history: a node_t was lost without being freed
          err,        \* what the last call returned
          out         \* *arg after the last successful queue_dequeue

vars == <<alive, items, front, rear, size, leaked, err, out>>

Slots == 0 .. Capacity - 1

EmptySlots == [i \in Slots |-> NULL]

ERROR == -1

Init == /\ alive = FALSE
        /\ items = EmptySlots
        /\ front = 0
        /\ rear = 0
        /\ size = 0
        /\ leaked = FALSE
        /\ err = 0
        /\ out = NULL
-----------------------------------------------------------------------------
(* queue_new: one calloc for the queue_t, one for the array; if either     *)
(* fails the caller gets NULL and nothing stays allocated.                 *)
New == /\ ~alive
       /\ alive' \in BOOLEAN
       /\ items' = EmptySlots
       /\ front' = 0
       /\ rear' = 0
       /\ size' = 0
       /\ UNCHANGED <<leaked, err, out>>

IsFullNever == FALSE
IsFull == size = Capacity

IsEmpty == size = 0

Wrap(i) == i % Capacity

StoreAtNoAdvance(slot, x) == /\ items' = [items EXCEPT ![rear] = x]
                             /\ size' = size + 1
                             /\ leaked' = (leaked \/ items[rear] # NULL)
(* items[slot] = p_new_node; size++.  Storing over a node that is still    *)
(* there would lose it.                                                    *)
StoreAt(slot, x) == /\ items' = [items EXCEPT ![slot] = x]
                    /\ size' = size + 1
                    /\ leaked' = (leaked \/ items[slot] # NULL)

(* queue_enqueue refuses when the queue is full, when the argument is NULL *)
(* and, at any time, when calloc fails.                                    *)
EnqueueRefused == /\ alive
                  /\ err' = 1
                  /\ UNCHANGED <<alive, items, front, rear, size, leaked, out>>

(* Into an empty queue: rear stays, and the function leaves through its    *)
(* END label with err still 1 although the node is stored.                 *)
EnqueueFirst(x) == /\ alive /\ ~IsFull /\ IsEmpty
                   /\ StoreAt(rear, x)
                   /\ err' = 1
                   /\ UNCHANGED <<alive, front, rear, out>>

EnqueueNext(x) == /\ alive /\ ~IsFull /\ ~IsEmpty
                  /\ rear' = Wrap(rear + 1)
                  /\ StoreAt(rear', x)
                  /\ err' = 0
                  /\ UNCHANGED <<alive, front, out>>

PeekRear == IF IsEmpty THEN NULL ELSE items[rear]
(* queue_peek: the node at the front, or NULL.  Both of its branches       *)
(* return items[front].                                                    *)
Peek == IF IsEmpty THEN NULL ELSE items[front]

ResetNever == FALSE
(* After a dequeue that took the last node both indices go back to 0.      *)
Reset == size = 1

(* queue_dequeue returns ERROR whether it delivered a node or not.         *)
DequeueNone == /\ alive /\ Peek = NULL
               /\ err' = ERROR
               /\ UNCHANGED <<alive, items, front, rear, size, leaked, out>>

Dequeue == /\ alive /\ Peek # NULL
           /\ out' = Peek
           /\ items' = [items EXCEPT ![front] = NULL]
           /\ front' = IF Reset THEN 0 ELSE Wrap(front + 1)
           /\ rear' = IF Reset THEN 0 ELSE rear
           /\ size' = size - 1
           /\ err' = ERROR
           /\ UNCHANGED <<alive, leaked>>

OccupiedUnwrapped == { front + k : k \in 0 .. size - 1 }
(* The slots queue_clear visits: size of them, from front on.              *)
Occupied == { Wrap(front + k) : k \in 0 .. size - 1 }

Cleared == [i \in Slots |-> IF i \in Occupied THEN NULL ELSE items[i]]

(* queue_clear on an empty queue returns 1 and touches nothing.            *)
Clear == /\ alive
         /\ items' = Cleared
         /\ front' = IF IsEmpty THEN front ELSE 0
         /\ rear' = IF IsEmpty THEN rear ELSE 0
         /\ size' = 0
         /\ err' = IF IsEmpty THEN 1 ELSE 0
         /\ UNCHANGED <<alive, leaked, out>>

(* queue_destroy clears, then frees the array and the queue_t: a node that *)
(* queue_clear did not visit is lost.                                      *)
Destroy == /\ alive
           /\ alive' = FALSE
           /\ leaked' = (leaked \/ Cleared # EmptySlots)
           /\ items' = EmptySlots
           /\ front' = 0
           /\ rear' = 0
           /\ size' = 0
           /\ UNCHANGED <<err, out>>

Next == \/ New
        \/ EnqueueRefused
        \/ \E x \in Items : EnqueueFirst(x) \/ EnqueueNext(x)
        \/ DequeueNone
        \/ Dequeue
        \/ Clear
        \/ Destroy

Spec == Init /\ [][Next]_vars
-----------------------------------------------------------------------------
(* Every variable keeps its type; in particular both indices stay inside   *)
(* the array and size never passes the capacity.                           *)
TypeOK == /\ alive \in BOOLEAN
          /\ items \in [Slots -> Items \cup {NULL}]
          /\ front \in Slots
          /\ rear \in Slots
          /\ size \in 0 .. Capacity
          /\ leaked \in BOOLEAN
          /\ err \in {ERROR, 0, 1}
          /\ out \in Items \cup {NULL}

(* The two unusual rules fit together: over any sequence of calls rear is  *)
(* the slot of the youngest node, and both indices are 0 when there is     *)
(* none.  It is what lets queue_enqueue store at rear without advancing    *)
(* it.                                                                     *)
IndicesAgree == /\ IsEmpty => front = 0 /\ rear = 0
                /\ ~IsEmpty => rear = Wrap(front + size - 1)

(* The non-NULL slots are exactly the window of size slots from front on,  *)
(* wrapped: no hole, which dequeue would take for an empty queue, and no   *)
(* node outside it, which nothing would ever deliver or free.              *)
WindowFull == \A i \in Slots : items[i] # NULL <=> i \in Occupied

(* No node_t is ever lost: none is overwritten by an enqueue, and none is  *)
(* left in the array when queue_destroy frees it.                          *)
NoLeak == ~leaked

(* The stored arguments, oldest first. *)
Contents == [k \in 1 .. size |-> items[Wrap(front + k - 1)]]

Fifo == INSTANCE FifoQueue WITH queue <- Contents

(* The array, its indices and their two rules implement a bounded FIFO:    *)
(* what leaves is what was stored, in that order, each node once.          *)
ImplementsFifo == Fifo!Spec
=============================================================================
