------------------------------ MODULE FifoQueue ------------------------------
(***************************************************************************)
(* What queue.h promises of a queue_t, without its array: a bounded FIFO.  *)
(* Items leave in the order in which they were stored, each once, and the  *)
(* queue never holds more than Capacity of them.  An operation that is     *)
(* refused (queue full, NULL argument, no memory) is a stuttering step.    *)
(*                                                                         *)
(* RingQueue implements this specification; ThreadPool keeps its job pool  *)
(* as such a sequence.                                                     *)
(***************************************************************************)
EXTENDS Naturals, Sequences

CONSTANTS Items,      \* what may be stored
          Capacity,   \* queue_t.capacity
          NULL        \* "nothing delivered yet"

VARIABLES queue,      \* the stored items, oldest first
          out         \* the item the last successful dequeue delivered

vars == <<queue, out>>

Init == queue = <<>> /\ out = NULL

Put(x) == /\ Len(queue) < Capacity
          /\ queue' = Append(queue, x)
          /\ UNCHANGED out

Get == /\ queue # <<>>
       /\ out' = Head(queue)
       /\ queue' = Tail(queue)

Discard == /\ queue' = <<>>
           /\ UNCHANGED out

Next == (\E x \in Items : Put(x)) \/ Get \/ Discard

Spec == Init /\ [][Next]_vars
=============================================================================
