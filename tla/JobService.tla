----------------------------- MODULE JobService -----------------------------
(***************************************************************************)
(* What threadpool.h promises of a thread pool, without threads: jobs are  *)
(* started in the order in which they were submitted, each once; a job is  *)
(* started only by a worker that has nothing else to do; nothing is        *)
(* submitted once the service is closed; and it is gone only when no       *)
(* worker is busy.                                                         *)
(*                                                                         *)
(* It does not promise that every submitted job is started: jobs still     *)
(* pending when the service goes away are thrown away.  ThreadPool         *)
(* implements this specification.                                          *)
(***************************************************************************)
EXTENDS Sequences, Functions

CONSTANTS Workers, Jobs,
          Idle          \* a worker with no job

VARIABLES phase,        \* "new", "open", "closed" or "gone"
          pending,      \* submitted and not started, oldest first
          busy,         \* the job each worker works on, or Idle
          finished      \* the jobs that were worked on to their end

vars == <<phase, pending, busy, finished>>

Init == /\ phase = "new"
        /\ pending = <<>>
        /\ busy = [w \in Workers |-> Idle]
        /\ finished = {}

Open == /\ phase = "new"
        /\ phase' = "open"
        /\ UNCHANGED <<pending, busy, finished>>

(* A job is submitted once, while the service is open. *)
Submit(j) == /\ phase = "open"
             /\ j \notin Range(pending) \cup Range(busy) \cup finished
             /\ pending' = Append(pending, j)
             /\ UNCHANGED <<phase, busy, finished>>

(* A worker may start a job after the service is closed, not after it is   *)
(* gone.                                                                   *)
Start(w) == /\ phase \in {"open", "closed"}
            /\ busy[w] = Idle
            /\ pending # <<>>
            /\ busy' = [busy EXCEPT ![w] = Head(pending)]
            /\ pending' = Tail(pending)
            /\ UNCHANGED <<phase, finished>>

Finish(w) == /\ phase \in {"open", "closed"}
             /\ busy[w] # Idle
             /\ finished' = finished \cup {busy[w]}
             /\ busy' = [busy EXCEPT ![w] = Idle]
             /\ UNCHANGED <<phase, pending>>

Close == /\ phase = "open"
         /\ phase' = "closed"
         /\ UNCHANGED <<pending, busy, finished>>

Leave == /\ phase = "closed"
         /\ \A w \in Workers : busy[w] = Idle
         /\ phase' = "gone"
         /\ pending' = <<>>
         /\ UNCHANGED <<busy, finished>>

Next == \/ Open
        \/ \E j \in Jobs : Submit(j)
        \/ \E w \in Workers : Start(w) \/ Finish(w)
        \/ Close
        \/ Leave

Spec == Init /\ [][Next]_vars
=============================================================================
