----------------------------- MODULE ThreadPool -----------------------------
(***************************************************************************)
(* threadpool_t of 4_ThreadCalc/src/threadpool.c: the worker threads, the  *)
(* mutex, the condition variable, the unlocked reads, and the one thread   *)
(* that creates the pool, adds jobs to it, shuts it down and destroys it   *)
(* (the main thread of threadcalc and of netcalc).                         *)
(*                                                                         *)
(* A thread's program counter names the statement it is about to execute.  *)
(* Between two labels a step touches at most one variable another thread   *)
(* could see change, or touches shared variables only under the mutex.     *)
(* The job queue is the bounded FIFO that RingQueue implements.            *)
(***************************************************************************)
EXTENDS Integers, Sequences, Functions

CONSTANTS ThreadCount,   \* the argument of threadpool_create
          Jobs,          \* the (job, del_f, arg_p) triples the caller may add
          MaxJobs,       \* MAX_JOBS
          NoTask,        \* jobs whose job pointer is NULL
          NoArg,         \* jobs whose arg_p is NULL
          NoDel,         \* jobs whose del_f is NULL
          NoMemory,      \* jobs whose node_t may fail to be allocated
          MayFail,       \* threads whose pthread_create may fail
          MaxSpurious,   \* bound on spurious wake-ups of pthread_cond_wait
          None           \* no job

Workers == 1 .. ThreadCount

ASSUME PoolAssumption ==
  /\ ThreadCount \in Nat \ {0}
  /\ MaxJobs \in Nat \ {0}
  /\ MaxSpurious \in Nat
  /\ None \notin Jobs
  /\ NoTask \subseteq Jobs /\ NoArg \subseteq Jobs
  /\ NoDel \subseteq Jobs /\ NoMemory \subseteq Jobs
  /\ MayFail \subseteq Workers

VARIABLES pool,        \* the pool's memory: "null", "live" or "freed"
          active,      \* pool_p->active
          jobs,        \* pool_p->job_pool_p, oldest first
          mutex,       \* who holds mutex_p: a worker, 0 for the caller, Free
          wpc,         \* each worker's program counter
          hand,        \* each worker's local job_p, del_p, args_p
          cpc,         \* the caller's program counter
          carg,        \* the job the caller is adding
          destroying,  \* threadpool_shutdown was called by threadpool_destroy
          iter,        \* the loop counter of threadpool_create and _destroy
          result,      \* what threadpool_add_job returned for each job
          ran,         \* history: jobs whose job_p returned
          deleted,     \* history: jobs whose del_p was called
          dropped,     \* history: jobs queue_enqueue refused
          lost,        \* history: jobs queue_destroy freed
          spurious     \* how many spurious wake-ups happened

callerVars == <<cpc, carg, destroying, iter, result>>
workerVars == <<wpc, hand>>
history == <<ran, deleted, dropped, lost, spurious>>
vars == <<pool, active, jobs, mutex, workerVars, callerVars, history>>

Caller == 0
Free == -1

WorkerLabels == {"unborn", "lock", "check", "wait", "woken", "unlock", "run",
                 "del", "readSize", "readActive", "exited"}

CallerLabels == {"create", "spawn", "failed", "idle", "addLock", "enqueue",
                 "addUnlock", "signal", "shutLock", "deactivate", "shutUnlock",
                 "broadcast", "join", "teardown", "done"}

Init == /\ pool = "null"
        /\ active = FALSE
        /\ jobs = <<>>
        /\ mutex = Free
        /\ wpc = [w \in Workers |-> "unborn"]
        /\ hand = [w \in Workers |-> None]
        /\ cpc = "create"
        /\ carg = None
        /\ destroying = FALSE
        /\ iter = 0
        /\ result = [j \in Jobs |-> "none"]
        /\ ran = {}
        /\ deleted = {}
        /\ dropped = {}
        /\ lost = {}
        /\ spurious = 0
-----------------------------------------------------------------------------
(* threadpool_create: the allocations either all succeed, or failed_start  *)
(* frees what there is and the caller gets NULL.                           *)
CreateFails == /\ cpc = "create"
               /\ cpc' = "done"
               /\ UNCHANGED <<pool, active, jobs, mutex, workerVars, carg,
                              destroying, iter, result, history>>

Create == /\ cpc = "create"
          /\ pool' = "live"
          /\ active' = TRUE
          /\ iter' = 0
          /\ cpc' = "spawn"
          /\ UNCHANGED <<jobs, mutex, workerVars, carg, destroying, result,
                         history>>

(* pthread_create of the next thread, which runs from here on.             *)
Spawn == /\ cpc = "spawn"
         /\ wpc' = [wpc EXCEPT ![iter + 1] = "lock"]
         /\ iter' = iter + 1
         /\ cpc' = IF iter + 1 = ThreadCount THEN "idle" ELSE "spawn"
         /\ UNCHANGED <<pool, active, jobs, mutex, hand, carg, destroying,
                        result, history>>

(* pthread_create fails: failed_start clears active, without the mutex,    *)
(* and frees the pool, without waking or joining the threads before it.    *)
SpawnFails == /\ cpc = "spawn" /\ iter + 1 \in MayFail
              /\ active' = FALSE
              /\ cpc' = "failed"
              /\ UNCHANGED <<pool, jobs, mutex, workerVars, carg, destroying,
                             iter, result, history>>

FailedStart == /\ cpc = "failed"
               /\ pool' = "freed"
               /\ cpc' = "done"
               /\ UNCHANGED <<active, jobs, mutex, workerVars, carg,
                              destroying, iter, result, history>>
-----------------------------------------------------------------------------
(* threadpool_add_job reads active before it takes the mutex.              *)
AddJob(j) ==
  /\ cpc = "idle" /\ result[j] = "none"
  /\ IF j \in NoTask \/ ~active
     THEN /\ result' = [result EXCEPT ![j] = "error"]
          /\ UNCHANGED <<cpc, carg>>
     ELSE /\ cpc' = "addLock"
          /\ carg' = j
          /\ UNCHANGED result
  /\ UNCHANGED <<pool, active, jobs, mutex, workerVars, destroying, iter,
                 history>>

AddLock == /\ cpc = "addLock" /\ mutex = Free
           /\ mutex' = Caller
           /\ cpc' = "enqueue"
           /\ UNCHANGED <<pool, active, jobs, workerVars, carg, destroying,
                          iter, result, history>>

HasRoomForOneMore == Len(jobs) <= MaxJobs
HasRoom == Len(jobs) < MaxJobs

AddEnqueue == /\ cpc = "enqueue"
              /\ HasRoom /\ carg \notin NoArg
              /\ jobs' = Append(jobs, carg)
              /\ cpc' = "addUnlock"
              /\ UNCHANGED <<pool, active, mutex, workerVars, carg, destroying,
                             iter, result, history>>

(* queue_enqueue refuses; threadpool_add_job does not look at its result.  *)
AddDrop == /\ cpc = "enqueue"
           /\ ~HasRoom \/ carg \in NoArg \cup NoMemory
           /\ dropped' = dropped \cup {carg}
           /\ cpc' = "addUnlock"
           /\ UNCHANGED <<pool, active, jobs, mutex, workerVars, carg,
                          destroying, iter, result, ran, deleted, lost,
                          spurious>>

AddUnlock == /\ cpc = "addUnlock"
             /\ mutex' = Free
             /\ cpc' = "signal"
             /\ UNCHANGED <<pool, active, jobs, workerVars, carg, destroying,
                            iter, result, history>>

Waiting == { w \in Workers : wpc[w] = "wait" }

AfterSignalNone(w) == wpc
AfterSignal(w) == [wpc EXCEPT ![w] = "woken"]

(* pthread_cond_signal wakes one of the threads that wait, if any does;    *)
(* threadpool_add_job returns SUCCESS.                                     *)
AddSignal == /\ cpc = "signal"
             /\ IF Waiting = {}
                THEN UNCHANGED wpc
                ELSE \E w \in Waiting : wpc' = AfterSignal(w)
             /\ result' = [result EXCEPT ![carg] = "success"]
             /\ carg' = None
             /\ cpc' = "idle"
             /\ UNCHANGED <<pool, active, jobs, mutex, hand, destroying, iter,
                            history>>
-----------------------------------------------------------------------------
(* threadpool_shutdown, called by itself or as the first statement of      *)
(* threadpool_destroy.  A second call by itself would change nothing.      *)
Shutdown == /\ cpc = "idle" /\ active
            /\ cpc' = "shutLock"
            /\ UNCHANGED <<pool, active, jobs, mutex, workerVars, carg,
                           destroying, iter, result, history>>

Destroy == /\ cpc = "idle"
           /\ destroying' = TRUE
           /\ cpc' = "shutLock"
           /\ UNCHANGED <<pool, active, jobs, mutex, workerVars, carg, iter,
                          result, history>>

ShutLock == /\ cpc = "shutLock" /\ mutex = Free
            /\ mutex' = Caller
            /\ cpc' = "deactivate"
            /\ UNCHANGED <<pool, active, jobs, workerVars, carg, destroying,
                           iter, result, history>>

Deactivate == /\ cpc = "deactivate"
              /\ active' = FALSE
              /\ cpc' = "shutUnlock"
              /\ UNCHANGED <<pool, jobs, mutex, workerVars, carg, destroying,
                             iter, result, history>>

ShutUnlock == /\ cpc = "shutUnlock"
              /\ mutex' = Free
              /\ cpc' = IF destroying THEN "broadcast" ELSE "idle"
              /\ UNCHANGED <<pool, active, jobs, workerVars, carg, destroying,
                             iter, result, history>>

(* threadpool_destroy: wake all, join all, free all.                       *)
Broadcast == /\ cpc = "broadcast"
             /\ wpc' = [w \in Workers |-> IF w \in Waiting THEN "woken"
                                                           ELSE wpc[w]]
             /\ iter' = 0
             /\ cpc' = "join"
             /\ UNCHANGED <<pool, active, jobs, mutex, hand, carg, destroying,
                            result, history>>

JoinLoopEndsEarly == iter + 1 = ThreadCount
JoinLoopEnds == iter = ThreadCount

Join == /\ cpc = "join" /\ ~JoinLoopEnds
        /\ wpc[iter + 1] = "exited"
        /\ iter' = iter + 1
        /\ UNCHANGED <<pool, active, jobs, mutex, workerVars, cpc, carg,
                       destroying, result, history>>

JoinedAll == /\ cpc = "join" /\ JoinLoopEnds
             /\ cpc' = "teardown"
             /\ UNCHANGED <<pool, active, jobs, mutex, workerVars, carg,
                            destroying, iter, result, history>>

(* queue_destroy frees the nodes of the jobs nobody took.                  *)
Teardown == /\ cpc = "teardown"
            /\ lost' = lost \cup Range(jobs)
            /\ jobs' = <<>>
            /\ pool' = "freed"
            /\ cpc' = "done"
            /\ UNCHANGED <<active, mutex, workerVars, carg, destroying, iter,
                           result, ran, deleted, dropped, spurious>>
-----------------------------------------------------------------------------
(* start_thread.  Every statement of it uses the pool's memory: what a     *)
(* worker does after the pool is freed is undefined, and not modelled.     *)
Goto(w, from, to) == /\ pool = "live"
                     /\ wpc[w] = from
                     /\ wpc' = [wpc EXCEPT ![w] = to]

Lock(w) == /\ Goto(w, "lock", "check")
           /\ mutex = Free
           /\ mutex' = w
           /\ UNCHANGED <<pool, active, jobs, hand, callerVars, history>>

MustWaitIgnoringActive == jobs = <<>>
MustWait == jobs = <<>> /\ active

(* pthread_cond_wait releases the mutex and waits in one step.             *)
Wait(w) == /\ Goto(w, "check", "wait")
           /\ MustWait
           /\ mutex' = Free
           /\ UNCHANGED <<pool, active, jobs, hand, callerVars, history>>

SpuriousWakeup(w) == /\ Goto(w, "wait", "woken")
                     /\ spurious < MaxSpurious
                     /\ spurious' = spurious + 1
                     /\ UNCHANGED <<pool, active, jobs, mutex, hand,
                                    callerVars, ran, deleted, dropped, lost>>

(* A woken thread has the mutex again before pthread_cond_wait returns,    *)
(* and the while loop tests its condition once more.                       *)
Relock(w) == /\ Goto(w, "woken", "check")
             /\ mutex = Free
             /\ mutex' = w
             /\ UNCHANGED <<pool, active, jobs, hand, callerVars, history>>

TakenNewest == jobs[Len(jobs)]
Taken == Head(jobs)

RemainingAll == jobs
Remaining == Tail(jobs)

(* queue_dequeue; on an empty queue job_p stays NULL.                      *)
Dequeue(w) == /\ Goto(w, "check", "unlock")
              /\ ~MustWait
              /\ IF jobs = <<>>
                 THEN UNCHANGED <<jobs, hand>>
                 ELSE /\ hand' = [hand EXCEPT ![w] = Taken]
                      /\ jobs' = Remaining
              /\ UNCHANGED <<pool, active, mutex, callerVars, history>>

Unlock(w) == /\ Goto(w, "unlock", IF hand[w] = None THEN "readSize" ELSE "run")
             /\ mutex' = Free
             /\ UNCHANGED <<pool, active, jobs, hand, callerVars, history>>

(* job_p(args_p) returns.                                                  *)
Run(w) == /\ Goto(w, "run", IF hand[w] \in NoDel THEN "readSize" ELSE "del")
          /\ ran' = ran \cup {hand[w]}
          /\ hand' = IF hand[w] \in NoDel THEN [hand EXCEPT ![w] = None]
                                          ELSE hand
          /\ UNCHANGED <<pool, active, jobs, mutex, callerVars, deleted,
                         dropped, lost, spurious>>

Delete(w) == /\ Goto(w, "del", "readSize")
             /\ deleted' = deleted \cup {hand[w]}
             /\ hand' = [hand EXCEPT ![w] = None]
             /\ UNCHANGED <<pool, active, jobs, mutex, callerVars, ran,
                            dropped, lost, spurious>>

SizeReadsZero == jobs = <<>>

(* The exit test reads size and then, if it was 0, active, both without    *)
(* the mutex.                                                              *)
ReadSize(w) == /\ Goto(w, "readSize",
                       IF SizeReadsZero THEN "readActive" ELSE "lock")
               /\ UNCHANGED <<pool, active, jobs, mutex, hand, callerVars,
                              history>>

ReadActive(w) == /\ Goto(w, "readActive", IF active THEN "lock" ELSE "exited")
                 /\ UNCHANGED <<pool, active, jobs, mutex, hand, callerVars,
                                history>>
-----------------------------------------------------------------------------
WorkerStep(w) == \/ Lock(w)
                 \/ Wait(w)
                 \/ Relock(w)
                 \/ Dequeue(w)
                 \/ Unlock(w)
                 \/ Run(w)
                 \/ Delete(w)
                 \/ ReadSize(w)
                 \/ ReadActive(w)

(* The calls the caller chooses to make, and the steps of a call it has    *)
(* made.                                                                   *)
CallerStarts == (\E j \in Jobs : AddJob(j)) \/ Shutdown \/ Destroy

CallerStep == \/ CreateFails \/ Create \/ Spawn \/ SpawnFails \/ FailedStart
              \/ AddLock \/ AddEnqueue \/ AddDrop \/ AddUnlock \/ AddSignal
              \/ ShutLock \/ Deactivate \/ ShutUnlock
              \/ Broadcast \/ Join \/ JoinedAll \/ Teardown

(* The caller has its result and the pool is gone. *)
Terminated == cpc = "done" /\ UNCHANGED vars

Next == \/ CallerStarts
        \/ CallerStep
        \/ \E w \in Workers : WorkerStep(w) \/ SpuriousWakeup(w)
        \/ Terminated

Spec == Init /\ [][Next]_vars

(* Threads that can run are scheduled, and jobs return.  The mutex is not  *)
(* assumed fair: weak fairness is enough because only finitely many steps  *)
(* can keep a thread from it.                                              *)
FairSpec == /\ Spec
            /\ WF_vars(CallerStep)
            /\ \A w \in Workers : WF_vars(WorkerStep(w))
-----------------------------------------------------------------------------
(* Every variable keeps its type; the job pool never holds more than       *)
(* MAX_JOBS.                                                               *)
TypeOK == /\ pool \in {"null", "live", "freed"}
          /\ active \in BOOLEAN
          /\ jobs \in Seq(Jobs)
          /\ Len(jobs) <= MaxJobs
          /\ mutex \in Workers \cup {Caller, Free}
          /\ wpc \in [Workers -> WorkerLabels]
          /\ hand \in [Workers -> Jobs \cup {None}]
          /\ cpc \in CallerLabels
          /\ carg \in Jobs \cup {None}
          /\ destroying \in BOOLEAN
          /\ iter \in 0 .. ThreadCount
          /\ result \in [Jobs -> {"none", "success", "error"}]
          /\ ran \subseteq Jobs
          /\ deleted \subseteq Jobs
          /\ dropped \subseteq Jobs
          /\ lost \subseteq Jobs
          /\ spurious \in 0 .. MaxSpurious

Queued == Range(jobs)

Held == Range(hand) \ {None}

\* The jobs that threadpool_add_job returned SUCCESS for, or will.
Submitted == {j \in Jobs : \/ result[j] = "success"
                           \/ j = carg /\ cpc \in {"addUnlock", "signal"}}

OnePlace ==
  /\ IsInjective(jobs)
  /\ \A v, w \in Workers : hand[v] = hand[w] /\ hand[v] # None => v = w
  /\ Queued \cap (Held \cup ran \cup dropped \cup lost) = {}
  /\ \A w \in Workers : hand[w] \in ran <=> wpc[w] = "del"
  /\ (Held \cup ran) \cap (dropped \cup lost) = {}
  /\ dropped \cap lost = {}
  /\ deleted \subseteq ran \ NoDel

(* A job is in one place: no job is queued twice, held by two workers,     *)
(* queued or run again after it ran, or run although it was refused or     *)
(* thrown away.  And the jobs that are queued, held, run or thrown away    *)
(* with the queue are exactly those submitted, but for the ones that       *)
(* queue_enqueue refused: none that it took vanishes, and none that        *)
(* add_job returned ERROR for is ever run.  (That SUCCESS need not mean    *)
(* that queue_enqueue took the job is SuccessMeansAdded, below.)           *)
JobAccounting ==
  /\ OnePlace
  /\ Queued \cup Held \cup ran \cup lost = Submitted \ dropped

Asleep == {"unborn", "wait", "exited"}

(* No wake-up is lost.  While the pool is active a queued job always has   *)
(* an awake worker or a signal still to come, although threadpool_add_job  *)
(* signals after it released the mutex; and once threadpool_destroy        *)
(* starts to join, no worker is left waiting.                              *)
NoLostWakeup ==
  /\ active /\ jobs # <<>> => \/ \E w \in Workers : wpc[w] \notin Asleep
                              \/ cpc \in {"addUnlock", "signal"}
  /\ cpc \in {"join", "teardown"} => Waiting = {}

(* Nobody uses the pool after it is freed: threadpool_destroy frees it     *)
(* when every worker has left start_thread, and failed_start when none     *)
(* was started.                                                            *)
NoUseAfterFree ==
  pool = "freed" => \A w \in Workers : wpc[w] \in {"unborn", "exited"}

Phase == CASE pool = "null" -> "new"
           [] pool = "freed" -> "gone"
           [] pool = "live" /\ active -> "open"
           [] pool = "live" /\ ~active -> "closed"

Service == INSTANCE JobService
             WITH Idle <- None, phase <- Phase, pending <- jobs, busy <- hand,
                  finished <- ran \ Held

(* The pool is the service of threadpool.h: first in, first started, each  *)
(* job at most once, none taken after the shutdown, and destroyed only     *)
(* when no job is being worked on.                                         *)
ImplementsJobService == Service!Spec

(* threadpool_destroy returns: no worker waits for ever and none is joined *)
(* that will not exit.                                                     *)
DestroyCompletes == destroying ~> pool = "freed"

(* A worker that has not yet read size 0 in its exit test. *)
WillLook(w) == wpc[w] \notin {"unborn", "readActive", "exited"}

(* A queued job is run if, at some moment while it is queued, one worker   *)
(* still has to look at the queue, even when the pool is shut down right   *)
(* after: one worker is enough to drain it.                                *)
QueuedJobIsRun ==
  \A j \in Jobs :
    (j \in Queued /\ \E w \in Workers : WillLook(w)) ~> j \in ran

(* threadpool.h of threadpool_shutdown: "Finish the work that has already  *)
(* been accepted."  A job that add_job returned SUCCESS for is not freed   *)
(* unrun.                                                                  *)
AcceptedWorkIsFinished == \A j \in lost : result[j] # "success"

(* threadpool.h: "The job may not include an arg and thus NULL must be     *)
(* accepted as an arg."  A job that add_job returned SUCCESS for was put   *)
(* into the queue.                                                         *)
SuccessMeansAdded == \A j \in Jobs : result[j] = "success" => j \notin dropped
=============================================================================
