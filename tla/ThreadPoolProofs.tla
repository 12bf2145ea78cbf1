-------------------------- MODULE ThreadPoolProofs --------------------------
(***************************************************************************)
(* Proofs about ThreadPool for every number of threads, every set of jobs, *)
(* every queue length and every choice of what may fail.                   *)
(***************************************************************************)
EXTENDS ThreadPool, JobLemmas, TLAPS

(* Where the mutex is held, by whom.                                       *)
MutexInv ==
  /\ \A w \in Workers : mutex = w <=> wpc[w] \in {"check", "unlock"}
  /\ mutex = Caller <=>
       cpc \in {"enqueue", "addUnlock", "deactivate", "shutUnlock"}

(* What the caller's position says of the pool.                            *)
CallerInv ==
  /\ cpc = "create" => pool = "null" /\ ~active
  /\ cpc = "done" => pool # "live"
  /\ cpc \notin {"create", "done"} => pool = "live"
  /\ cpc \in {"spawn", "addLock", "enqueue", "addUnlock", "signal"} => active
  /\ cpc \in {"failed", "shutUnlock", "broadcast", "join", "teardown", "done"}
       => ~active
  /\ cpc \in {"create", "spawn", "failed"} =>
       jobs = <<>> /\ \A w \in Workers : hand[w] = None
  /\ cpc \in {"addLock", "enqueue", "addUnlock", "signal"} =>
       carg \in Jobs /\ result[carg] = "none"

(* Which threads were started, and which have ended.                       *)
ThreadInv ==
  /\ cpc = "create" \/ pool = "null" => \A w \in Workers : wpc[w] = "unborn"
  /\ cpc \in {"spawn", "failed"} => iter < ThreadCount
  /\ cpc \in {"spawn", "failed"} =>
       \A w \in Workers : wpc[w] = "unborn" <=> w > iter
  /\ cpc = "failed" => iter + 1 \in MayFail
  /\ cpc \notin {"create", "spawn", "failed", "done"} =>
       \A w \in Workers : wpc[w] # "unborn"
  /\ active => \A w \in Workers : wpc[w] # "exited"
  /\ cpc = "join" => \A w \in 1 .. iter : wpc[w] = "exited"
  /\ cpc = "teardown" => \A w \in Workers : wpc[w] = "exited"

Placed == Queued \cup Held \cup ran \cup dropped \cup lost

(* Where each job is: the caller's job is in a place from the enqueue on.  *)
JobInv ==
  /\ \A w \in Workers : wpc[w] \in {"run", "del"} => hand[w] # None
  /\ \A w \in Workers : hand[w] # None => wpc[w] \in {"unlock", "run", "del"}
  /\ \A w \in Workers : wpc[w] = "del" => hand[w] \notin NoDel
  /\ \A j \in Jobs : j \in Placed <=> \/ result[j] = "success"
                                      \/ /\ j = carg
                                         /\ cpc \in {"addUnlock", "signal"}

(* The pool is freed in two places: after the join loop, when every worker *)
(* has exited, and after a failed pthread_create, when only the threads    *)
(* before the failed one were started.                                     *)
FreedInv == MayFail \subseteq {1} => NoUseAfterFree

IInv == /\ TypeOK
        /\ MutexInv
        /\ CallerInv
        /\ ThreadInv
        /\ JobInv
        /\ OnePlace
        /\ NoLostWakeup
        /\ FreedInv
-----------------------------------------------------------------------------
(* Each step keeps the types.  The index of the thread being started and   *)
(* the job being added have theirs by ThreadInv and CallerInv.             *)
LEMMA TypeStep == IInv /\ [Next]_vars => TypeOK'
<1> SUFFICES ASSUME IInv, [Next]_vars PROVE TypeOK'
  OBVIOUS
<1> USE PoolAssumption DEF IInv, TypeOK, CallerInv, ThreadInv, JobInv,
      Workers, WorkerLabels, CallerLabels, Caller, Free
<1>1. CASE CreateFails
  BY <1>1 DEF CreateFails, callerVars, workerVars, history
<1>2. CASE Create
  BY <1>2 DEF Create, callerVars, workerVars, history
<1>3. CASE Spawn
  BY <1>3, iter + 1 \in Workers /\ wpc' = [wpc EXCEPT ![iter + 1] = "lock"]
     DEF Spawn, workerVars, history
<1>4. CASE SpawnFails
  BY <1>4 DEF SpawnFails, callerVars, workerVars, history
<1>5. CASE FailedStart
  BY <1>5 DEF FailedStart, callerVars, workerVars, history
<1>6. CASE AddLock \/ AddUnlock
  BY <1>6 DEF AddLock, AddUnlock, callerVars, workerVars, history
<1>7. CASE AddEnqueue
  <2>1. carg \in Jobs /\ Len(jobs) < MaxJobs /\ jobs' = Append(jobs, carg)
    BY <1>7 DEF AddEnqueue, HasRoom
  <2>2. jobs' \in Seq(Jobs) /\ Len(jobs') <= MaxJobs
    BY <2>1
  <2> QED
    BY <1>7, <2>2 DEF AddEnqueue, workerVars, history
<1>8. CASE AddDrop
  BY <1>8 DEF AddDrop, HasRoom, callerVars, workerVars, history
<1>9. CASE AddSignal
  BY <1>9
     DEF AddSignal, AfterSignal, Waiting, callerVars, workerVars, history
<1>10. CASE Shutdown \/ Destroy \/ ShutLock \/ Deactivate \/ ShutUnlock
  BY <1>10
     DEF Shutdown, Destroy, ShutLock, Deactivate, ShutUnlock, callerVars,
         workerVars, history
<1>11. CASE Broadcast \/ Join \/ JoinedAll
  BY <1>11
     DEF Broadcast, Waiting, Join, JoinLoopEnds, JoinedAll, callerVars,
         workerVars, history
<1>12. CASE Teardown
  <2>1. Range(jobs) \subseteq Jobs
    BY RangeOfSeq
  <2> QED
    BY <1>12, <2>1 DEF Teardown, workerVars
<1>13. ASSUME NEW j \in Jobs, AddJob(j) PROVE TypeOK'
  BY <1>13 DEF AddJob, callerVars, workerVars, history
<1>14. ASSUME NEW u \in Workers, Lock(u) PROVE TypeOK'
  BY <1>14 DEF Lock, Goto, callerVars, workerVars, history
<1>15. ASSUME NEW u \in Workers, Wait(u) PROVE TypeOK'
  BY <1>15 DEF Wait, MustWait, Goto, callerVars, workerVars, history
<1>16. ASSUME NEW u \in Workers, SpuriousWakeup(u) PROVE TypeOK'
  BY <1>16 DEF SpuriousWakeup, Goto, callerVars, workerVars, history
<1>17. ASSUME NEW u \in Workers, Relock(u) PROVE TypeOK'
  BY <1>17 DEF Relock, Goto, callerVars, workerVars, history
<1>18. ASSUME NEW u \in Workers, Dequeue(u) PROVE TypeOK'
  <2>1. CASE jobs = <<>>
    BY <1>18, <2>1 DEF Dequeue, Goto, callerVars, history
  <2>2. CASE jobs # <<>>
    <3>1. /\ Head(jobs) \in Jobs /\ Tail(jobs) \in Seq(Jobs)
          /\ Len(Tail(jobs)) <= MaxJobs
      BY <2>2
    <3>2. jobs' = Tail(jobs) /\ hand' = [hand EXCEPT ![u] = Head(jobs)]
      BY <1>18, <2>2 DEF Dequeue, Taken, Remaining
    <3> HIDE <2>2
    <3> QED
      BY <1>18, <3>1, <3>2 DEF Dequeue, Goto, callerVars, history
  <2> QED
    BY <2>1, <2>2
<1>19. ASSUME NEW u \in Workers, Unlock(u) PROVE TypeOK'
  BY <1>19 DEF Unlock, Goto, callerVars, workerVars, history
<1>20. ASSUME NEW u \in Workers, Run(u) PROVE TypeOK'
  BY <1>20 DEF Run, Goto, callerVars, workerVars, history
<1>21. ASSUME NEW u \in Workers, Delete(u) PROVE TypeOK'
  BY <1>21 DEF Delete, Goto, callerVars, workerVars, history
<1>22. ASSUME NEW u \in Workers, ReadSize(u) \/ ReadActive(u) PROVE TypeOK'
  BY <1>22
     DEF ReadSize, SizeReadsZero, ReadActive, Goto, callerVars, workerVars,
         history
<1>23. CASE UNCHANGED vars
  BY <1>23 DEF vars, callerVars, workerVars, history
<1> QED
  BY <1>1, <1>2, <1>3, <1>4, <1>5, <1>6, <1>7, <1>8, <1>9, <1>10, <1>11,
     <1>12, <1>13, <1>14, <1>15, <1>16, <1>17, <1>18, <1>19, <1>20, <1>21,
     <1>22, <1>23
     DEF Next, CallerStarts, CallerStep, WorkerStep, Terminated

(* Each step keeps the mutex and the program counters in agreement.        *)
LEMMA MutexStep == IInv /\ [Next]_vars => MutexInv'
<1> SUFFICES ASSUME IInv, [Next]_vars PROVE MutexInv'
  OBVIOUS
<1> USE PoolAssumption DEF IInv, TypeOK, MutexInv, ThreadInv, Workers,
      WorkerLabels, CallerLabels, Caller, Free
<1>1. CASE CreateFails \/ Create \/ Spawn \/ SpawnFails \/ FailedStart
  BY <1>1
     DEF CreateFails, Create, Spawn, SpawnFails, FailedStart, callerVars,
         workerVars, history
<1>2. CASE AddLock \/ AddEnqueue \/ AddDrop \/ AddUnlock \/ AddSignal
  BY <1>2
     DEF AddLock, AddEnqueue, HasRoom, AddDrop, AddUnlock, AddSignal,
         AfterSignal, Waiting, callerVars, workerVars, history
<1>3. CASE Shutdown \/ Destroy \/ ShutLock \/ Deactivate \/ ShutUnlock
  BY <1>3
     DEF Shutdown, Destroy, ShutLock, Deactivate, ShutUnlock, callerVars,
         workerVars, history
<1>4. CASE Broadcast \/ Join \/ JoinedAll \/ Teardown
  BY <1>4
     DEF Broadcast, Waiting, Join, JoinLoopEnds, JoinedAll, Teardown,
         callerVars, workerVars, history
<1>5. ASSUME NEW j \in Jobs, AddJob(j) PROVE MutexInv'
  BY <1>5 DEF AddJob, callerVars, workerVars, history
<1>6. ASSUME NEW u \in Workers, Lock(u) \/ Wait(u) \/ SpuriousWakeup(u) \/
                                Relock(u)
      PROVE  MutexInv'
  BY <1>6
     DEF Lock, Wait, MustWait, SpuriousWakeup, Relock, Goto, callerVars,
         workerVars, history
<1>7. ASSUME NEW u \in Workers, Dequeue(u) \/ Unlock(u) \/ Run(u) \/
                                Delete(u)
      PROVE  MutexInv'
  BY <1>7
     DEF Dequeue, MustWait, Taken, Remaining, Unlock, Run, Delete, Goto,
         callerVars, workerVars, history
<1>8. ASSUME NEW u \in Workers, ReadSize(u) \/ ReadActive(u) PROVE MutexInv'
  BY <1>8
     DEF ReadSize, SizeReadsZero, ReadActive, Goto, callerVars, workerVars,
         history
<1>9. CASE UNCHANGED vars
  BY <1>9 DEF vars, callerVars, workerVars, history
<1> QED
  BY <1>1, <1>2, <1>3, <1>4, <1>5, <1>6, <1>7, <1>8, <1>9
     DEF Next, CallerStarts, CallerStep, WorkerStep, Terminated

(* Each step keeps the pool as the caller's position says it is.           *)
LEMMA CallerStepInv == IInv /\ [Next]_vars => CallerInv'
<1> SUFFICES ASSUME IInv, [Next]_vars PROVE CallerInv'
  OBVIOUS
<1> USE PoolAssumption DEF IInv, TypeOK, CallerInv, Workers, WorkerLabels,
      CallerLabels, Caller, Free
<1>1. CASE CreateFails \/ Create \/ Spawn \/ SpawnFails \/ FailedStart
  BY <1>1
     DEF CreateFails, Create, Spawn, SpawnFails, FailedStart, callerVars,
         workerVars, history
<1>2. CASE AddLock \/ AddEnqueue \/ AddDrop \/ AddUnlock \/ AddSignal
  BY <1>2
     DEF AddLock, AddEnqueue, HasRoom, AddDrop, AddUnlock, AddSignal,
         AfterSignal, Waiting, callerVars, workerVars, history
<1>3. CASE Shutdown \/ Destroy \/ ShutLock \/ Deactivate \/ ShutUnlock
  BY <1>3
     DEF Shutdown, Destroy, ShutLock, Deactivate, ShutUnlock, callerVars,
         workerVars, history
<1>4. CASE Broadcast \/ Join \/ JoinedAll \/ Teardown
  BY <1>4
     DEF Broadcast, Waiting, Join, JoinLoopEnds, JoinedAll, Teardown,
         callerVars, workerVars, history
<1>5. ASSUME NEW j \in Jobs, AddJob(j) PROVE CallerInv'
  BY <1>5 DEF AddJob, callerVars, workerVars, history
<1>6. ASSUME NEW u \in Workers, Lock(u) \/ Wait(u) \/ SpuriousWakeup(u) \/
                                Relock(u)
      PROVE  CallerInv'
  BY <1>6
     DEF Lock, Wait, MustWait, SpuriousWakeup, Relock, Goto, callerVars,
         workerVars, history
<1>7. ASSUME NEW u \in Workers, Unlock(u) PROVE CallerInv'
  BY <1>7 DEF Unlock, Goto, callerVars, workerVars, history
<1>8. ASSUME NEW u \in Workers, Dequeue(u) PROVE CallerInv'
  BY <1>8
     DEF Dequeue, MustWait, Taken, Remaining, Goto, callerVars, workerVars,
         history
<1>9. ASSUME NEW u \in Workers, Run(u) PROVE CallerInv'
  BY <1>9 DEF Run, Goto, callerVars, workerVars, history
<1>10. ASSUME NEW u \in Workers, Delete(u) PROVE CallerInv'
  BY <1>10 DEF Delete, Goto, callerVars, workerVars, history
<1>11. ASSUME NEW u \in Workers, ReadSize(u) \/ ReadActive(u)
       PROVE  CallerInv'
  BY <1>11
     DEF ReadSize, SizeReadsZero, ReadActive, Goto, callerVars, workerVars,
         history
<1>12. CASE UNCHANGED vars
  BY <1>12 DEF vars, callerVars, workerVars, history
<1> QED
  BY <1>1, <1>2, <1>3, <1>4, <1>5, <1>6, <1>7, <1>8, <1>9, <1>10, <1>11,
     <1>12
     DEF Next, CallerStarts, CallerStep, WorkerStep, Terminated

(* Each step keeps the threads as the caller's position says they are.  A  *)
(* worker exits only when it reads active = 0, which no step undoes.       *)
LEMMA ThreadStep == IInv /\ [Next]_vars => ThreadInv'
<1> SUFFICES ASSUME IInv, [Next]_vars PROVE ThreadInv'
  OBVIOUS
<1> USE PoolAssumption DEF IInv, TypeOK, CallerInv, ThreadInv, Workers,
      WorkerLabels, CallerLabels, Caller, Free
<1>1. CASE CreateFails
  BY <1>1 DEF CreateFails, callerVars, workerVars, history
<1>2. CASE Create
  BY <1>2 DEF Create, callerVars, workerVars, history
<1>3. CASE Spawn
  BY <1>3 DEF Spawn, callerVars, workerVars, history
<1>4. CASE SpawnFails
  BY <1>4 DEF SpawnFails, callerVars, workerVars, history
<1>5. CASE FailedStart
  BY <1>5 DEF FailedStart, callerVars, workerVars, history
<1>6. CASE AddLock \/ AddEnqueue \/ AddDrop \/ AddUnlock \/ AddSignal
  BY <1>6
     DEF AddLock, AddEnqueue, HasRoom, AddDrop, AddUnlock, AddSignal,
         AfterSignal, Waiting, callerVars, workerVars, history
<1>7. CASE Shutdown \/ Destroy \/ ShutLock \/ Deactivate \/ ShutUnlock
  BY <1>7
     DEF Shutdown, Destroy, ShutLock, Deactivate, ShutUnlock, callerVars,
         workerVars, history
<1>8. CASE Broadcast
  BY <1>8 DEF Broadcast, Waiting, callerVars, workerVars, history
<1>9. CASE Join
  BY <1>9 DEF Join, JoinLoopEnds, callerVars, workerVars, history
<1>10. CASE JoinedAll
  BY <1>10 DEF JoinedAll, JoinLoopEnds, callerVars, workerVars, history
<1>11. CASE Teardown
  BY <1>11 DEF Teardown, callerVars, workerVars, history
<1>12. ASSUME NEW j \in Jobs, AddJob(j) PROVE ThreadInv'
  BY <1>12 DEF AddJob, callerVars, workerVars, history
<1>13. ASSUME NEW u \in Workers, Lock(u) PROVE ThreadInv'
  BY <1>13 DEF Lock, Goto, callerVars, workerVars, history
<1>14. ASSUME NEW u \in Workers, Wait(u) PROVE ThreadInv'
  BY <1>14 DEF Wait, MustWait, Goto, callerVars, workerVars, history
<1>15. ASSUME NEW u \in Workers, SpuriousWakeup(u) PROVE ThreadInv'
  BY <1>15 DEF SpuriousWakeup, Goto, callerVars, workerVars, history
<1>16. ASSUME NEW u \in Workers, Relock(u) PROVE ThreadInv'
  BY <1>16 DEF Relock, Goto, callerVars, workerVars, history
<1>17. ASSUME NEW u \in Workers, Dequeue(u) PROVE ThreadInv'
  BY <1>17
     DEF Dequeue, MustWait, Taken, Remaining, Goto, callerVars, workerVars,
         history
<1>18. ASSUME NEW u \in Workers, Unlock(u) PROVE ThreadInv'
  BY <1>18 DEF Unlock, Goto, callerVars, workerVars, history
<1>19. ASSUME NEW u \in Workers, Run(u) PROVE ThreadInv'
  BY <1>19 DEF Run, Goto, callerVars, workerVars, history
<1>20. ASSUME NEW u \in Workers, Delete(u) PROVE ThreadInv'
  BY <1>20 DEF Delete, Goto, callerVars, workerVars, history
<1>21. ASSUME NEW u \in Workers, ReadSize(u) PROVE ThreadInv'
  BY <1>21 DEF ReadSize, SizeReadsZero, Goto, callerVars, workerVars, history
<1>22. ASSUME NEW u \in Workers, ReadActive(u) PROVE ThreadInv'
  BY <1>22 DEF ReadActive, Goto, callerVars, workerVars, history
<1>23. CASE UNCHANGED vars
  BY <1>23 DEF vars, callerVars, workerVars, history
<1> QED
  BY <1>1, <1>2, <1>3, <1>4, <1>5, <1>6, <1>7, <1>8, <1>9, <1>10, <1>11,
     <1>12, <1>13, <1>14, <1>15, <1>16, <1>17, <1>18, <1>19, <1>20, <1>21,
     <1>22, <1>23
     DEF Next, CallerStarts, CallerStep, WorkerStep, Terminated

(* What a worker's taking and dropping a job does to the jobs held.        *)
LEMMA TakeHeld ==
  ASSUME TypeOK, NEW u \in Workers, hand[u] = None, NEW x \in Jobs,
         hand' = [hand EXCEPT ![u] = x]
  PROVE  Held' = Held \cup {x}
  BY PoolAssumption DEF TypeOK, Held, Range

LEMMA DropHeld ==
  ASSUME TypeOK, OnePlace, NEW u \in Workers, hand[u] # None,
         hand' = [hand EXCEPT ![u] = None]
  PROVE  Held' = Held \ {hand[u]} /\ hand[u] \in Held
  BY DEF TypeOK, OnePlace, Held, Range

(* Each step keeps every job in one place.  The steps that move a job are  *)
(* AddEnqueue, AddDrop, Dequeue, Run, Delete and Teardown.                 *)
LEMMA JobStep == IInv /\ [Next]_vars => (JobInv /\ OnePlace)'
<1> SUFFICES ASSUME IInv, [Next]_vars PROVE (JobInv /\ OnePlace)'
  OBVIOUS
<1> USE PoolAssumption DEF IInv, TypeOK, CallerInv, JobInv, OnePlace,
      Placed, Queued, Held, Workers, WorkerLabels, CallerLabels, Caller, Free
<1>1. CASE CreateFails
  BY <1>1 DEF CreateFails, callerVars, workerVars, history
<1>2. CASE Create
  BY <1>2 DEF Create, callerVars, workerVars, history
<1>3. CASE Spawn
  <2>1. iter + 1 \in Workers /\ wpc[iter + 1] = "unborn"
    BY <1>3 DEF Spawn, ThreadInv
  <2>2. hand[iter + 1] = None /\ None \notin ran
    BY <2>1
  <2> QED
    BY <1>3, <2>1, <2>2 DEF Spawn, workerVars, history
<1>4. CASE SpawnFails
  BY <1>4 DEF SpawnFails, callerVars, workerVars, history
<1>5. CASE FailedStart
  BY <1>5 DEF FailedStart, callerVars, workerVars, history
<1>6. CASE AddLock \/ AddUnlock
  BY <1>6 DEF AddLock, AddUnlock, callerVars, workerVars, history
<1>7. CASE AddEnqueue
  <2>1. carg \in Jobs /\ carg \notin Placed /\ result[carg] = "none"
    BY <1>7 DEF AddEnqueue
  <2>2. /\ Queued' = Queued \cup {carg}
        /\ IsInjective(jobs')
    BY <1>7, <2>1, AppendElements DEF AddEnqueue
  <2>3. JobInv'
    BY <1>7, <2>1, <2>2 DEF AddEnqueue, workerVars, history
  <2>4. OnePlace'
    BY <1>7, <2>1, <2>2 DEF AddEnqueue, workerVars, history
  <2> QED
    BY <2>3, <2>4
<1>8. CASE AddDrop
  BY <1>8 DEF AddDrop, HasRoom, callerVars, workerVars, history
<1>9. CASE AddSignal
  BY <1>9
     DEF AddSignal, AfterSignal, Waiting, callerVars, workerVars, history
<1>10. CASE Shutdown \/ Destroy \/ ShutLock \/ Deactivate \/ ShutUnlock
  BY <1>10
     DEF Shutdown, Destroy, ShutLock, Deactivate, ShutUnlock, callerVars,
         workerVars, history
<1>11. CASE Broadcast
  BY <1>11 DEF Broadcast, Waiting, callerVars, workerVars, history
<1>12. CASE Join
  BY <1>12 DEF Join, JoinLoopEnds, callerVars, workerVars, history
<1>13. CASE JoinedAll
  BY <1>13 DEF JoinedAll, JoinLoopEnds, callerVars, workerVars, history
<1>14. CASE Teardown
  <2>1. Queued' = {} /\ IsInjective(jobs') /\ lost' = lost \cup Queued
    BY <1>14 DEF Teardown, Range, IsInjective
  <2>2. JobInv'
    BY <1>14, <2>1 DEF Teardown, workerVars
  <2>3. OnePlace'
    BY <1>14, <2>1 DEF Teardown, workerVars
  <2> QED
    BY <2>2, <2>3
<1>15. ASSUME NEW j \in Jobs, AddJob(j) PROVE (JobInv /\ OnePlace)'
  BY <1>15 DEF AddJob, callerVars, workerVars, history
<1>16. ASSUME NEW u \in Workers, Lock(u) PROVE (JobInv /\ OnePlace)'
  BY <1>16 DEF Lock, Goto, callerVars, workerVars, history
<1>17. ASSUME NEW u \in Workers, Wait(u) PROVE (JobInv /\ OnePlace)'
  BY <1>17 DEF Wait, MustWait, Goto, callerVars, workerVars, history
<1>18. ASSUME NEW u \in Workers, SpuriousWakeup(u)
       PROVE  (JobInv /\ OnePlace)'
  BY <1>18 DEF SpuriousWakeup, Goto, callerVars, workerVars, history
<1>19. ASSUME NEW u \in Workers, Relock(u) PROVE (JobInv /\ OnePlace)'
  BY <1>19 DEF Relock, Goto, callerVars, workerVars, history
<1>20. ASSUME NEW u \in Workers, Dequeue(u) PROVE (JobInv /\ OnePlace)'
  <2>1. CASE jobs = <<>>
    BY <1>20, <2>1 DEF Dequeue, Goto, callerVars, history
  <2>2. CASE jobs # <<>>
    <3>1. /\ jobs' = Tail(jobs)
          /\ hand' = [hand EXCEPT ![u] = Head(jobs)]
          /\ wpc' = [wpc EXCEPT ![u] = "unlock"]
          /\ hand[u] = None
      BY <1>20, <2>2 DEF Dequeue, Goto, Taken, Remaining
    <3>2. Head(jobs) \in Jobs
      BY <2>2
    <3>3. /\ Queued = Queued' \cup {Head(jobs)}
          /\ Head(jobs) \notin Queued'
          /\ IsInjective(jobs')
      BY <2>2, <3>1, TailElements
    <3>4. Held' = Held \cup {Head(jobs)}
      BY <3>1, <3>2, TakeHeld
    <3>5. Head(jobs) \notin Held \cup ran \cup dropped \cup lost
      BY <3>3
    <3> HIDE <2>2
    <3>6. UNCHANGED <<ran, deleted, dropped, lost, result, carg, cpc>>
      BY <1>20 DEF Dequeue, callerVars, history
    <3>7. \A v, w \in Workers : hand'[v] = hand'[w] /\ hand'[v] # None => v = w
      BY <3>1, <3>2, <3>5, PoolAssumption DEF Range
    <3>8. \A w \in Workers : hand'[w] \in ran' <=> wpc'[w] = "del"
      BY <3>1, <3>2, <3>5, <3>6
    <3>9. \A w \in Workers :
            /\ wpc'[w] \in {"run", "del"} => hand'[w] # None
            /\ hand'[w] # None => wpc'[w] \in {"unlock", "run", "del"}
            /\ wpc'[w] = "del" => hand'[w] \notin NoDel
      BY <3>1, <3>2
    <3> HIDE DEF Queued, Held
    <3>10. JobInv'
      BY <3>3, <3>4, <3>6, <3>9
    <3>11. OnePlace'
      BY <3>3, <3>4, <3>5, <3>6, <3>7, <3>8
    <3> QED
      BY <3>10, <3>11
  <2> QED
    BY <2>1, <2>2
<1>21. ASSUME NEW u \in Workers, Unlock(u) PROVE (JobInv /\ OnePlace)'
  BY <1>21 DEF Unlock, Goto, callerVars, workerVars, history
<1>22. ASSUME NEW u \in Workers, Run(u) PROVE (JobInv /\ OnePlace)'
  <2>1. /\ hand[u] # None /\ hand[u] \in Held /\ wpc[u] = "run"
        /\ ran' = ran \cup {hand[u]}
    BY <1>22 DEF Run, Goto, Range
  <2>2. CASE hand[u] \in NoDel
    <3>1. /\ hand' = [hand EXCEPT ![u] = None]
          /\ wpc' = [wpc EXCEPT ![u] = "readSize"]
          /\ Held' = Held \ {hand[u]}
      BY <1>22, <2>1, <2>2, DropHeld DEF Run, Goto
    <3>2. UNCHANGED <<jobs, deleted, dropped, lost, result, carg, cpc>>
      BY <1>22 DEF Run, callerVars
    <3>3. /\ \A v, w \in Workers :
               hand'[v] = hand'[w] /\ hand'[v] # None => v = w
          /\ \A w \in Workers : hand'[w] \in ran' <=> wpc'[w] = "del"
          /\ \A w \in Workers :
               /\ wpc'[w] \in {"run", "del"} => hand'[w] # None
               /\ hand'[w] # None => wpc'[w] \in {"unlock", "run", "del"}
               /\ wpc'[w] = "del" => hand'[w] \notin NoDel
      BY <2>1, <3>1
    <3>4. Queued' = Queued
      BY <3>2
    <3> HIDE DEF Queued, Held
    <3>5. JobInv'
      BY <2>1, <3>1, <3>2, <3>3, <3>4
    <3>6. OnePlace'
      BY <2>1, <3>1, <3>2, <3>3, <3>4
    <3> QED
      BY <3>5, <3>6
  <2>3. CASE hand[u] \notin NoDel
    <3>1. hand' = hand /\ wpc' = [wpc EXCEPT ![u] = "del"]
      BY <1>22, <2>3 DEF Run, Goto
    <3>2. JobInv'
      BY <1>22, <2>1, <3>1 DEF Run, callerVars
    <3>3. OnePlace'
      BY <1>22, <2>1, <3>1 DEF Run, callerVars
    <3> QED
      BY <3>2, <3>3
  <2> QED
    BY <2>2, <2>3
<1>23. ASSUME NEW u \in Workers, Delete(u) PROVE (JobInv /\ OnePlace)'
  <2>1. /\ wpc[u] = "del" /\ hand[u] # None /\ hand[u] \in ran
        /\ deleted' = deleted \cup {hand[u]}
        /\ hand' = [hand EXCEPT ![u] = None]
        /\ wpc' = [wpc EXCEPT ![u] = "readSize"]
    BY <1>23 DEF Delete, Goto
  <2>2. Held' = Held \ {hand[u]}
    BY <2>1, DropHeld
  <2>3. UNCHANGED <<jobs, ran, dropped, lost, result, carg, cpc>>
    BY <1>23 DEF Delete, callerVars
  <2>4. hand[u] \notin NoDel
    BY <2>1
  <2>5. /\ \A v, w \in Workers :
             hand'[v] = hand'[w] /\ hand'[v] # None => v = w
        /\ \A w \in Workers : hand'[w] \in ran' <=> wpc'[w] = "del"
        /\ \A w \in Workers :
             /\ wpc'[w] \in {"run", "del"} => hand'[w] # None
             /\ hand'[w] # None => wpc'[w] \in {"unlock", "run", "del"}
             /\ wpc'[w] = "del" => hand'[w] \notin NoDel
    BY <2>1, <2>3
  <2>6. Queued' = Queued
    BY <2>3
  <2> HIDE DEF Queued, Held
  <2>7. JobInv'
    BY <2>1, <2>2, <2>3, <2>5, <2>6
  <2>8. OnePlace'
    BY <2>1, <2>2, <2>3, <2>4, <2>5, <2>6
  <2> QED
    BY <2>7, <2>8
<1>24. ASSUME NEW u \in Workers, ReadSize(u) PROVE (JobInv /\ OnePlace)'
  BY <1>24 DEF ReadSize, SizeReadsZero, Goto, callerVars, workerVars, history
<1>25. ASSUME NEW u \in Workers, ReadActive(u)
       PROVE  (JobInv /\ OnePlace)'
  BY <1>25 DEF ReadActive, Goto, callerVars, workerVars, history
<1>26. CASE UNCHANGED vars
  BY <1>26 DEF vars, callerVars, workerVars, history
<1> QED
  BY <1>1, <1>2, <1>3, <1>4, <1>5, <1>6, <1>7, <1>8, <1>9, <1>10, <1>11,
     <1>12, <1>13, <1>14, <1>15, <1>16, <1>17, <1>18, <1>19, <1>20, <1>21,
     <1>22, <1>23, <1>24, <1>25, <1>26
     DEF Next, CallerStarts, CallerStep, WorkerStep, Terminated

(* No step loses a wake-up.  A worker starts to wait only while it holds   *)
(* the mutex and the queue is empty; a job is added only under the mutex,  *)
(* and the signal that follows finds that worker in its wait.              *)
LEMMA WakeupStep == IInv /\ [Next]_vars => NoLostWakeup'
<1> SUFFICES ASSUME IInv, [Next]_vars PROVE NoLostWakeup'
  OBVIOUS
<1> USE PoolAssumption DEF IInv, TypeOK, CallerInv, ThreadInv, NoLostWakeup,
      Asleep, Waiting, Workers, WorkerLabels, CallerLabels, Caller, Free
<1>1. CASE CreateFails
  BY <1>1 DEF CreateFails, callerVars, workerVars, history
<1>2. CASE Create
  BY <1>2 DEF Create, callerVars, workerVars, history
<1>3. CASE Spawn
  BY <1>3 DEF Spawn, callerVars, workerVars, history
<1>4. CASE SpawnFails
  BY <1>4 DEF SpawnFails, callerVars, workerVars, history
<1>5. CASE FailedStart
  BY <1>5 DEF FailedStart, callerVars, workerVars, history
<1>6. CASE AddLock \/ AddUnlock
  BY <1>6 DEF AddLock, AddUnlock, callerVars, workerVars, history
<1>7. CASE AddEnqueue
  BY <1>7 DEF AddEnqueue, HasRoom, callerVars, workerVars, history
<1>8. CASE AddDrop
  BY <1>8 DEF AddDrop, HasRoom, callerVars, workerVars, history
<1>9. CASE AddSignal
  <2>1. CASE Waiting = {}
    <3>1. wpc' = wpc /\ wpc[1] \notin Asleep /\ 1 \in Workers
      BY <1>9, <2>1 DEF AddSignal
    <3> QED
      BY <1>9, <3>1 DEF AddSignal, history
  <2>2. CASE Waiting # {}
    <3>1. PICK w \in Waiting : wpc' = [wpc EXCEPT ![w] = "woken"]
      BY <1>9, <2>2 DEF AddSignal, AfterSignal
    <3>2. w \in Workers /\ wpc'[w] \notin Asleep
      BY <3>1
    <3> QED
      BY <1>9, <3>2 DEF AddSignal, history
  <2> QED
    BY <2>1, <2>2
<1>10. CASE Shutdown \/ Destroy \/ ShutLock \/ Deactivate \/ ShutUnlock
  BY <1>10
     DEF Shutdown, Destroy, ShutLock, Deactivate, ShutUnlock, callerVars,
         workerVars, history
<1>11. CASE Broadcast
  BY <1>11 DEF Broadcast, callerVars, workerVars, history
<1>12. CASE Join
  BY <1>12 DEF Join, JoinLoopEnds, callerVars, workerVars, history
<1>13. CASE JoinedAll
  BY <1>13 DEF JoinedAll, JoinLoopEnds, callerVars, workerVars, history
<1>14. CASE Teardown
  BY <1>14 DEF Teardown, callerVars, workerVars, history
<1>15. ASSUME NEW j \in Jobs, AddJob(j) PROVE NoLostWakeup'
  BY <1>15 DEF AddJob, callerVars, workerVars, history
<1>16. ASSUME NEW u \in Workers, Lock(u) PROVE NoLostWakeup'
  BY <1>16 DEF Lock, Goto, callerVars, workerVars, history
<1>17. ASSUME NEW u \in Workers, Wait(u) PROVE NoLostWakeup'
  BY <1>17 DEF Wait, MustWait, Goto, callerVars, workerVars, history
<1>18. ASSUME NEW u \in Workers, SpuriousWakeup(u) PROVE NoLostWakeup'
  BY <1>18 DEF SpuriousWakeup, Goto, callerVars, workerVars, history
<1>19. ASSUME NEW u \in Workers, Relock(u) PROVE NoLostWakeup'
  BY <1>19 DEF Relock, Goto, callerVars, workerVars, history
<1>20. ASSUME NEW u \in Workers, Dequeue(u) PROVE NoLostWakeup'
  BY <1>20
     DEF Dequeue, MustWait, Taken, Remaining, Goto, callerVars, workerVars,
         history
<1>21. ASSUME NEW u \in Workers, Unlock(u) PROVE NoLostWakeup'
  BY <1>21 DEF Unlock, Goto, callerVars, workerVars, history
<1>22. ASSUME NEW u \in Workers, Run(u) PROVE NoLostWakeup'
  BY <1>22 DEF Run, Goto, callerVars, workerVars, history
<1>23. ASSUME NEW u \in Workers, Delete(u) PROVE NoLostWakeup'
  BY <1>23 DEF Delete, Goto, callerVars, workerVars, history
<1>24. ASSUME NEW u \in Workers, ReadSize(u) PROVE NoLostWakeup'
  BY <1>24 DEF ReadSize, SizeReadsZero, Goto, callerVars, workerVars, history
<1>25. ASSUME NEW u \in Workers, ReadActive(u) PROVE NoLostWakeup'
  BY <1>25 DEF ReadActive, Goto, callerVars, workerVars, history
<1>26. CASE UNCHANGED vars
  BY <1>26 DEF vars, callerVars, workerVars, history
<1> QED
  BY <1>1, <1>2, <1>3, <1>4, <1>5, <1>6, <1>7, <1>8, <1>9, <1>10, <1>11,
     <1>12, <1>13, <1>14, <1>15, <1>16, <1>17, <1>18, <1>19, <1>20, <1>21,
     <1>22, <1>23, <1>24, <1>25, <1>26
     DEF Next, CallerStarts, CallerStep, WorkerStep, Terminated

(* The pool is freed once, when no worker is left in start_thread.         *)
LEMMA FreedStep == IInv /\ [Next]_vars => FreedInv'
<1> SUFFICES ASSUME IInv, [Next]_vars PROVE FreedInv'
  OBVIOUS
<1> USE PoolAssumption DEF IInv, TypeOK, CallerInv, ThreadInv, FreedInv,
      NoUseAfterFree, Workers, WorkerLabels, CallerLabels, Caller, Free
<1>1. CASE CreateFails \/ Create \/ Spawn \/ SpawnFails
  BY <1>1
     DEF CreateFails, Create, Spawn, SpawnFails, callerVars, workerVars,
         history
<1>2. CASE FailedStart
  BY <1>2 DEF FailedStart, callerVars, workerVars, history
<1>3. CASE AddLock \/ AddEnqueue \/ AddDrop \/ AddUnlock \/ AddSignal
  BY <1>3
     DEF AddLock, AddEnqueue, HasRoom, AddDrop, AddUnlock, AddSignal,
         AfterSignal, Waiting, callerVars, workerVars, history
<1>4. CASE Shutdown \/ Destroy \/ ShutLock \/ Deactivate \/ ShutUnlock
  BY <1>4
     DEF Shutdown, Destroy, ShutLock, Deactivate, ShutUnlock, callerVars,
         workerVars, history
<1>5. CASE Broadcast \/ Join \/ JoinedAll \/ Teardown
  BY <1>5
     DEF Broadcast, Waiting, Join, JoinLoopEnds, JoinedAll, Teardown,
         callerVars, workerVars, history
<1>6. ASSUME NEW j \in Jobs, AddJob(j) PROVE FreedInv'
  BY <1>6 DEF AddJob, callerVars, workerVars, history
<1>7. ASSUME NEW u \in Workers, Lock(u) \/ Wait(u) \/ SpuriousWakeup(u) \/
                                Relock(u)
      PROVE  FreedInv'
  BY <1>7
     DEF Lock, Wait, MustWait, SpuriousWakeup, Relock, Goto, callerVars,
         workerVars, history
<1>8. ASSUME NEW u \in Workers, Dequeue(u) \/ Unlock(u) \/ Run(u) \/
                                Delete(u)
      PROVE  FreedInv'
  BY <1>8
     DEF Dequeue, MustWait, Taken, Remaining, Unlock, Run, Delete, Goto,
         callerVars, workerVars, history
<1>9. ASSUME NEW u \in Workers, ReadSize(u) \/ ReadActive(u) PROVE FreedInv'
  BY <1>9
     DEF ReadSize, SizeReadsZero, ReadActive, Goto, callerVars, workerVars,
         history
<1>10. CASE UNCHANGED vars
  BY <1>10 DEF vars, callerVars, workerVars, history
<1> QED
  BY <1>1, <1>2, <1>3, <1>4, <1>5, <1>6, <1>7, <1>8, <1>9, <1>10
     DEF Next, CallerStarts, CallerStep, WorkerStep, Terminated

(* The invariant holds, of every thread count, queue length and job set.   *)
LEMMA InitInv == Init => IInv
<1> SUFFICES ASSUME Init PROVE IInv
  OBVIOUS
<1> USE PoolAssumption DEF Init, Workers, Caller, Free
<1>1. TypeOK
  <2>1. active \in BOOLEAN /\ destroying \in BOOLEAN
    BY Zenon
  <2> QED
    BY <2>1 DEF TypeOK, WorkerLabels, CallerLabels
<1>2. ~active /\ ~destroying
  BY Zenon
<1>3. Queued = {} /\ Held = {} /\ IsInjective(jobs)
  BY DEF Queued, Held, Range, IsInjective
<1>4. MutexInv /\ CallerInv /\ ThreadInv /\ NoLostWakeup /\ FreedInv
  BY <1>2 DEF MutexInv, CallerInv, ThreadInv, NoLostWakeup,
              FreedInv, NoUseAfterFree
<1>5. JobInv /\ OnePlace
  BY <1>3 DEF JobInv, OnePlace, Placed
<1> QED
  BY <1>1, <1>4, <1>5 DEF IInv

LEMMA SpecInv == Spec => []IInv
<1>1. IInv /\ [Next]_vars => IInv'
  BY TypeStep, MutexStep, CallerStepInv, ThreadStep, JobStep, WakeupStep,
     FreedStep
     DEF IInv
<1> QED
  BY <1>1, InitInv, PTL DEF Spec

(* Every variable keeps its type, and the job pool never holds more than   *)
(* MAX_JOBS jobs.                                                          *)
THEOREM PoolTypeCorrect == Spec => []TypeOK
<1>1. IInv => TypeOK
  BY DEF IInv
<1> QED
  BY <1>1, SpecInv, PTL

(* No job is run twice, held by two workers or run after it was refused or *)
(* thrown away; none that queue_enqueue took vanishes, and none that       *)
(* add_job returned ERROR for is in the queue, held or run.                *)
THEOREM PoolJobAccounting == Spec => []JobAccounting
<1>1. IInv => JobAccounting
  <2> SUFFICES ASSUME IInv
               PROVE  Queued \cup Held \cup ran \cup lost = Submitted \ dropped
    BY DEF IInv, JobAccounting
  <2>1. Placed = Submitted
    <3>1. Placed \subseteq Jobs
      BY DEF IInv, TypeOK, Placed, Queued, Held, Range
    <3>2. \A j \in Jobs : j \in Placed <=> j \in Submitted
      BY DEF IInv, JobInv, Submitted
    <3> QED
      BY <3>1, <3>2 DEF Submitted
  <2>2. (Queued \cup Held \cup ran \cup lost) \cap dropped = {}
    BY DEF IInv, OnePlace
  <2> QED
    BY <2>1, <2>2 DEF Placed
<1> QED
  BY <1>1, SpecInv, PTL

(* While the pool is active a queued job has an awake worker or a signal   *)
(* still to come; once threadpool_destroy joins, no worker waits.          *)
THEOREM PoolNoLostWakeup == Spec => []NoLostWakeup
<1>1. IInv => NoLostWakeup
  BY DEF IInv
<1> QED
  BY <1>1, SpecInv, PTL
(* The workers never outlive the pool's memory, provided pthread_create    *)
(* can fail for the first thread only: failed_start joins nobody.          *)
THEOREM PoolNoUseAfterFree ==
  ASSUME MayFail \subseteq {1} PROVE Spec => []NoUseAfterFree
<1>1. IInv => NoUseAfterFree
  BY DEF IInv, FreedInv
<1> QED
  BY <1>1, SpecInv, PTL
-----------------------------------------------------------------------------
(* The phase of the service by the pool's memory and its active flag.      *)
LEMMA PhaseIs ==
  /\ pool = "null" => Phase = "new"
  /\ pool = "freed" => Phase = "gone"
  /\ pool = "live" /\ active => Phase = "open"
  /\ pool = "live" /\ ~active => Phase = "closed"
  BY DEF Phase

LEMMA PhaseIsNext ==
  /\ pool' = "null" => Phase' = "new"
  /\ pool' = "freed" => Phase' = "gone"
  /\ pool' = "live" /\ active' => Phase' = "open"
  /\ pool' = "live" /\ ~active' => Phase' = "closed"
  BY DEF Phase

(* Each step is a step of JobService or changes nothing it speaks of.      *)
LEMMA ServiceStep ==
  IInv /\ IInv' /\ [Next]_vars => [Service!Next]_(Service!vars)
<1> SUFFICES ASSUME IInv, IInv', [Next]_vars
             PROVE  [Service!Next]_(Service!vars)
  OBVIOUS
<1> USE PoolAssumption, PhaseIs, PhaseIsNext DEF IInv, TypeOK, CallerInv,
     Service!vars, Workers,
      WorkerLabels, CallerLabels, Caller, Free
<1>1. CASE CreateFails \/ Spawn
  BY <1>1 DEF CreateFails, Spawn, callerVars, workerVars, history, Held
<1>2. CASE Create
  <2>1. Service!Open
    BY <1>2 DEF Create, Service!Open, workerVars, history, Held
  <2> QED
    BY <2>1 DEF Service!Next
<1>3. CASE SpawnFails
  <2>1. Service!Close
    BY <1>3 DEF SpawnFails, Service!Close, workerVars, history, Held
  <2> QED
    BY <2>1 DEF Service!Next
<1>4. CASE FailedStart
  <2>1. Service!Leave
    BY <1>4 DEF FailedStart, Service!Leave, workerVars, history, Held
  <2> QED
    BY <2>1 DEF Service!Next
<1>5. CASE AddLock \/ AddDrop \/ AddUnlock \/ AddSignal
  BY <1>5
     DEF AddLock, AddDrop, HasRoom, AddUnlock, AddSignal, AfterSignal,
         Waiting, callerVars, workerVars, history, Held
<1>6. CASE AddEnqueue
  <2>1. carg \notin Range(jobs) \cup Range(hand) \cup (ran \ Held)
    BY <1>6 DEF AddEnqueue, JobInv, Placed, Queued, Held
  <2>2. /\ pool = "live" /\ active /\ UNCHANGED <<pool, active, hand, ran>>
        /\ jobs' = Append(jobs, carg)
    BY <1>6 DEF AddEnqueue, workerVars, history, Held
  <2>3. Phase = "open" /\ Phase' = "open" /\ Held' = Held
    BY <2>2 DEF Held
  <2>4. Service!Submit(carg)
    BY <2>1, <2>2, <2>3 DEF Service!Submit, Service!Range, Range
  <2> QED
    BY <1>6, <2>4 DEF AddEnqueue, Service!Next
<1>7. CASE Shutdown \/ Destroy \/ ShutLock \/ ShutUnlock
  BY <1>7
     DEF Shutdown, Destroy, ShutLock, ShutUnlock, callerVars, workerVars,
         history, Held
<1>8. CASE Deactivate
  <2>1. CASE active
    <3>1. Service!Close
      BY <1>8, <2>1 DEF Deactivate, Service!Close, workerVars, history, Held
    <3> QED
      BY <3>1 DEF Service!Next
  <2>2. CASE ~active
    BY <1>8, <2>2 DEF Deactivate, workerVars, history, Held
  <2> QED
    BY <2>1, <2>2
<1>9. CASE Broadcast \/ Join \/ JoinedAll
  BY <1>9
     DEF Broadcast, Waiting, Join, JoinLoopEnds, JoinedAll, callerVars,
         workerVars, history, Held
<1>10. CASE Teardown
  <2>1. \A w \in Workers : hand[w] = None
    BY <1>10 DEF Teardown, ThreadInv, JobInv
  <2>2. Service!Leave
    BY <1>10, <2>1 DEF Teardown, Service!Leave, workerVars, Held
  <2> QED
    BY <2>2 DEF Service!Next
<1>11. ASSUME NEW j \in Jobs, AddJob(j) PROVE [Service!Next]_(Service!vars)
  BY <1>11 DEF AddJob, callerVars, workerVars, history, Held
<1>12. ASSUME NEW u \in Workers, Lock(u) \/ Wait(u) \/ SpuriousWakeup(u) \/
                                 Relock(u)
       PROVE  [Service!Next]_(Service!vars)
  BY <1>12
     DEF Lock, Wait, MustWait, SpuriousWakeup, Relock, Goto, callerVars,
         workerVars, history, Held
<1>13. ASSUME NEW u \in Workers, Unlock(u)
       PROVE  [Service!Next]_(Service!vars)
  BY <1>13 DEF Unlock, Goto, callerVars, workerVars, history, Held
<1>14. ASSUME NEW u \in Workers, Dequeue(u)
       PROVE  [Service!Next]_(Service!vars)
  <2>1. CASE jobs = <<>>
    BY <1>14, <2>1 DEF Dequeue, callerVars, history, Held
  <2>2. CASE jobs # <<>>
    <3>1. /\ jobs' = Tail(jobs) /\ ran' = ran
          /\ hand' = [hand EXCEPT ![u] = Head(jobs)]
          /\ hand[u] = None /\ pool = "live" /\ pool' = pool
          /\ active' = active
      BY <1>14, <2>2 DEF Dequeue, Goto, Taken, Remaining, JobInv, history, Held
    <3>2. Head(jobs) \in Jobs /\ Head(jobs) \in Queued
      BY <2>2, TailElements DEF Queued
    <3>3. Held' = Held \cup {Head(jobs)}
      BY <3>1, <3>2, TakeHeld
    <3>4. ran' \ Held' = ran \ Held
      BY <3>1, <3>2, <3>3 DEF OnePlace
    <3>5. Service!Start(u)
      BY <2>2, <3>1, <3>4 DEF Service!Start
    <3> QED
      BY <3>5 DEF Service!Next
  <2> QED
    BY <2>1, <2>2
<1>15. ASSUME NEW u \in Workers, Run(u) PROVE [Service!Next]_(Service!vars)
  <2>1. /\ hand[u] # None /\ ran' = ran \cup {hand[u]}
        /\ pool = "live" /\ UNCHANGED <<pool, active, jobs>>
        /\ hand[u] \in Held
    BY <1>15 DEF Run, Goto, JobInv, Held, Range
  <2>2. CASE hand[u] \in NoDel
    <3>1. hand' = [hand EXCEPT ![u] = None] /\ Held' = Held \ {hand[u]}
      BY <1>15, <2>1, <2>2, DropHeld DEF Run
    <3>2. Service!Finish(u)
      BY <2>1, <3>1 DEF Service!Finish
    <3> QED
      BY <3>2 DEF Service!Next
  <2>3. CASE hand[u] \notin NoDel
    <3>1. hand' = hand /\ Held' = Held
      BY <1>15, <2>3 DEF Run, Held
    <3> QED
      BY <2>1, <3>1
  <2> QED
    BY <2>2, <2>3
<1>16. ASSUME NEW u \in Workers, Delete(u)
       PROVE  [Service!Next]_(Service!vars)
  <2>1. /\ hand[u] # None /\ hand[u] \in ran /\ ran' = ran
        /\ hand' = [hand EXCEPT ![u] = None]
        /\ pool = "live" /\ UNCHANGED <<pool, active, jobs>>
    BY <1>16 DEF Delete, Goto, JobInv, OnePlace
  <2>2. Held' = Held \ {hand[u]}
    BY <2>1, DropHeld
  <2>3. Service!Finish(u)
    BY <2>1, <2>2 DEF Service!Finish
  <2> QED
    BY <2>3 DEF Service!Next
<1>17. ASSUME NEW u \in Workers, ReadSize(u) \/ ReadActive(u)
       PROVE  [Service!Next]_(Service!vars)
  BY <1>17
     DEF ReadSize, SizeReadsZero, ReadActive, Goto, callerVars, workerVars,
         history, Held
<1>18. CASE UNCHANGED vars
  BY <1>18 DEF vars, callerVars, workerVars, history, Held
<1> QED
  BY <1>1, <1>2, <1>3, <1>4, <1>5, <1>6, <1>7, <1>8, <1>9, <1>10, <1>11,
     <1>12, <1>13, <1>14, <1>15, <1>16, <1>17, <1>18
     DEF Next, CallerStarts, CallerStep, WorkerStep, Terminated

LEMMA ServiceInit == Init => Service!Init
  BY PhaseIs DEF Init, Service!Init

(* The threads, the mutex and the condition variable implement the job     *)
(* service of threadpool.h: first in, first started, each job at most      *)
(* once, none after the shutdown, gone only when no job is worked on.      *)
THEOREM PoolImplementsJobService == Spec => ImplementsJobService
<1>1. IInv /\ IInv' /\ [Next]_vars => [Service!Next]_(Service!vars)
  BY ServiceStep
<1>2. Init => Service!Init
  BY ServiceInit
<1> QED
  BY <1>1, <1>2, SpecInv, PTL DEF Spec, ImplementsJobService, Service!Spec
=============================================================================
