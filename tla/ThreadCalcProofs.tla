-------------------------- MODULE ThreadCalcProofs --------------------------
(***************************************************************************)
(* Proofs about ThreadCalc for any number of files, workers and            *)
(* descriptors: a worker never uses or closes a file that is not its own,  *)
(* no solved file is left open by accident, and a solved file holds its    *)
(* own items, in their order and without a gap that no write left.         *)
(***************************************************************************)
EXTENDS ThreadCalc, CalcProofs, JobLemmas

(* Every job is in one place: pending, with one worker, or finished.       *)
PoolInv == /\ pending \in Seq(Files)
           /\ busy \in [Workers -> Files \cup {None}]
           /\ finished \subseteq Files
           /\ Apart(pending, busy, finished, None)

(* Files that main has submitted, or dropped.                              *)
Submitted == Jobs \cup finished \cup lost

(* The entry that main works on, and its descriptors, are its own yet.     *)
EntryInv ==
  /\ mpc \in MainLabels
  /\ unread \subseteq Files
  /\ entry \in Files \cup {None}
  /\ file_d \in Fds \cup {ERROR}
  /\ out_file_des \in Fds \cup {ERROR}
  /\ lost \subseteq Files
  /\ unread \cap Submitted = {}
  /\ mpc \in {"open", "header", "file", "addJob"} =>
       entry \in Files /\ entry \notin unread \cup Submitted
  /\ mpc = "header" => file_d = ERROR \/ fds[file_d] = <<entry, "in">>
  /\ mpc \in {"file", "addJob"} =>
       /\ content[entry].valid
       /\ file_d \in Fds /\ fds[file_d] = <<entry, "in">>
  /\ mpc = "addJob" =>
       out_file_des \in Fds /\ fds[out_file_des] = <<entry, "out">>

(* A job's descriptors mean its files, from its submission to its close.   *)
FilesInv ==
  /\ args \in [Files -> Args \cup {None}]
  /\ fds \in [Fds -> Ends \cup {None}]
  /\ \A f \in Jobs : args[f] \in Args /\ fds[args[f].in] = <<f, "in">>
  /\ \A f \in Range(pending) : fds[args[f].out] = <<f, "out">>
  /\ \A f \in Files : \A d, e \in Fds :
       fds[d] = <<f, "out">> /\ fds[e] = <<f, "out">> => d = e

(* Where a worker is with its job.                                         *)
InPlace(w) ==
  /\ wpc[w] # "start" => busy[w] # None
  /\ wpc[w] \in {"loop", "write", "close"} => local[w] = args[busy[w]]
  /\ busy[w] # None =>
       IF wpc[w] = "return"
       THEN \A d \in Fds : fds[d] # <<busy[w], "out">>
       ELSE fds[args[busy[w]].out] = <<busy[w], "out">>

WorkerInv ==
  /\ wpc \in [Workers -> WorkerLabels]
  /\ local \in [Workers -> Args \cup {None}]
  /\ \A w \in Workers : InPlace(w)

IInv == /\ content \in [Files -> Contents]
        /\ PoolInv /\ EntryInv /\ FilesInv /\ WorkerInv
        /\ SolvedFilesAreClosed
-----------------------------------------------------------------------------
(* What the calls of the pool do to the jobs.                              *)
LEMMA JobsInHand == Jobs = InHand(pending, busy, None)
BY DEF Jobs, InHand

LEMMA PoolStays ==
  ASSUME PoolInv, UNCHANGED <<pending, busy, finished>>
  PROVE  PoolInv' /\ Jobs' = Jobs /\ Range(pending') = Range(pending)
BY DEF PoolInv, Jobs, Apart

LEMMA PoolSubmits ==
  ASSUME PoolInv, NEW f \in Files, Pool!Submit(f)
  PROVE  /\ PoolInv'
         /\ Jobs' = Jobs \cup {f}
         /\ f \notin Jobs \cup finished
         /\ Range(pending') = Range(pending) \cup {f}
         /\ UNCHANGED <<busy, finished>>
<1>1. /\ pending' = Append(pending, f) /\ busy' = busy /\ finished' = finished
      /\ f \notin Range(pending) \cup Range(busy) \cup finished
  BY DEF Pool!Submit, Pool!Range, Range
<1>2. /\ pending' \in Seq(Files)
      /\ Apart(pending', busy, finished, None)
      /\ InHand(pending', busy, None) = InHand(pending, busy, None) \cup {f}
  <2>1. None \notin Files
    BY FilesAssumption
  <2>2. /\ pending \in Seq(Files) /\ busy \in [Workers -> Files \cup {None}]
        /\ Apart(pending, busy, finished, None)
    BY DEF PoolInv
  <2> QED
    <3>1. /\ Append(pending, f) \in Seq(Files)
          /\ Apart(Append(pending, f), busy, finished, None)
          /\ InHand(Append(pending, f), busy, None)
               = InHand(pending, busy, None) \cup {f}
      BY <1>1, <2>1, <2>2, SubmitKeepsApart
    <3> QED
      BY <1>1, <3>1
<1>3. Range(pending') = Range(pending) \cup {f}
  BY <1>1, AppendElements DEF PoolInv
<1>4. PoolInv'
  BY <1>1, <1>2 DEF PoolInv
<1> QED
  BY <1>1, <1>2, <1>3, <1>4 DEF Jobs, InHand

LEMMA PoolStarts ==
  ASSUME PoolInv, NEW w \in Workers, Pool!Start(w)
  PROVE  /\ PoolInv'
         /\ Jobs' = Jobs
         /\ busy[w] = None
         /\ Head(pending) \in Files
         /\ busy' = [busy EXCEPT ![w] = Head(pending)]
         /\ Range(pending) = {Head(pending)} \cup Range(pending')
         /\ UNCHANGED finished
<1>1. /\ busy[w] = None /\ pending # <<>> /\ finished' = finished
      /\ busy' = [busy EXCEPT ![w] = Head(pending)] /\ pending' = Tail(pending)
  BY DEF Pool!Start
<1>2. /\ pending' \in Seq(Files) /\ Head(pending) \in Files
      /\ busy' \in [Workers -> Files \cup {None}]
      /\ Apart(pending', busy', finished, None)
      /\ InHand(pending', busy', None) = InHand(pending, busy, None)
  <2>1. None \notin Files
    BY FilesAssumption
  <2>2. /\ pending \in Seq(Files) /\ busy \in [Workers -> Files \cup {None}]
        /\ Apart(pending, busy, finished, None)
    BY DEF PoolInv
  <2>3. /\ Tail(pending) \in Seq(Files) /\ Head(pending) \in Files
        /\ Range(pending) = {Head(pending)} \cup Range(Tail(pending))
        /\ Head(pending) \notin Range(Tail(pending))
        /\ IsInjective(Tail(pending))
    BY <1>1, <2>2, HeadTailProperties, TailElements DEF Apart
  <2> DEFINE j == Head(pending)
             q == Tail(pending)
             b2 == [busy EXCEPT ![w] = j]
  <2> HIDE DEF j, q
  <2>4. /\ b2 \in [Workers -> Files \cup {None}]
        /\ Apart(q, b2, finished, None)
        /\ InHand(q, b2, None) = InHand(pending, busy, None)
    <3>1. /\ q \in Seq(Files) /\ j \in Files
          /\ Range(pending) = {j} \cup Range(q)
          /\ j \notin Range(q) /\ IsInjective(q)
      BY <2>3 DEF j, q
    <3>2. busy[w] = None
      BY <1>1
    <3>3. Apart(q, b2, finished, None)
      BY <2>1, <2>2, <3>1, <3>2, StartKeepsApart
    <3>4. InHand(q, b2, None) = InHand(pending, busy, None)
      <4>1. ASSUME NEW x
            PROVE  x \in InHand(q, b2, None) <=> x \in InHand(pending, busy, None)
        BY <2>1, <2>2, <3>1, <3>2, StartKeepsApart
      <4>2. InHand(q, b2, None) \subseteq InHand(pending, busy, None)
        BY <4>1
      <4> QED
        BY <4>1, <4>2 DEF InHand
    <3>5. b2 \in [Workers -> Files \cup {None}]
      BY <2>2, <3>1
    <3> QED
      BY <3>3, <3>4, <3>5
  <2> QED
    BY <1>1, <2>3, <2>4 DEF j, q
<1>3. Range(pending) = {Head(pending)} \cup Range(pending')
  BY <1>1, TailElements DEF PoolInv
<1>4. PoolInv'
  BY <1>1, <1>2 DEF PoolInv
<1> QED
  BY <1>1, <1>2, <1>3, <1>4 DEF Jobs, InHand

LEMMA PoolFinishes ==
  ASSUME PoolInv, NEW w \in Workers, Pool!Finish(w)
  PROVE  /\ PoolInv'
         /\ busy[w] \in Files /\ busy[w] \in Jobs
         /\ Jobs' = Jobs \ {busy[w]}
         /\ busy' = [busy EXCEPT ![w] = None]
         /\ finished' = finished \cup {busy[w]}
         /\ UNCHANGED pending
<1>1. /\ busy[w] # None /\ pending' = pending
      /\ busy' = [busy EXCEPT ![w] = None]
      /\ finished' = finished \cup {busy[w]}
  BY DEF Pool!Finish
<1>2. /\ busy[w] \in Files /\ busy' \in [Workers -> Files \cup {None}]
      /\ Apart(pending, busy', finished', None)
      /\ InHand(pending, busy', None) = InHand(pending, busy, None) \ {busy[w]}
      /\ busy[w] \in InHand(pending, busy, None)
  <2>1. None \notin Files
    BY FilesAssumption
  <2>2. /\ pending \in Seq(Files) /\ busy \in [Workers -> Files \cup {None}]
        /\ Apart(pending, busy, finished, None)
    BY DEF PoolInv
  <2> QED
    <3> DEFINE b2 == [busy EXCEPT ![w] = None]
    <3>1. /\ busy[w] \in Files /\ b2 \in [Workers -> Files \cup {None}]
          /\ Apart(pending, b2, finished \cup {busy[w]}, None)
          /\ InHand(pending, b2, None) = InHand(pending, busy, None) \ {busy[w]}
          /\ busy[w] \in InHand(pending, busy, None)
      BY <1>1, <2>1, <2>2, FinishKeepsApart
    <3> QED
      BY <1>1, <3>1
<1>3. PoolInv'
  BY <1>1, <1>2 DEF PoolInv
<1> QED
  BY <1>1, <1>2, <1>3 DEF Jobs, InHand

LEMMA PoolLeaves ==
  ASSUME PoolInv, Pool!Leave
  PROVE  /\ PoolInv'
         /\ Jobs' = {}
         /\ \A w \in Workers : busy[w] = None
         /\ Range(pending') = {}
         /\ UNCHANGED <<busy, finished>>
<1>1. /\ \A w \in Workers : busy[w] = None
      /\ pending' = <<>> /\ busy' = busy /\ finished' = finished
  BY DEF Pool!Leave
<1>2. Apart(<<>>, busy, finished, None) /\ InHand(<<>>, busy, None) = {}
  BY <1>1, NothingInHand DEF PoolInv
<1>3. Range(<<>>) = {} /\ <<>> \in Seq(Files)
  BY DEF Range
<1>4. PoolInv'
  BY <1>1, <1>2, <1>3 DEF PoolInv
<1> QED
  BY <1>1, <1>2, <1>3, <1>4 DEF Jobs, InHand

LEMMA InHandAreFiles ==
  ASSUME PoolInv
  PROVE  /\ Range(pending) \subseteq Jobs
         /\ \A w \in Workers : busy[w] # None => busy[w] \in Jobs
         /\ Jobs \subseteq Files
<1>1. Range(pending) \subseteq Files
  BY RangeOfSeq DEF PoolInv
<1>2. DOMAIN busy = Workers /\ Range(busy) \subseteq Files \cup {None}
  BY DEF PoolInv, Range
<1> QED
  BY <1>1, <1>2 DEF Jobs, Range

LEMMA InHandIsSomewhere ==
  ASSUME PoolInv, NEW f \in Jobs, f \notin Range(pending)
  PROVE  \E w \in Workers : busy[w] = f
BY DEF PoolInv, Jobs, Range

LEMMA InOnePlace ==
  ASSUME PoolInv, NEW w \in Workers, busy[w] # None
  PROVE  /\ busy[w] \notin Range(pending)
         /\ \A v \in Workers : busy[v] = busy[w] => v = w
BY DEF PoolInv, Apart

(* open takes a descriptor that means nothing.                             *)
LEMMA LowestIsFree ==
  ASSUME FreeFds # {}
  PROVE  Min(FreeFds) \in Fds /\ fds[Min(FreeFds)] = None
<1>1. FreeFds \subseteq Fds /\ Fds \subseteq Nat
  BY FilesAssumption DEF FreeFds, Fds
<1>2. Min(FreeFds) \in FreeFds
  BY <1>1, MinIsSmallest
<1> QED
  BY <1>2 DEF FreeFds

(* A number below the modulus is its own remainder.                        *)
LEMMA SmallMod ==
  ASSUME NEW m \in Nat, NEW k \in Nat, k < m
  PROVE  k % m = k
OBVIOUS

LEMMA NarrowFits ==
  ASSUME NEW n \in Int
  PROVE  Narrow(n) \in -(IntMax + 1) .. IntMax
<1> DEFINE m == 2 * (IntMax + 1)
           k == n + IntMax + 1
<1>1. m \in Nat /\ m > 0 /\ k \in Int /\ IntMax \in Nat
  BY FilesAssumption
<1>2. k % m \in 0 .. m - 1
  <2> HIDE DEF m, k
  <2> QED
    BY <1>1
<1> QED
  BY <1>1, <1>2 DEF Narrow

(* A number that an int holds is not changed.                              *)
LEMMA NarrowKeeps ==
  ASSUME NEW n \in Nat, n <= IntMax
  PROVE  Narrow(n) = n
<1> DEFINE m == 2 * (IntMax + 1)
           k == n + IntMax + 1
<1>1. m \in Nat /\ k \in Nat /\ k < m /\ k - (IntMax + 1) = n
  BY FilesAssumption
<1>2. k % m = k
  <2> HIDE DEF m, k
  <2> QED
    BY <1>1, SmallMod
<1> QED
  BY <1>1, <1>2 DEF Narrow

LEMMA NoneIsNoFile ==
  /\ None \notin Files
  /\ ERROR \notin Fds
  /\ \A f \in Files : <<f, "in">> # None /\ <<f, "out">> # None
  /\ \A f, g \in Files : /\ <<f, "in">> # <<g, "out">>
                         /\ <<f, "in">> = <<g, "in">> => f = g
                         /\ <<f, "out">> = <<g, "out">> => f = g
BY FilesAssumption DEF Ends
-----------------------------------------------------------------------------
LEMMA InitIInv == Init => IInv
<1> SUFFICES ASSUME Init PROVE IInv
  OBVIOUS
<1> USE FilesAssumption DEF Init
<1>1. pending = <<>> /\ busy = [w \in Workers |-> None] /\ finished = {}
  BY DEF Pool!Init
<1>2. Range(<<>>) = {} /\ <<>> \in Seq(Files)
  BY DEF Range
<1>3. Apart(pending, busy, finished, None) /\ Jobs = {}
  BY <1>1, NothingInHand DEF Jobs, InHand
<1>4. PoolInv
  BY <1>1, <1>2, <1>3 DEF PoolInv
<1>5. EntryInv
  BY <1>1, <1>3 DEF EntryInv, Submitted, MainLabels
<1>6. FilesInv
  BY <1>1, <1>2, <1>3, NoneIsNoFile DEF FilesInv
<1>7. WorkerInv
  BY <1>1 DEF WorkerInv, InPlace, WorkerLabels
<1>8. SolvedFilesAreClosed
  BY NoneIsNoFile DEF SolvedFilesAreClosed, Target
<1> QED
  BY <1>4, <1>5, <1>6, <1>7, <1>8 DEF IInv

(* A step of main that leaves the jobs and the descriptors alone.          *)
LEMMA MainGoesOn ==
  ASSUME IInv, mpc # "addJob",
         UNCHANGED <<pending, busy, finished, lost, args, content, fds, wpc,
                     local>>,
         Submitted' = Submitted => EntryInv'
  PROVE  IInv'
<1> USE DEF IInv
<1>1. PoolInv' /\ Jobs' = Jobs /\ Range(pending') = Range(pending)
  BY PoolStays
<1>2. EntryInv'
  BY <1>1 DEF Submitted
<1>3. FilesInv'
  BY <1>1 DEF FilesInv
<1>4. WorkerInv'
  BY DEF WorkerInv, InPlace
<1>5. SolvedFilesAreClosed'
  BY <1>1 DEF SolvedFilesAreClosed, Target
<1> QED
  BY <1>1, <1>2, <1>3, <1>4, <1>5

LEMMA MainIInv ==
  ASSUME IInv,
         \/ Create \/ CreateFails \/ NextEntry \/ LastEntry \/ CheckHeader
         \/ CreateFileFails \/ Stop \/ Shutdown
  PROVE  IInv'
<1> USE DEF IInv, EntryInv, MainLabels, mainVars, workerVars, poolVars
<1>1. CASE Create
  BY <1>1, MainGoesOn DEF Create, Pool!Open
<1>2. CASE CreateFails
  BY <1>2, MainGoesOn DEF CreateFails
<1>3. CASE NextEntry
  <2>1. PICK f \in unread :
          /\ unread' = unread \ {f}
          /\ IF f \in Hidden THEN UNCHANGED <<entry, mpc>>
                             ELSE entry' = f /\ mpc' = "open"
    BY <1>3 DEF NextEntry
  <2>2. ASSUME Submitted' = Submitted PROVE EntryInv'
    BY <1>3, <2>1, <2>2 DEF NextEntry
  <2> QED
    BY <1>3, <2>2, MainGoesOn DEF NextEntry
<1>4. CASE LastEntry
  BY <1>4, MainGoesOn DEF LastEntry
<1>5. CASE CheckHeader
  BY <1>5, MainGoesOn DEF CheckHeader, HeaderIsGood
<1>6. CASE CreateFileFails
  BY <1>6, MainGoesOn DEF CreateFileFails
<1>7. CASE Stop
  BY <1>7, MainGoesOn DEF Stop
<1>8. CASE Shutdown
  BY <1>8, MainGoesOn DEF Shutdown, Pool!Close
<1> QED
  BY <1>1, <1>2, <1>3, <1>4, <1>5, <1>6, <1>7, <1>8

LEMMA SignalIInv == IInv /\ (Signal \/ Quiet \/ UNCHANGED vars) => IInv'
<1> SUFFICES ASSUME IInv, UNCHANGED <<poolVars, mainVars, workerVars, content, fds>>
             PROVE  IInv'
  BY DEF Signal, Quiet, vars
<1> USE DEF IInv, poolVars, mainVars, workerVars
<1>1. PoolInv' /\ Jobs' = Jobs /\ Range(pending') = Range(pending)
  BY PoolStays
<1>2. EntryInv'
  BY <1>1 DEF EntryInv, Submitted
<1>3. FilesInv' /\ WorkerInv'
  BY <1>1 DEF FilesInv, WorkerInv, InPlace
<1>4. SolvedFilesAreClosed'
  BY <1>1 DEF SolvedFilesAreClosed, Target
<1> QED
  BY <1>1, <1>2, <1>3, <1>4

(* A descriptor that meant nothing now means a file that had none.         *)
LEMMA OpenInputIInv == IInv /\ OpenInput => IInv'
<1> SUFFICES ASSUME IInv, OpenInput PROVE IInv'
  OBVIOUS
<1> USE NoneIsNoFile DEF IInv, mainVars, workerVars, poolVars
<1>1. CASE file_d' = ERROR /\ UNCHANGED fds
  <2>1. ASSUME Submitted' = Submitted PROVE EntryInv'
    BY <1>1, <2>1 DEF OpenInput, EntryInv, MainLabels
  <2> QED
    BY <1>1, <2>1, MainGoesOn DEF OpenInput
<1>2. CASE FreeFds # {} /\ file_d' = Min(FreeFds)
           /\ fds' = [fds EXCEPT ![file_d'] = <<entry, "in">>]
  <2> DEFINE d == Min(FreeFds)
  <2>1. d \in Fds /\ fds[d] = None
    BY <1>2, LowestIsFree
  <2> HIDE DEF d
  <2>2. fds' = [fds EXCEPT ![d] = <<entry, "in">>] /\ file_d' = d
    BY <1>2 DEF d
  <2>3. entry \in Files /\ <<entry, "in">> \in Ends
    BY DEF OpenInput, EntryInv, Ends
  <2>4. /\ PoolInv' /\ Jobs' = Jobs /\ Range(pending') = Range(pending)
        /\ Submitted' = Submitted
    BY PoolStays DEF OpenInput, Submitted
  <2>5. EntryInv'
    BY <2>1, <2>2, <2>3, <2>4 DEF OpenInput, EntryInv, MainLabels, FilesInv
  <2>a. \A e \in Fds : e # d => fds'[e] = fds[e]
    BY <2>2 DEF FilesInv
  <2>b. fds'[d] = <<entry, "in">> /\ fds' \in [Fds -> Ends \cup {None}]
    BY <2>1, <2>2, <2>3 DEF FilesInv
  <2>c. \A f \in Jobs : args[f].in \in Fds /\ args[f].out \in Fds
    BY DEF FilesInv, Args
  <2>d. UNCHANGED <<args, wpc, local, busy>>
    BY DEF OpenInput
  <2>6. FilesInv'
    <3>1. \A f \in Jobs' : args'[f] \in Args /\ fds'[args'[f].in] = <<f, "in">>
      BY <2>1, <2>4, <2>a, <2>c, <2>d, InHandAreFiles DEF FilesInv
    <3>2. \A f \in Range(pending') : fds'[args'[f].out] = <<f, "out">>
      BY <2>1, <2>4, <2>a, <2>c, <2>d, InHandAreFiles DEF FilesInv
    <3>3. \A f \in Files : \A x, y \in Fds :
            fds'[x] = <<f, "out">> /\ fds'[y] = <<f, "out">> => x = y
      BY <2>3, <2>a, <2>b DEF FilesInv
    <3> QED
      BY <2>b, <2>d, <3>1, <3>2, <3>3 DEF FilesInv
  <2>7. WorkerInv'
    <3>1. ASSUME NEW w \in Workers, busy[w] # None
          PROVE  IF wpc[w] = "return"
                 THEN \A x \in Fds : fds'[x] # <<busy[w], "out">>
                 ELSE fds'[args[busy[w]].out] = <<busy[w], "out">>
      <4>1. busy[w] \in Jobs /\ busy[w] \in Files
        BY <3>1, InHandAreFiles
      <4>2. IF wpc[w] = "return"
            THEN \A x \in Fds : fds[x] # <<busy[w], "out">>
            ELSE fds[args[busy[w]].out] = <<busy[w], "out">>
        BY <3>1 DEF WorkerInv, InPlace
      <4> QED
        BY <2>1, <2>3, <2>a, <2>b, <2>c, <4>1, <4>2
    <3> QED
      BY <2>d, <3>1 DEF WorkerInv, InPlace
  <2>8. SolvedFilesAreClosed'
    BY <2>1, <2>2, <2>3, <2>4 DEF OpenInput, SolvedFilesAreClosed, Target, FilesInv
  <2> QED
    BY <2>4, <2>5, <2>6, <2>7, <2>8 DEF OpenInput
<1> QED
  BY <1>1, <1>2 DEF OpenInput

(* The solved file that main creates has no other descriptor, for its job  *)
(* is yet to come.                                                         *)
LEMMA CreateFileIInv == IInv /\ CreateFile => IInv'
<1> SUFFICES ASSUME IInv, CreateFile PROVE IInv'
  OBVIOUS
<1> USE NoneIsNoFile DEF IInv, mainVars, workerVars, poolVars
<1> DEFINE d == Min(FreeFds)
<1>1. d \in Fds /\ fds[d] = None
  BY LowestIsFree DEF CreateFile
<1> HIDE DEF d
<1>2. fds' = [fds EXCEPT ![d] = <<entry, "out">>] /\ out_file_des' = d
  BY DEF CreateFile, d
<1>3. /\ entry \in Files /\ <<entry, "out">> \in Ends
      /\ entry \notin unread \cup Submitted /\ mpc = "file" /\ mpc' = "addJob"
  BY DEF CreateFile, EntryInv, Ends
<1>4. /\ PoolInv' /\ Jobs' = Jobs /\ Range(pending') = Range(pending)
      /\ Submitted' = Submitted
  BY PoolStays DEF CreateFile, Submitted
<1>5. UNCHANGED <<args, wpc, local, busy, entry, file_d, unread, content, lost>>
  BY DEF CreateFile
<1>6. \A e \in Fds : e # d => fds'[e] = fds[e]
  BY <1>2 DEF FilesInv
<1>7. fds'[d] = <<entry, "out">> /\ fds' \in [Fds -> Ends \cup {None}]
  BY <1>1, <1>2, <1>3 DEF FilesInv
<1>8. \A f \in Jobs : args[f].in \in Fds /\ args[f].out \in Fds /\ f # entry
  BY <1>3 DEF FilesInv, Args, Submitted
<1>9. \A e \in Fds : fds[e] # <<entry, "out">>
  <2> SUFFICES ASSUME NEW e \in Fds, fds[e] = <<entry, "out">> PROVE FALSE
    OBVIOUS
  <2>1. entry \in Target(e, "out")
    BY <1>3 DEF Target
  <2> QED
    BY <1>3, <2>1 DEF SolvedFilesAreClosed, Submitted
<1>10. EntryInv'
  BY <1>1, <1>2, <1>3, <1>4, <1>5, <1>6, <1>7 DEF EntryInv, MainLabels
<1>11. FilesInv'
  <2>1. \A f \in Jobs' : args'[f] \in Args /\ fds'[args'[f].in] = <<f, "in">>
    BY <1>1, <1>4, <1>5, <1>6, <1>8, InHandAreFiles DEF FilesInv
  <2>2. \A f \in Range(pending') : fds'[args'[f].out] = <<f, "out">>
    BY <1>1, <1>4, <1>5, <1>6, <1>8, InHandAreFiles DEF FilesInv
  <2>3. \A f \in Files : \A x, y \in Fds :
          fds'[x] = <<f, "out">> /\ fds'[y] = <<f, "out">> => x = y
    BY <1>3, <1>6, <1>7, <1>9 DEF FilesInv
  <2> QED
    BY <1>5, <1>7, <2>1, <2>2, <2>3 DEF FilesInv
<1>12. WorkerInv'
  <2>1. ASSUME NEW w \in Workers, busy[w] # None
        PROVE  IF wpc[w] = "return"
               THEN \A x \in Fds : fds'[x] # <<busy[w], "out">>
               ELSE fds'[args[busy[w]].out] = <<busy[w], "out">>
    <3>1. busy[w] \in Jobs /\ busy[w] \in Files
      BY <2>1, InHandAreFiles
    <3>2. IF wpc[w] = "return"
          THEN \A x \in Fds : fds[x] # <<busy[w], "out">>
          ELSE fds[args[busy[w]].out] = <<busy[w], "out">>
      BY <2>1 DEF WorkerInv, InPlace
    <3> QED
      BY <1>1, <1>3, <1>6, <1>7, <1>8, <3>1, <3>2
  <2> QED
    BY <1>5, <2>1 DEF WorkerInv, InPlace
<1>13. SolvedFilesAreClosed'
  BY <1>1, <1>3, <1>4, <1>5, <1>6, <1>7 DEF SolvedFilesAreClosed, Target
<1> QED
  BY <1>4, <1>5, <1>10, <1>11, <1>12, <1>13

(* What MakeArgs makes. *)
LEMMA ArgsAreMade ==
  ASSUME IInv, mpc = "addJob", MakeArgs
  PROVE  /\ entry \in Files /\ entry \notin unread \cup Submitted
         /\ args' \in [Files -> Args \cup {None}]
         /\ args'[entry] = [in |-> file_d, out |-> out_file_des,
                            num_equations |-> Narrow(content[entry].count)]
         /\ args'[entry] \in Args
         /\ fds[args'[entry].in] = <<entry, "in">>
         /\ fds[args'[entry].out] = <<entry, "out">>
         /\ \A f \in Files : f # entry => args'[f] = args[f]
<1> DEFINE r == [in |-> file_d, out |-> out_file_des,
                 num_equations |-> Narrow(content[entry].count)]
<1>1. /\ entry \in Files /\ entry \notin unread \cup Submitted
      /\ file_d \in Fds /\ fds[file_d] = <<entry, "in">>
      /\ out_file_des \in Fds /\ fds[out_file_des] = <<entry, "out">>
  BY DEF IInv, EntryInv
<1>2. content[entry].count \in Int
  BY <1>1, FilesAssumption DEF IInv
<1>3. r \in Args
  BY <1>1, <1>2, NarrowFits DEF Args
<1>4. r.in = file_d /\ r.out = out_file_des
  OBVIOUS
<1> HIDE DEF r
<1>5. args' = [args EXCEPT ![entry] = r] /\ args \in [Files -> Args \cup {None}]
  BY DEF MakeArgs, IInv, FilesInv, r
<1>6. /\ args'[entry] = r /\ args' \in [Files -> Args \cup {None}]
      /\ \A f \in Files : f # entry => args'[f] = args[f]
  BY <1>1, <1>3, <1>5
<1> QED
  BY <1>1, <1>3, <1>4, <1>6 DEF r

(* The descriptors that main opened are the job's, whose place is now the  *)
(* queue.                                                                  *)
LEMMA AddJobIInv == IInv /\ AddJob => IInv'
<1> SUFFICES ASSUME IInv, AddJob PROVE IInv'
  OBVIOUS
<1> USE DEF IInv, mainVars, workerVars, poolVars
<1>1. mpc = "addJob" /\ mpc' = "entry" /\ file_d' = ERROR /\ MakeArgs
      /\ UNCHANGED <<unread, entry, out_file_des, lost, wpc, local, content, fds>>
  BY DEF AddJob
<1>2. /\ entry \in Files /\ entry \notin unread \cup Submitted
      /\ args' \in [Files -> Args \cup {None}] /\ args'[entry] \in Args
      /\ fds[args'[entry].in] = <<entry, "in">>
      /\ fds[args'[entry].out] = <<entry, "out">>
      /\ \A f \in Files : f # entry => args'[f] = args[f]
  BY <1>1, ArgsAreMade
<1>3. /\ PoolInv' /\ Jobs' = Jobs \cup {entry}
      /\ Range(pending') = Range(pending) \cup {entry}
      /\ busy' = busy /\ finished' = finished
  BY <1>2, PoolSubmits DEF AddJob
<1>4. Submitted' = Submitted \cup {entry}
  BY <1>1, <1>3 DEF Submitted
<1>5. EntryInv'
  BY <1>1, <1>2, <1>4 DEF EntryInv, MainLabels
<1>6. \A f \in Jobs : f # entry /\ f \in Files
  BY <1>2, InHandAreFiles DEF Submitted
<1>7. FilesInv'
  <2>1. \A f \in Jobs' : args'[f] \in Args /\ fds[args'[f].in] = <<f, "in">>
    BY <1>2, <1>3, <1>6 DEF FilesInv
  <2>2. \A f \in Range(pending') : fds[args'[f].out] = <<f, "out">>
    BY <1>2, <1>3, <1>6, InHandAreFiles DEF FilesInv
  <2> QED
    BY <1>1, <1>2, <2>1, <2>2 DEF FilesInv
<1>8. WorkerInv'
  <2>1. \A w \in Workers : busy[w] # None => args'[busy[w]] = args[busy[w]]
    BY <1>2, <1>6, InHandAreFiles
  <2>2. \A w \in Workers : wpc[w] # "start" => busy[w] # None
    BY DEF WorkerInv, InPlace
  <2> QED
    BY <1>1, <1>3, <2>1, <2>2 DEF WorkerInv, InPlace
<1>9. SolvedFilesAreClosed'
  BY <1>1, <1>3 DEF SolvedFilesAreClosed, Target
<1> QED
  BY <1>1, <1>3, <1>5, <1>7, <1>8, <1>9

LEMMA JobDroppedIInv == IInv /\ JobDropped => IInv'
<1> SUFFICES ASSUME IInv, JobDropped PROVE IInv'
  OBVIOUS
<1> USE DEF IInv, mainVars, workerVars, poolVars
<1>1. mpc = "addJob" /\ mpc' = "entry" /\ file_d' = ERROR /\ MakeArgs
      /\ lost' = lost \cup {entry}
      /\ UNCHANGED <<unread, entry, out_file_des, wpc, local, content, fds,
                     pending, busy, finished>>
  BY DEF JobDropped
<1>2. /\ entry \in Files /\ entry \notin unread \cup Submitted
      /\ args' \in [Files -> Args \cup {None}]
      /\ \A f \in Files : f # entry => args'[f] = args[f]
  BY <1>1, ArgsAreMade
<1>3. PoolInv' /\ Jobs' = Jobs /\ Range(pending') = Range(pending)
  BY <1>1, PoolStays
<1>4. Submitted' = Submitted \cup {entry}
  BY <1>1, <1>3 DEF Submitted
<1>5. EntryInv'
  BY <1>1, <1>2, <1>4 DEF EntryInv, MainLabels
<1>6. \A f \in Jobs : f # entry /\ f \in Files
  BY <1>2, InHandAreFiles DEF Submitted
<1>7. FilesInv'
  BY <1>1, <1>2, <1>3, <1>6, InHandAreFiles DEF FilesInv
<1>8. WorkerInv'
  <2>1. \A w \in Workers : busy[w] # None => args'[busy[w]] = args[busy[w]]
    BY <1>2, <1>6, InHandAreFiles
  <2>2. \A w \in Workers : wpc[w] # "start" => busy[w] # None
    BY DEF WorkerInv, InPlace
  <2> QED
    BY <1>1, <1>3, <2>1, <2>2 DEF WorkerInv, InPlace
<1>9. SolvedFilesAreClosed'
  BY <1>1, <1>3 DEF SolvedFilesAreClosed, Target
<1> QED
  BY <1>1, <1>3, <1>5, <1>7, <1>8, <1>9

(* The pool is gone, its jobs and workers, and every descriptor.           *)
LEMMA ExitIInv == IInv /\ Exit => IInv'
<1> SUFFICES ASSUME IInv, Exit PROVE IInv'
  OBVIOUS
<1> USE NoneIsNoFile DEF IInv, mainVars, workerVars, poolVars
<1>1. mpc' = "exited" /\ fds' = [fd \in Fds |-> None]
      /\ UNCHANGED <<unread, entry, file_d, out_file_des, args, lost, wpc,
                     local, content>>
  BY DEF Exit
<1>2. /\ PoolInv' /\ Jobs' = {} /\ Range(pending') = {}
      /\ busy' = busy /\ finished' = finished
      /\ \A w \in Workers : busy[w] = None
  BY PoolLeaves DEF Exit
<1>3. EntryInv'
  BY <1>1, <1>2 DEF EntryInv, MainLabels, Submitted
<1>4. FilesInv'
  BY <1>1, <1>2 DEF FilesInv
<1>5. WorkerInv'
  BY <1>1, <1>2 DEF WorkerInv, InPlace
<1>6. SolvedFilesAreClosed'
  BY <1>1 DEF SolvedFilesAreClosed, Target
<1> QED
  BY <1>1, <1>2, <1>3, <1>4, <1>5, <1>6
-----------------------------------------------------------------------------
(* A worker goes on inside process_equations. *)
LEMMA WorkerMoves ==
  ASSUME IInv, NEW w \in Workers, wpc[w] \in {"loop", "write"},
         NEW l \in {"loop", "write", "close"}, wpc' = [wpc EXCEPT ![w] = l],
         UNCHANGED <<poolVars, mainVars, local, content, fds>>
  PROVE  IInv'
<1> USE DEF IInv, poolVars, mainVars
<1>1. PoolInv' /\ Jobs' = Jobs /\ Range(pending') = Range(pending)
  BY PoolStays
<1>2. EntryInv'
  BY <1>1 DEF EntryInv, Submitted
<1>3. FilesInv'
  BY <1>1 DEF FilesInv
<1>4. WorkerInv'
  BY DEF WorkerInv, InPlace, WorkerLabels
<1>5. SolvedFilesAreClosed'
  BY <1>1 DEF SolvedFilesAreClosed, Target
<1> QED
  BY <1>1, <1>2, <1>3, <1>4, <1>5

LEMMA EquationIInv ==
  ASSUME IInv, NEW w \in Workers,
         \/ NoEquations(w) \/ ReadEquation(w) \/ ReadEnds(w) \/ ReadFails(w)
         \/ WriteSolution(w) \/ WriteFails(w)
  PROVE  IInv'
<1> USE DEF At
<1>1. CASE NoEquations(w)
  BY <1>1, WorkerMoves DEF NoEquations
<1>2. CASE ReadEquation(w)
  <2>1. PICK l \in {"loop", "write", "close"} : wpc' = [wpc EXCEPT ![w] = l]
    BY <1>2 DEF ReadEquation, AfterUnsolvable
  <2> QED
    BY <1>2, <2>1, WorkerMoves DEF ReadEquation
<1>3. CASE ReadEnds(w)
  BY <1>3, WorkerMoves DEF ReadEnds, AfterEnd
<1>4. CASE ReadFails(w)
  BY <1>4, WorkerMoves DEF ReadFails
<1>5. CASE WriteSolution(w)
  BY <1>5, WorkerMoves DEF WriteSolution
<1>6. CASE WriteFails(w)
  BY <1>6, WorkerMoves DEF WriteFails, AfterWriteError
<1> QED
  BY <1>1, <1>2, <1>3, <1>4, <1>5, <1>6

(* The worker takes the oldest job over, with its descriptors.             *)
LEMMA StartIInv ==
  ASSUME IInv, NEW w \in Workers, Start(w)
  PROVE  IInv'
<1> USE DEF IInv, mainVars
<1>1. /\ PoolInv' /\ Jobs' = Jobs /\ busy[w] = None
      /\ Head(pending) \in Files
      /\ busy' = [busy EXCEPT ![w] = Head(pending)]
      /\ Range(pending) = {Head(pending)} \cup Range(pending')
      /\ finished' = finished
  BY PoolStarts DEF Start
<1>2. /\ wpc' = [wpc EXCEPT ![w] = "start"]
      /\ UNCHANGED <<mainVars, local, content, fds>>
  BY DEF Start
<1>3. EntryInv'
  BY <1>1, <1>2 DEF EntryInv, Submitted
<1>4. FilesInv'
  BY <1>1, <1>2 DEF FilesInv
<1>5. WorkerInv'
  <2> DEFINE j == Head(pending)
  <2>1. j \in Files /\ j \in Range(pending) /\ busy' = [busy EXCEPT ![w] = j]
    BY <1>1
  <2> HIDE DEF j
  <2>2. fds[args[j].out] = <<j, "out">> /\ j # None
    BY <2>1, NoneIsNoFile DEF FilesInv
  <2>3. /\ busy'[w] = j /\ wpc'[w] = "start"
        /\ \A v \in Workers : v # w => busy'[v] = busy[v] /\ wpc'[v] = wpc[v]
    BY <1>2, <2>1 DEF PoolInv, WorkerInv, InPlace
  <2>4. wpc' \in [Workers -> WorkerLabels]
    BY <1>2 DEF WorkerInv, InPlace, WorkerLabels
  <2>5. InPlace(w)'
    BY <1>2, <2>2, <2>3 DEF InPlace
  <2>6. ASSUME NEW v \in Workers, v # w PROVE InPlace(v)'
    BY <1>2, <2>3, <2>6 DEF WorkerInv, InPlace
  <2> QED
    BY <1>2, <2>4, <2>5, <2>6 DEF WorkerInv
<1>6. SolvedFilesAreClosed'
  BY <1>1, <1>2 DEF SolvedFilesAreClosed, Target
<1> QED
  BY <1>1, <1>2, <1>3, <1>4, <1>5, <1>6

LEMMA ReadArgsIInv ==
  ASSUME IInv, NEW w \in Workers, ReadArgs(w)
  PROVE  IInv'
<1> USE DEF IInv, poolVars, mainVars
<1>1. /\ busy[w] # None /\ wpc[w] = "start"
      /\ local' = [local EXCEPT ![w] = args[busy[w]]]
      /\ UNCHANGED <<poolVars, mainVars, content, fds>>
  BY DEF ReadArgs, At, OwnArgs
<1>2. PICK l \in {"loop", "close"} : wpc' = [wpc EXCEPT ![w] = l]
  BY DEF ReadArgs
<1>3. PoolInv' /\ Jobs' = Jobs /\ Range(pending') = Range(pending)
  BY <1>1, PoolStays
<1>4. EntryInv'
  BY <1>1, <1>3 DEF EntryInv, Submitted
<1>5. FilesInv'
  BY <1>1, <1>3 DEF FilesInv
<1>6. WorkerInv'
  <2>1. args[busy[w]] \in Args
    BY <1>1, InHandAreFiles DEF FilesInv
  <2>2. /\ local' \in [Workers -> Args \cup {None}]
        /\ wpc' \in [Workers -> WorkerLabels]
    BY <1>1, <1>2, <2>1 DEF WorkerInv, InPlace, WorkerLabels
  <2>3. /\ local'[w] = args[busy[w]] /\ wpc'[w] = l
        /\ \A v \in Workers : v # w => local'[v] = local[v] /\ wpc'[v] = wpc[v]
    BY <1>1, <1>2 DEF WorkerInv, InPlace
  <2> QED
    BY <1>1, <2>2, <2>3 DEF WorkerInv, InPlace
<1>7. SolvedFilesAreClosed'
  BY <1>1, <1>3 DEF SolvedFilesAreClosed, Target
<1> QED
  BY <1>1, <1>3, <1>4, <1>5, <1>6, <1>7

(* The descriptor that is closed is the only one of the job's solved file, *)
(* so that no other job loses one of its own.                              *)
LEMMA CloseIInv ==
  ASSUME IInv, NEW w \in Workers, Close(w)
  PROVE  IInv'
<1> USE NoneIsNoFile DEF IInv, poolVars, mainVars
<1> DEFINE d == local[w].out
           f == busy[w]
<1>1. /\ busy[w] # None /\ wpc[w] = "close"
      /\ wpc' = [wpc EXCEPT ![w] = "return"]
      /\ fds' = [fds EXCEPT ![d] = None]
      /\ UNCHANGED <<poolVars, mainVars, local, content>>
  BY DEF Close, At, Closed
<1>2. /\ f \in Jobs /\ f \in Files /\ f \notin Range(pending)
      /\ \A v \in Workers : busy[v] = f => v = w
  BY <1>1, InHandAreFiles, InOnePlace
<1>3. d \in Fds /\ fds[d] = <<f, "out">> /\ local[w] = args[f]
  BY <1>1, <1>2 DEF WorkerInv, InPlace, FilesInv, Args
<1>4. \A e \in Fds : fds[e] = <<f, "out">> => e = d
  BY <1>2, <1>3 DEF FilesInv
<1> HIDE DEF d, f
<1>5. /\ fds' \in [Fds -> Ends \cup {None}] /\ fds'[d] = None
      /\ \A e \in Fds : e # d => fds'[e] = fds[e]
  BY <1>1, <1>3 DEF FilesInv
<1>6. PoolInv' /\ Jobs' = Jobs /\ Range(pending') = Range(pending)
  BY <1>1, PoolStays
<1>7. \A g \in Jobs : g \in Files /\ args[g].in \in Fds /\ args[g].out \in Fds
  BY InHandAreFiles DEF FilesInv, Args
<1>8. EntryInv'
  BY <1>1, <1>2, <1>3, <1>5, <1>6 DEF EntryInv, Submitted
<1>9. FilesInv'
  <2>1. \A g \in Jobs' : args'[g] \in Args /\ fds'[args'[g].in] = <<g, "in">>
    BY <1>1, <1>2, <1>3, <1>5, <1>6, <1>7 DEF FilesInv
  <2>2. \A g \in Range(pending') : fds'[args'[g].out] = <<g, "out">>
    BY <1>1, <1>2, <1>3, <1>5, <1>6, <1>7, InHandAreFiles DEF FilesInv
  <2>3. \A g \in Files : \A x, y \in Fds :
          fds'[x] = <<g, "out">> /\ fds'[y] = <<g, "out">> => x = y
    <3> TAKE g \in Files
    <3>1. \A x \in Fds : fds'[x] = <<g, "out">> => fds[x] = <<g, "out">>
      BY <1>5
    <3> QED
      BY <3>1 DEF FilesInv
  <2> QED
    BY <1>1, <1>5, <2>1, <2>2, <2>3 DEF FilesInv
<1>10. WorkerInv'
  <2>1. /\ wpc' \in [Workers -> WorkerLabels] /\ wpc'[w] = "return"
        /\ \A v \in Workers : v # w => wpc'[v] = wpc[v]
    BY <1>1 DEF WorkerInv, InPlace, WorkerLabels
  <2>2. \A x \in Fds : fds'[x] # <<f, "out">>
    BY <1>2, <1>4, <1>5
  <2>3. ASSUME NEW v \in Workers, v # w, busy[v] # None
        PROVE  IF wpc[v] = "return"
               THEN \A x \in Fds : fds'[x] # <<busy[v], "out">>
               ELSE fds'[args[busy[v]].out] = <<busy[v], "out">>
    <3>1. busy[v] \in Jobs /\ busy[v] \in Files /\ busy[v] # f
      BY <1>2, <2>3, InHandAreFiles
    <3>2. IF wpc[v] = "return"
          THEN \A x \in Fds : fds[x] # <<busy[v], "out">>
          ELSE fds[args[busy[v]].out] = <<busy[v], "out">>
      BY <2>3 DEF WorkerInv, InPlace
    <3> QED
      BY <1>2, <1>3, <1>5, <1>7, <3>1, <3>2
  <2>4. InPlace(w)'
    BY <1>1, <2>1, <2>2 DEF InPlace, f
  <2>5. ASSUME NEW v \in Workers, v # w PROVE InPlace(v)'
    BY <1>1, <2>1, <2>3, <2>5 DEF WorkerInv, InPlace
  <2> QED
    BY <1>1, <2>1, <2>4, <2>5 DEF WorkerInv
<1>11. SolvedFilesAreClosed'
  BY <1>1, <1>5, <1>6 DEF SolvedFilesAreClosed, Target
<1> QED
  BY <1>1, <1>6, <1>8, <1>9, <1>10, <1>11

(* The argument that is freed is of no other job.                          *)
LEMMA ReturnIInv ==
  ASSUME IInv, NEW w \in Workers, Return(w)
  PROVE  IInv'
<1> USE NoneIsNoFile DEF IInv, mainVars
<1> DEFINE f == busy[w]
<1>1. /\ busy[w] # None /\ wpc[w] = "return"
      /\ args' = [args EXCEPT ![f] = None]
      /\ local' = [local EXCEPT ![w] = None]
      /\ wpc' = [wpc EXCEPT ![w] = "start"]
      /\ UNCHANGED <<mpc, unread, entry, file_d, out_file_des, lost, content, fds>>
  BY DEF Return, At
<1>2. /\ PoolInv' /\ f \in Files /\ f \in Jobs /\ Jobs' = Jobs \ {f}
      /\ busy' = [busy EXCEPT ![w] = None]
      /\ finished' = finished \cup {f} /\ pending' = pending
  BY PoolFinishes DEF Return
<1>3. /\ f \notin Range(pending)
      /\ \A v \in Workers : busy[v] = f => v = w
  BY <1>1, InOnePlace
<1>4. \A x \in Fds : fds[x] # <<f, "out">>
  BY <1>1 DEF WorkerInv, InPlace
<1> HIDE DEF f
<1>5. Submitted' = Submitted
  BY <1>1, <1>2 DEF Submitted
<1>6. EntryInv'
  BY <1>1, <1>5 DEF EntryInv
<1>7. /\ args' \in [Files -> Args \cup {None}]
      /\ \A g \in Files : g # f => args'[g] = args[g]
  BY <1>1 DEF FilesInv
<1>8. FilesInv'
  <2>1. \A g \in Jobs' : args'[g] \in Args /\ fds[args'[g].in] = <<g, "in">>
    BY <1>2, <1>7, InHandAreFiles DEF FilesInv
  <2>2. \A g \in Range(pending) : fds[args'[g].out] = <<g, "out">>
    BY <1>3, <1>7, InHandAreFiles DEF FilesInv
  <2> QED
    BY <1>1, <1>2, <1>7, <2>1, <2>2 DEF FilesInv
<1>9. WorkerInv'
  <2>1. /\ wpc' \in [Workers -> WorkerLabels] /\ wpc'[w] = "start"
        /\ local' \in [Workers -> Args \cup {None}]
        /\ busy'[w] = None
        /\ \A v \in Workers : v # w => /\ wpc'[v] = wpc[v] /\ local'[v] = local[v]
                                       /\ busy'[v] = busy[v]
    BY <1>1, <1>2 DEF WorkerInv, InPlace, WorkerLabels, PoolInv
  <2>2. \A v \in Workers : v # w /\ busy[v] # None => args'[busy[v]] = args[busy[v]]
    BY <1>3, <1>7, InHandAreFiles
  <2>3. \A v \in Workers : wpc[v] # "start" => busy[v] # None
    BY DEF WorkerInv, InPlace
  <2>4. InPlace(w)'
    BY <2>1 DEF InPlace
  <2>5. ASSUME NEW v \in Workers, v # w PROVE InPlace(v)'
    <3>1. InPlace(v) /\ UNCHANGED <<wpc[v], local[v], busy[v], fds>>
      BY <1>1, <2>1, <2>5 DEF WorkerInv
    <3>2. CASE busy[v] = None
      BY <3>1, <3>2 DEF InPlace
    <3>3. CASE busy[v] # None
      BY <2>2, <2>5, <3>1, <3>3 DEF InPlace
    <3> QED
      BY <3>2, <3>3
  <2> QED
    BY <2>1, <2>4, <2>5 DEF WorkerInv
<1>10. SolvedFilesAreClosed'
  BY <1>1, <1>2, <1>4 DEF SolvedFilesAreClosed, Target
<1> QED
  BY <1>1, <1>2, <1>6, <1>8, <1>9, <1>10
-----------------------------------------------------------------------------
LEMMA StepIInv == IInv /\ [Next]_vars => IInv'
<1> SUFFICES ASSUME IInv, [Next]_vars PROVE IInv'
  OBVIOUS
<1>1. CASE MainStep
  BY <1>1, MainIInv, OpenInputIInv, CreateFileIInv, AddJobIInv, JobDroppedIInv,
     ExitIInv DEF MainStep
<1>2. CASE \E w \in Workers : WorkerStep(w)
  <2>1. PICK w \in Workers : WorkerStep(w)
    BY <1>2
  <2> QED
    BY <2>1, EquationIInv, StartIInv, ReadArgsIInv, CloseIInv, ReturnIInv
    DEF WorkerStep
<1>3. CASE Signal \/ Quiet \/ UNCHANGED vars
  BY <1>3, SignalIInv
<1> QED
  BY <1>1, <1>2, <1>3 DEF Next

LEMMA CalcInvariant == Spec => []IInv
BY InitIInv, StepIInv, PTL DEF Spec

(* The descriptors of a worker mean the files of its job, although main    *)
(* and the other workers open and close files all the time: a descriptor   *)
(* belongs to one job from its submission to the close, and nobody else    *)
(* closes it.                                                              *)
THEOREM CalcOwnFiles == Spec => []OwnFiles
<1>1. IInv => OwnFiles
  <2> SUFFICES ASSUME IInv, NEW w \in Workers, busy[w] # None,
                      wpc[w] \in {"loop", "write", "close"}
               PROVE  /\ fds[local[w].in] = <<busy[w], "in">>
                      /\ fds[local[w].out] = <<busy[w], "out">>
    BY DEF OwnFiles
  <2>1. local[w] = args[busy[w]] /\ fds[args[busy[w]].out] = <<busy[w], "out">>
    BY DEF IInv, WorkerInv, InPlace
  <2>2. fds[args[busy[w]].in] = <<busy[w], "in">>
    BY InHandAreFiles DEF IInv, FilesInv
  <2> QED
    BY <2>1, <2>2
<1> QED
  BY <1>1, CalcInvariant, PTL

(* A solved file that is open still has its job to come or its job was     *)
(* dropped: process_equations closes every other on each of its ways out.  *)
THEOREM CalcClosesFiles == Spec => []SolvedFilesAreClosed
<1>1. IInv => SolvedFilesAreClosed
  BY DEF IInv
<1> QED
  BY <1>1, CalcInvariant, PTL
-----------------------------------------------------------------------------
(* What is written to the solved files.  The items that were tried, those  *)
(* whose write failed included, are always the first ones, and how many    *)
(* tells where the job is.                                                 *)

\* The places of f that no write filled, and those that one tried to fill.
Missing(f) == { id[2] : id \in { g \in gaps : g[1] = f } }
Tried(f) == (Has(f) \cup Missing(f)) \ {-1}

(* The items of f are its own, in their order, none is there that is       *)
(* missing, and what an earlier run left is still there.                   *)
Ordered(f) ==
  /\ output[f] \in Seq(Range(output[f]))
  /\ \A p \in Whole(f) : output[f][p].id \in {f} \X (Nat \cup {-1})
  /\ \A p, q \in Whole(f) : p < q => output[f][p].id[2] < output[f][q].id[2]
  /\ -1 \in Has(f) <=> f \in Earlier
  /\ -1 \notin Missing(f) /\ Has(f) \cap Missing(f) = {}

(* How many solutions the loop of process_equations gets to: one for each  *)
(* equation up to the first that solve_func does not solve, and none if    *)
(* the number of equations is not positive as an int.                      *)
SolvedOf ==
  [c \in Contents |->
     IF Narrow(c.count) <= 0 THEN 0
     ELSE Cardinality({i \in DOMAIN c.eqs : \A j \in 1 .. i : Solves(c.eqs[j])})]

(* The first k equations of f are solved, and are looked at.               *)
Solved(f, k) ==
  /\ k \in 0 .. Len(content[f].eqs)
  /\ k > 0 => Narrow(content[f].count) > 0
  /\ \A j \in 1 .. k : Solves(content[f].eqs[j])

\* Nothing is written for f yet.
Untouched(f) == /\ f \notin Submitted /\ mpc # "exited"
                /\ ~(mpc = "addJob" /\ entry = f)

\* The header is tried, and no worker has the job.
Ready(f) == f \in Range(pending) \/ (mpc = "addJob" /\ entry = f)

FileItems(f) ==
  /\ Ordered(f)
  /\ \E k \in -1 .. SolvedOf[content[f]] : Tried(f) = 0 .. k
  /\ Untouched(f) => Tried(f) = {} /\ offset[f] = 0
  /\ Ready(f) => Tried(f) = 0 .. 0 /\ offset[f] = 0
  /\ f \in finished \ failed => Tried(f) = 0 .. SolvedOf[content[f]]

(* How far the worker that is busy with f is.                              *)
WorkItems(w, f) ==
  CASE wpc[w] = "start" -> Tried(f) = 0 .. 0 /\ offset[f] = 0
    [] wpc[w] = "loop"  -> Tried(f) = 0 .. offset[f] /\ Solved(f, offset[f])
    [] wpc[w] = "write" -> /\ offset[f] > 0 /\ equation[w] = <<f, offset[f]>>
                           /\ Tried(f) = 0 .. offset[f] - 1
                           /\ Solved(f, offset[f])
    [] OTHER -> f \notin failed => Tried(f) = 0 .. SolvedOf[content[f]]

ItemInv ==
  /\ DOMAIN output = Files
  /\ offset \in [Files -> Nat]
  /\ equation \in [Workers -> Names \cup {None}]
  /\ gaps \subseteq Names
  /\ \A f \in Jobs : args[f].num_equations = Narrow(content[f].count)
  /\ \A f \in Files : FileItems(f)
  /\ \A w \in Workers : busy[w] # None => WorkItems(w, busy[w])
-----------------------------------------------------------------------------
(* SolvedOf counts the equations before the first that is not solved.      *)
LEMMA SolvedOfCounts ==
  ASSUME NEW c \in Contents
  PROVE  /\ SolvedOf[c] \in 0 .. Len(c.eqs)
         /\ Len(c.eqs) \in Nat /\ \A j \in 1 .. Len(c.eqs) : c.eqs[j] \in Equation
         /\ Narrow(c.count) <= 0 => SolvedOf[c] = 0
         /\ Narrow(c.count) > 0 =>
              \A k \in 0 .. Len(c.eqs) :
                 (\A j \in 1 .. k : Solves(c.eqs[j])) <=> k <= SolvedOf[c]
<1>1. c.eqs \in Seq(Equation) /\ c.count \in Int
  BY FilesAssumption
<1>2. /\ Len(c.eqs) \in Nat /\ DOMAIN c.eqs = 1 .. Len(c.eqs)
      /\ \A j \in 1 .. Len(c.eqs) : c.eqs[j] \in Equation
  BY <1>1, LenProperties, ElementOfSeq
<1> DEFINE n == Len(c.eqs)
           P == { j \in 1 .. n : Solves(c.eqs[j]) }
           m == Cardinality({ i \in 1 .. n : \A j \in 1 .. i : j \in P })
<1>3. /\ m \in 0 .. n
      /\ \A k \in 0 .. n : (\A j \in 1 .. k : j \in P) <=> k <= m
  <2> HIDE DEF P, n
  <2>1. n \in Nat
    BY <1>2 DEF n
  <2> QED
    BY <2>1, FirstOnesCounted
<1>4. \A k \in 0 .. n : (\A j \in 1 .. k : j \in P)
                          <=> (\A j \in 1 .. k : Solves(c.eqs[j]))
  BY <1>2
<1>5. { i \in DOMAIN c.eqs : \A j \in 1 .. i : Solves(c.eqs[j]) }
        = { i \in 1 .. n : \A j \in 1 .. i : j \in P }
  BY <1>2, <1>4
<1>6. SolvedOf[c] = IF Narrow(c.count) <= 0 THEN 0 ELSE m
  BY <1>5 DEF SolvedOf
<1>7. Narrow(c.count) \in Int
  BY <1>1, NarrowFits, FilesAssumption
<1> HIDE DEF m, P
<1> QED
  BY <1>2, <1>3, <1>4, <1>6, <1>7

(* The solutions are done at the end of the equations, behind the last one *)
(* that is solved, and at once if none is looked at.                       *)
LEMMA SolvedBounds ==
  ASSUME NEW f \in Files, content[f] \in Contents, NEW k, Solved(f, k)
  PROVE  /\ k <= SolvedOf[content[f]]
         /\ \/ k = Len(content[f].eqs)
            \/ Narrow(content[f].count) <= 0
            \/ ~Solves(content[f].eqs[k + 1])
            => k = SolvedOf[content[f]]
<1> DEFINE c == content[f]
<1>1. k \in 0 .. Len(c.eqs) /\ (k > 0 => Narrow(c.count) > 0)
      /\ \A j \in 1 .. k : Solves(c.eqs[j])
  BY DEF Solved
<1>2. /\ SolvedOf[c] \in 0 .. Len(c.eqs) /\ Len(c.eqs) \in Nat
      /\ Narrow(c.count) <= 0 => SolvedOf[c] = 0
      /\ Narrow(c.count) > 0 =>
           \A i \in 0 .. Len(c.eqs) :
              (\A j \in 1 .. i : Solves(c.eqs[j])) <=> i <= SolvedOf[c]
  BY SolvedOfCounts
<1>3. Narrow(c.count) \in Int
  BY NarrowFits, FilesAssumption
<1> SUFFICES /\ k <= SolvedOf[c]
             /\ \/ k = Len(c.eqs) \/ Narrow(c.count) <= 0
                \/ ~Solves(c.eqs[k + 1])
                => k = SolvedOf[c]
  OBVIOUS
<1> HIDE DEF c
<1>4. k <= SolvedOf[c]
  BY <1>1, <1>2, <1>3
<1>5. CASE k = Len(c.eqs)
  BY <1>2, <1>4, <1>5
<1>6. CASE Narrow(c.count) <= 0
  BY <1>1, <1>2, <1>3, <1>6
<1>7. CASE ~Solves(c.eqs[k + 1]) /\ Narrow(c.count) > 0 /\ k < Len(c.eqs)
  <2>1. k + 1 \in 0 .. Len(c.eqs) /\ k + 1 \in 1 .. k + 1
    BY <1>1, <1>2, <1>7
  <2>2. ~(k + 1 <= SolvedOf[c])
    BY <1>2, <1>7, <2>1
  <2> QED
    BY <1>1, <1>2, <1>4, <2>2
<1> QED
  BY <1>1, <1>2, <1>3, <1>4, <1>5, <1>6, <1>7

LEMMA OneMoreSolved ==
  ASSUME NEW f \in Files, content[f] \in Contents, NEW k, Solved(f, k),
         Narrow(content[f].count) > 0, k < Len(content[f].eqs),
         Solves(content[f].eqs[k + 1])
  PROVE  Solved(f, k + 1)
<1>1. Len(content[f].eqs) \in Nat
  BY SolvedOfCounts
<1>2. \A j \in 1 .. k + 1 : j \in 1 .. k \/ j = k + 1
  BY DEF Solved
<1> QED
  BY <1>1, <1>2 DEF Solved
-----------------------------------------------------------------------------
(* A file for which nothing is written.                                    *)
LEMMA ItemsStay ==
  ASSUME NEW f \in Files, output'[f] = output[f], Missing(f)' = Missing(f)
  PROVE  Tried(f)' = Tried(f) /\ (Ordered(f) => Ordered(f)')
<1>1. Whole(f)' = Whole(f) /\ Has(f)' = Has(f)
  BY DEF Whole, Has
<1> QED
  BY <1>1 DEF Tried, Ordered

(* The next item of a file is written, or its write fails: in any case it  *)
(* was tried, and the items of the file are still in order.                *)
LEMMA ItemTried ==
  ASSUME ItemInv, NEW f \in Files, NEW i \in Nat, Tried(f) = 0 .. i - 1,
         \/ Write(f, <<f, i>>) /\ UNCHANGED gaps
         \/ WriteError(f, <<f, i>>)
  PROVE  /\ Ordered(f)' /\ Tried(f)' = 0 .. i
         /\ \A g \in Files : g # f =>
              output'[g] = output[g] /\ Missing(g)' = Missing(g)
         /\ DOMAIN output' = Files /\ gaps' \subseteq Names
<1> DEFINE s == output[f]
           id == <<f, i>>
<1>1. /\ DOMAIN output = Files /\ gaps \subseteq Names /\ Ordered(f)
      /\ s \in Seq(Range(s)) /\ id \in Names
  BY DEF ItemInv, FileItems, Ordered, Names
<1>2. id[1] = f /\ id[2] = i /\ id # None
  BY <1>1, FilesAssumption
<1>3. \A j \in Has(f) : j = -1 \/ j \in 0 .. i - 1
  BY DEF Tried
<1>4. i \notin Has(f) /\ i \notin Missing(f)
  BY DEF Tried
<1>5. PICK x : /\ output' = [output EXCEPT ![f] = Append(s, x)]
               /\ \/ x.id = id /\ gaps' = gaps
                  \/ x.id = None /\ gaps' = gaps \cup {id}
  BY DEF Write, WriteError, Item, Part
<1>6. /\ Append(s, x) \in Seq(Range(Append(s, x))) /\ Len(s) \in Nat
      /\ DOMAIN s = 1 .. Len(s) /\ DOMAIN Append(s, x) = 1 .. Len(s) + 1
      /\ \A j \in 1 .. Len(s) : Append(s, x)[j] = s[j]
      /\ Append(s, x)[Len(s) + 1] = x
  BY <1>1, AppendGrows
<1> DEFINE t == Append(s, x)
<1> HIDE DEF s, t, id
<1>7. output'[f] = t /\ \A g \in Files : g # f => output'[g] = output[g]
  BY <1>1, <1>5 DEF t
<1>8. DOMAIN output' = Files /\ gaps' \subseteq Names
  BY <1>1, <1>5
<1>9. \A g \in Files : Missing(g)' = IF g = f /\ gaps' # gaps
                                     THEN Missing(f) \cup {i} ELSE Missing(g)
  <2>1. CASE gaps' = gaps
    BY <2>1 DEF Missing
  <2>2. CASE gaps' = gaps \cup {id}
    <3> TAKE g \in Files
    <3>1. CASE g = f
      <4>1. { h \in gaps' : h[1] = g } = { h \in gaps : h[1] = f } \cup {id}
        BY <1>2, <2>2, <3>1
      <4>2. Missing(g)' = Missing(f) \cup {i}
        BY <1>2, <3>1, <4>1 DEF Missing
      <4>3. gaps' # gaps
        BY <1>2, <1>4, <2>2 DEF Missing
      <4> QED
        BY <3>1, <4>2, <4>3
    <3>2. CASE g # f
      <4>1. { h \in gaps' : h[1] = g } = { h \in gaps : h[1] = g }
        BY <1>2, <2>2, <3>2
      <4> QED
        BY <3>2, <4>1 DEF Missing
    <3> QED
      BY <3>1, <3>2
  <2> QED
    BY <1>5, <2>1, <2>2
<1> DEFINE n == Len(s) + 1
<1>10. Whole(f) = { p \in 1 .. n - 1 : s[p].id # None }
  BY <1>6 DEF Whole, s, n
<1>11. Whole(f)' = { p \in 1 .. n : t[p].id # None }
  BY <1>6, <1>7 DEF Whole, t, n
<1>12. /\ n \in Nat /\ n \in 1 .. n /\ t[n] = x
       /\ \A p \in 1 .. n - 1 : t[p] = s[p]
       /\ \A p \in 1 .. n : p \in 1 .. n - 1 \/ p = n
  BY <1>6 DEF n, t
<1> HIDE DEF n
<1>13. CASE x.id = id /\ gaps' = gaps
  <2>1. Whole(f)' = Whole(f) \cup {n}
    BY <1>2, <1>10, <1>11, <1>12, <1>13
  <2>2. Has(f)' = Has(f) \cup {i}
    BY <1>2, <1>7, <1>10, <1>12, <1>13, <2>1 DEF Has, s
  <2>3. Missing(f)' = Missing(f)
    BY <1>9, <1>13
  <2>4. Ordered(f)'
    <3>1. \A p \in Whole(f)' : t[p].id \in {f} \X (Nat \cup {-1})
      BY <1>1, <1>2, <1>10, <1>12, <1>13, <2>1 DEF Ordered, s, id
    <3>2. ASSUME NEW p \in Whole(f)', NEW q \in Whole(f)', p < q
          PROVE  t[p].id[2] < t[q].id[2]
      <4>1. p \in Whole(f) /\ p \in 1 .. n - 1
        BY <1>10, <1>11, <1>12, <2>1, <3>2
      <4>2. CASE q = n
        <5>1. s[p].id[2] \in Has(f)
          BY <4>1 DEF Has, s
        <5> QED
          BY <1>2, <1>3, <1>12, <1>13, <4>1, <4>2, <5>1
      <4>3. CASE q \in Whole(f) /\ q \in 1 .. n - 1
        BY <1>1, <1>12, <3>2, <4>1, <4>3 DEF Ordered, s
      <4> QED
        BY <1>10, <2>1, <3>2, <4>2, <4>3
    <3>3. t \in Seq(Range(t))
      BY <1>6 DEF t
    <3>4. /\ -1 \in Has(f)' <=> f \in Earlier
          /\ -1 \notin Missing(f)' /\ Has(f)' \cap Missing(f)' = {}
      BY <1>1, <1>4, <2>2, <2>3 DEF Ordered
    <3> QED
      BY <1>7, <3>1, <3>2, <3>3, <3>4 DEF Ordered
  <2>5. Tried(f)' = 0 .. i
    BY <2>2, <2>3 DEF Tried
  <2> QED
    BY <1>7, <1>8, <1>9, <1>13, <2>4, <2>5
<1>14. CASE x.id = None /\ gaps' = gaps \cup {id}
  <2>1. Whole(f)' = Whole(f)
    BY <1>10, <1>11, <1>12, <1>14
  <2>2. Has(f)' = Has(f)
    BY <1>7, <1>10, <1>12, <2>1 DEF Has, s
  <2>3. Missing(f)' = Missing(f) \cup {i}
    BY <1>2, <1>4, <1>9, <1>14 DEF Missing
  <2>4. Ordered(f)'
    <3>1. \A p \in Whole(f)' : t[p].id \in {f} \X (Nat \cup {-1})
      BY <1>1, <1>10, <1>12, <2>1 DEF Ordered, s
    <3>2. \A p, q \in Whole(f)' : p < q => t[p].id[2] < t[q].id[2]
      BY <1>1, <1>10, <1>12, <2>1 DEF Ordered, s
    <3>3. t \in Seq(Range(t))
      BY <1>6 DEF t
    <3>4. /\ -1 \in Has(f)' <=> f \in Earlier
          /\ -1 \notin Missing(f)' /\ Has(f)' \cap Missing(f)' = {}
      BY <1>1, <1>4, <2>2, <2>3 DEF Ordered
    <3> QED
      BY <1>7, <3>1, <3>2, <3>3, <3>4 DEF Ordered
  <2>5. Tried(f)' = 0 .. i
    BY <2>2, <2>3 DEF Tried
  <2> QED
    BY <1>7, <1>8, <1>9, <2>4, <2>5
<1> QED
  BY <1>5, <1>13, <1>14
-----------------------------------------------------------------------------
LEMMA InitItemInv == Init => ItemInv
<1> SUFFICES ASSUME Init PROVE ItemInv
  OBVIOUS
<1> USE FilesAssumption DEF Init
<1>1. pending = <<>> /\ busy = [w \in Workers |-> None] /\ finished = {}
  BY DEF Pool!Init
<1>2. Range(<<>>) = {}
  BY DEF Range
<1>3. Jobs = {}
  BY <1>1, <1>2 DEF Jobs, Range
<1>4. ASSUME NEW f \in Files PROVE FileItems(f)
  <2> DEFINE x == Item(<<f, -1>>)
  <2>1. x.id = <<f, -1>> /\ <<f, -1>> \in {f} \X (Nat \cup {-1})
        /\ x.id # None /\ x.id[2] = -1
    BY DEF Item, Names
  <2> HIDE DEF x
  <2>2. output[f] = IF f \in Earlier THEN <<x>> ELSE <<>>
    BY DEF x
  <2>3. /\ Whole(f) = IF f \in Earlier THEN {1} ELSE {}
        /\ Has(f) = IF f \in Earlier THEN {-1} ELSE {}
    <3>1. CASE f \in Earlier
      <4>1. output[f] = <<x>> /\ DOMAIN <<x>> = {1} /\ <<x>>[1] = x
        BY <2>2, <3>1
      <4>2. Whole(f) = {1}
        BY <2>1, <4>1 DEF Whole
      <4> QED
        BY <2>1, <3>1, <4>1, <4>2 DEF Has
    <3>2. CASE f \notin Earlier
      BY <2>2, <3>2 DEF Whole, Has
    <3> QED
      BY <3>1, <3>2
  <2>4. Missing(f) = {}
    BY DEF Missing
  <2>5. output[f] \in Seq(Range(output[f]))
    <3>1. Range(<<x>>) = {x} /\ <<x>> \in Seq({x}) /\ <<>> \in Seq({})
      BY DEF Range
    <3> QED
      BY <1>2, <2>2, <3>1
  <2>6. Ordered(f)
    <3>1. \A p \in Whole(f) : p = 1 /\ output[f][p] = x
      BY <2>2, <2>3
    <3>2. \A p \in Whole(f) : output[f][p].id \in {f} \X (Nat \cup {-1})
      BY <2>1, <3>1
    <3>3. ASSUME NEW p \in Whole(f), NEW q \in Whole(f) PROVE ~(p < q)
      <4>1. p = 1 /\ q = 1
        BY <3>1
      <4> QED
        BY <4>1
    <3> QED
      BY <2>3, <2>4, <2>5, <3>2, <3>3 DEF Ordered
  <2>7. Tried(f) = {}
    BY <2>3, <2>4 DEF Tried
  <2>8. SolvedOf[content[f]] \in Nat
    <3>1. content[f] \in Contents
      OBVIOUS
    <3>2. Len(content[f].eqs) \in Nat
      BY <3>1, SolvedOfCounts
    <3> QED
      BY <3>1, <3>2, SolvedOfCounts
  <2>9. -1 \in -1 .. SolvedOf[content[f]] /\ 0 .. -1 = {}
    BY <2>8
  <2> QED
    BY <1>1, <1>2, <2>6, <2>7, <2>9 DEF FileItems, Ready
<1> QED
  BY <1>1, <1>3, <1>4 DEF ItemInv

(* main writes nothing, and no file is ready that was not.                 *)
LEMMA MainKeepsItems ==
  ASSUME IInv, ItemInv,
         UNCHANGED <<busy, finished, content, output, gaps, offset, equation,
                     wpc, failed>>,
         \A f \in Jobs' : args'[f].num_equations = Narrow(content[f].count),
         \A f \in Files : /\ Untouched(f)' => Untouched(f)
                          /\ Ready(f)' => Ready(f)
  PROVE  ItemInv'
<1>1. \A f \in Files : /\ output'[f] = output[f] /\ Missing(f)' = Missing(f)
                       /\ UNCHANGED <<offset[f], content[f]>>
  BY DEF Missing
<1>2. \A f \in Files : FileItems(f)'
  <2> TAKE f \in Files
  <2>1. FileItems(f) /\ (Untouched(f)' => Untouched(f)) /\ (Ready(f)' => Ready(f))
    BY DEF ItemInv
  <2>2. Tried(f)' = Tried(f) /\ (Ordered(f) => Ordered(f)')
    BY <1>1, ItemsStay
  <2> QED
    BY <1>1, <2>1, <2>2 DEF FileItems
<1>3. ASSUME NEW w \in Workers, busy[w] # None PROVE WorkItems(w, busy[w])'
  <2>1. WorkItems(w, busy[w]) /\ busy[w] \in Files
    BY <1>3 DEF ItemInv, IInv, PoolInv
  <2>2. Tried(busy[w])' = Tried(busy[w])
    BY <1>1, <2>1, ItemsStay
  <2> QED
    BY <2>1, <2>2 DEF WorkItems, Solved
<1> QED
  BY <1>2, <1>3 DEF ItemInv

LEMMA MainItemInv ==
  ASSUME IInv, ItemInv,
         \/ Create \/ CreateFails \/ NextEntry \/ LastEntry \/ OpenInput
         \/ CheckHeader \/ CreateFileFails \/ Stop \/ Shutdown
  PROVE  ItemInv'
<1> USE DEF mainVars, workerVars, poolVars, history
<1>1. /\ UNCHANGED <<pending, busy, finished, args, lost, content, output, gaps,
                     offset, equation, wpc, failed>>
      /\ mpc \notin {"addJob", "exited"} /\ mpc' # "addJob"
  BY DEF Create, CreateFails, NextEntry, LastEntry, OpenInput, CheckHeader,
         CreateFileFails, Stop, Shutdown, Pool!Open, Pool!Close
<1>2. Jobs' = Jobs /\ Submitted' = Submitted /\ Range(pending') = Range(pending)
  BY <1>1 DEF Jobs, Submitted
<1>3. \A f \in Files : /\ Untouched(f)' => Untouched(f)
                       /\ Ready(f)' => Ready(f)
  BY <1>1, <1>2 DEF Untouched, Ready
<1>4. \A f \in Jobs' : args'[f].num_equations = Narrow(content[f].count)
  BY <1>1, <1>2 DEF ItemInv
<1> QED
  BY <1>1, <1>3, <1>4, MainKeepsItems

LEMMA SignalItemInv ==
  ASSUME IInv, ItemInv, Signal \/ Quiet \/ UNCHANGED vars
  PROVE  ItemInv'
<1> USE DEF mainVars, workerVars, poolVars, history
<1>1. UNCHANGED <<pending, busy, finished, mpc, entry, args, lost, content,
                  output, gaps, offset, equation, wpc, failed>>
  BY DEF Signal, Quiet, vars
<1>2. Jobs' = Jobs /\ Submitted' = Submitted /\ Range(pending') = Range(pending)
  BY <1>1 DEF Jobs, Submitted
<1>3. \A f \in Files : /\ Untouched(f)' => Untouched(f)
                       /\ Ready(f)' => Ready(f)
  BY <1>1, <1>2 DEF Untouched, Ready
<1>4. \A f \in Jobs' : args'[f].num_equations = Narrow(content[f].count)
  BY <1>1, <1>2 DEF ItemInv
<1> QED
  BY <1>1, <1>3, <1>4, MainKeepsItems

LEMMA SubmitItemInv ==
  ASSUME IInv, ItemInv, AddJob \/ JobDropped \/ Exit
  PROVE  ItemInv'
<1> USE DEF mainVars, workerVars, poolVars, history
<1>1. CASE AddJob
  <2>1. /\ mpc = "addJob" /\ mpc' = "entry" /\ MakeArgs
        /\ UNCHANGED <<content, output, gaps, offset, equation, wpc, failed, lost>>
    BY <1>1 DEF AddJob
  <2>2. /\ entry \in Files /\ entry \notin unread \cup Submitted
        /\ args'[entry] = [in |-> file_d, out |-> out_file_des,
                           num_equations |-> Narrow(content[entry].count)]
        /\ \A f \in Files : f # entry => args'[f] = args[f]
    BY <2>1, ArgsAreMade
  <2>3. /\ Jobs' = Jobs \cup {entry}
        /\ Range(pending') = Range(pending) \cup {entry}
        /\ busy' = busy /\ finished' = finished
    BY <1>1, <2>2, PoolSubmits DEF AddJob, IInv
  <2>4. \A f \in Jobs' : args'[f].num_equations = Narrow(content[f].count)
    BY <2>2, <2>3, InHandAreFiles DEF ItemInv, IInv
  <2>5. \A f \in Files : /\ Untouched(f)' => Untouched(f)
                         /\ Ready(f)' => Ready(f)
    BY <2>1, <2>3 DEF Untouched, Ready, Submitted
  <2> QED
    BY <2>1, <2>3, <2>4, <2>5, MainKeepsItems
<1>2. CASE JobDropped
  <2>1. /\ mpc = "addJob" /\ mpc' = "entry" /\ MakeArgs /\ lost' = lost \cup {entry}
        /\ UNCHANGED <<pending, busy, finished, content, output, gaps, offset,
                       equation, wpc, failed>>
    BY <1>2 DEF JobDropped
  <2>2. /\ entry \notin unread \cup Submitted
        /\ \A f \in Files : f # entry => args'[f] = args[f]
    BY <2>1, ArgsAreMade
  <2>3. Jobs' = Jobs /\ Range(pending') = Range(pending)
    BY <2>1 DEF Jobs
  <2>4. \A f \in Jobs' : args'[f].num_equations = Narrow(content[f].count)
    BY <2>2, <2>3, InHandAreFiles DEF ItemInv, IInv, Submitted
  <2>5. \A f \in Files : /\ Untouched(f)' => Untouched(f)
                         /\ Ready(f)' => Ready(f)
    BY <2>1, <2>3 DEF Untouched, Ready, Submitted
  <2> QED
    BY <2>1, <2>4, <2>5, MainKeepsItems
<1>3. CASE Exit
  <2>1. /\ mpc' = "exited"
        /\ UNCHANGED <<content, output, gaps, offset, equation, wpc, failed>>
    BY <1>3 DEF Exit
  <2>2. /\ Jobs' = {} /\ Range(pending') = {}
        /\ busy' = busy /\ finished' = finished
    BY <1>3, PoolLeaves DEF Exit, IInv
  <2>3. \A f \in Files : ~Untouched(f)' /\ ~Ready(f)'
    BY <2>1, <2>2 DEF Untouched, Ready
  <2> QED
    BY <2>1, <2>2, <2>3, MainKeepsItems
<1> QED
  BY <1>1, <1>2, <1>3

(* The header of a new solved file is the first thing tried for it.        *)
LEMMA CreateFileItemInv ==
  ASSUME IInv, ItemInv, CreateFile
  PROVE  ItemInv'
<1> USE DEF mainVars, workerVars, poolVars, history
<1>1. /\ mpc = "file" /\ mpc' = "addJob"
      /\ UNCHANGED <<pending, busy, finished, entry, args, lost, content, offset,
                     equation, wpc, failed>>
      /\ \/ Write(entry, <<entry, 0>>) /\ UNCHANGED gaps
         \/ WriteError(entry, <<entry, 0>>)
  BY DEF CreateFile
<1>2. entry \in Files /\ entry \notin Submitted
  BY <1>1 DEF IInv, EntryInv
<1>3. Jobs' = Jobs /\ Submitted' = Submitted /\ Range(pending') = Range(pending)
  BY <1>1 DEF Jobs, Submitted
<1>4. Untouched(entry) /\ FileItems(entry)
  BY <1>1, <1>2 DEF Untouched, ItemInv
<1>5. /\ Ordered(entry)' /\ Tried(entry)' = 0 .. 0
      /\ \A g \in Files : g # entry =>
           output'[g] = output[g] /\ Missing(g)' = Missing(g)
      /\ DOMAIN output' = Files /\ gaps' \subseteq Names
  <2>1. Tried(entry) = 0 .. 0 - 1
    BY <1>4 DEF FileItems
  <2> QED
    BY <1>1, <1>2, <2>1, ItemTried
<1>6. FileItems(entry)'
  <2>1. content[entry] \in Contents
    BY <1>2 DEF IInv
  <2>2. SolvedOf[content[entry]] \in Nat
    BY <2>1, SolvedOfCounts
  <2>3. 0 \in -1 .. SolvedOf[content[entry]]
    BY <2>2
  <2>4. ~Untouched(entry)' /\ offset[entry] = 0 /\ entry \notin finished
    BY <1>1, <1>2, <1>4 DEF Untouched, FileItems, Submitted
  <2> QED
    BY <1>1, <1>5, <2>3, <2>4 DEF FileItems
<1>7. ASSUME NEW f \in Files, f # entry PROVE FileItems(f)'
  <2>1. Tried(f)' = Tried(f) /\ (Ordered(f) => Ordered(f)')
    BY <1>5, <1>7, ItemsStay
  <2>2. (Untouched(f)' => Untouched(f)) /\ (Ready(f)' => Ready(f))
    BY <1>1, <1>3, <1>7 DEF Untouched, Ready
  <2>3. FileItems(f)
    BY DEF ItemInv
  <2> QED
    BY <1>1, <2>1, <2>2, <2>3 DEF FileItems
<1>8. ASSUME NEW w \in Workers, busy[w] # None PROVE WorkItems(w, busy[w])'
  <2>1. WorkItems(w, busy[w]) /\ busy[w] \in Files /\ busy[w] # entry
    BY <1>2, <1>8, InHandAreFiles DEF ItemInv, IInv, Submitted
  <2>2. \A g \in Files : g # entry => Tried(g)' = Tried(g)
    BY <1>5, ItemsStay
  <2>3. Tried(busy[w])' = Tried(busy[w])
    BY <1>1, <2>1, <2>2
  <2> QED
    BY <1>1, <2>1, <2>3 DEF WorkItems, Solved
<1> QED
  BY <1>1, <1>3, <1>5, <1>6, <1>7, <1>8 DEF ItemInv
-----------------------------------------------------------------------------
(* What a worker does for its file does not concern the others.            *)
LEMMA OneWorker ==
  ASSUME IInv, ItemInv, NEW w \in Workers, NEW f \in Files,
         UNCHANGED <<mpc, entry, content>>, Submitted' = Submitted,
         Range(pending') \subseteq Range(pending),
         DOMAIN output' = Files, gaps' \subseteq Names,
         offset' \in [Files -> Nat],
         equation' \in [Workers -> Names \cup {None}],
         \A g \in Jobs' : args'[g].num_equations = Narrow(content[g].count),
         \A g \in Files : g # f =>
           /\ output'[g] = output[g] /\ Missing(g)' = Missing(g)
           /\ offset'[g] = offset[g],
         finished' \subseteq finished \cup {f}, failed \subseteq failed',
         \A v \in Workers : v # w =>
           /\ UNCHANGED <<busy[v], wpc[v], equation[v]>> /\ busy[v] # f,
         FileItems(f)',
         busy'[w] # None => busy'[w] = f /\ WorkItems(w, f)'
  PROVE  ItemInv'
<1>1. \A g \in Files : g # f =>
        Tried(g)' = Tried(g) /\ (Ordered(g) => Ordered(g)')
  BY ItemsStay
<1>2. ASSUME NEW g \in Files, g # f PROVE FileItems(g)'
  <2>1. FileItems(g)
    BY DEF ItemInv
  <2>2. (Untouched(g)' => Untouched(g)) /\ (Ready(g)' => Ready(g))
    BY DEF Untouched, Ready
  <2> QED
    BY <1>1, <1>2, <2>1, <2>2 DEF FileItems
<1>3. ASSUME NEW v \in Workers, v # w, busy[v] # None
      PROVE  WorkItems(v, busy[v])'
  <2>1. WorkItems(v, busy[v]) /\ busy[v] \in Files /\ busy[v] # f
    BY <1>3 DEF ItemInv, IInv, PoolInv
  <2>2. PICK g \in Files : g = busy[v]
    BY <2>1
  <2>3. Tried(g)' = Tried(g) /\ offset'[g] = offset[g] /\ busy'[v] = g
    BY <1>1, <1>3, <2>1, <2>2
  <2>4. WorkItems(v, g)'
    BY <1>3, <2>1, <2>2, <2>3 DEF WorkItems, Solved
  <2> QED
    BY <2>3, <2>4
<1>4. ASSUME NEW v \in Workers, busy'[v] # None PROVE WorkItems(v, busy[v])'
  BY <1>3, <1>4
<1> QED
  BY <1>2, <1>4 DEF ItemInv

(* Where the file of a busy worker is, and is not. *)
LEMMA FileOfBusy ==
  ASSUME IInv, NEW w \in Workers, busy[w] # None
  PROVE  /\ busy[w] \in Files /\ busy[w] \in Jobs
         /\ busy[w] \notin Range(pending) \cup finished
         /\ ~Untouched(busy[w]) /\ ~Ready(busy[w])
         /\ \A v \in Workers : v # w => busy[v] # busy[w]
         /\ content[busy[w]] \in Contents
<1>1. busy[w] \in Files /\ busy[w] \in Jobs
  BY InHandAreFiles DEF IInv
<1>2. /\ busy[w] \notin Range(pending) \cup finished
      /\ \A v \in Workers : v # w => busy[v] # busy[w]
  BY InOnePlace DEF IInv, PoolInv, Apart
<1>3. mpc = "addJob" => entry # busy[w]
  BY <1>1 DEF IInv, EntryInv, Submitted
<1> QED
  BY <1>1, <1>2, <1>3 DEF IInv, Untouched, Ready, Submitted

(* A worker that is busy with f goes on: how far it is now, is enough.     *)
LEMMA BusyStep ==
  ASSUME IInv, ItemInv, NEW w \in Workers, NEW f, f = busy[w], f # None,
         UNCHANGED <<poolVars, mainVars, content>>,
         DOMAIN output' = Files, gaps' \subseteq Names,
         offset' \in [Files -> Nat],
         equation' \in [Workers -> Names \cup {None}],
         \A g \in Files : g # f =>
           /\ output'[g] = output[g] /\ Missing(g)' = Missing(g)
           /\ offset'[g] = offset[g],
         failed \subseteq failed',
         \A v \in Workers : v # w => UNCHANGED <<wpc[v], equation[v]>>,
         Ordered(f)', NEW k \in -1 .. SolvedOf[content[f]], Tried(f)' = 0 .. k,
         WorkItems(w, f)'
  PROVE  ItemInv'
<1> USE DEF poolVars, mainVars
<1>1. /\ f \in Files /\ f \in Jobs /\ f \notin Range(pending) \cup finished
      /\ ~Untouched(f) /\ ~Ready(f)
      /\ \A v \in Workers : v # w => busy[v] # f
  BY FileOfBusy
<1>2. Jobs' = Jobs /\ Submitted' = Submitted /\ Range(pending') = Range(pending)
  BY DEF Jobs, Submitted
<1>3. ~Untouched(f)' /\ ~Ready(f)'
  BY <1>1, <1>2 DEF Untouched, Ready
<1>4. FileItems(f)'
  BY <1>1, <1>3 DEF FileItems
<1>5. \A g \in Jobs' : args'[g].num_equations = Narrow(content[g].count)
  BY <1>2 DEF ItemInv
<1> QED
  BY <1>1, <1>2, <1>4, <1>5, OneWorker

(* A step of a worker that writes nothing and reads no equation.           *)
LEMMA QuietStep ==
  ASSUME IInv, ItemInv, NEW w \in Workers, NEW f, f = busy[w], f # None,
         UNCHANGED <<poolVars, mainVars, content, output, gaps, offset, equation>>,
         failed \subseteq failed', NEW l, wpc' = [wpc EXCEPT ![w] = l],
         Tried(f)' = Tried(f) => WorkItems(w, f)'
  PROVE  ItemInv'
<1>1. f \in Files
  BY FileOfBusy
<1>2. \A g \in Files : output'[g] = output[g] /\ Missing(g)' = Missing(g)
  BY DEF Missing
<1>3. FileItems(f)
  BY <1>1 DEF ItemInv
<1>4. Tried(f)' = Tried(f) /\ Ordered(f)'
  BY <1>1, <1>2, <1>3, ItemsStay DEF FileItems
<1>5. PICK k \in -1 .. SolvedOf[content[f]] : Tried(f)' = 0 .. k
  BY <1>3, <1>4 DEF FileItems
<1>6. /\ DOMAIN output' = Files /\ gaps' \subseteq Names
      /\ offset' \in [Files -> Nat]
      /\ equation' \in [Workers -> Names \cup {None}]
  BY DEF ItemInv
<1>7. \A v \in Workers : v # w => UNCHANGED <<wpc[v], equation[v]>>
  BY DEF IInv, WorkerInv
<1> QED
  BY <1>2, <1>4, <1>5, <1>6, <1>7, BusyStep

LEMMA QuietItemInv ==
  ASSUME IInv, ItemInv, NEW w \in Workers,
         \/ ReadArgs(w) \/ NoEquations(w) \/ ReadEnds(w) \/ ReadFails(w)
         \/ Close(w)
  PROVE  ItemInv'
<1> USE DEF At, mainVars, poolVars, history
<1>1. PICK f : f = busy[w]
  OBVIOUS
<1>2. /\ f # None
      /\ UNCHANGED <<poolVars, mainVars, content, output, gaps, offset, equation>>
      /\ failed \subseteq failed'
  BY <1>1 DEF ReadArgs, NoEquations, ReadEnds, ReadFails, Close
<1>3. /\ f \in Files /\ f \in Jobs /\ content[f] \in Contents
      /\ WorkItems(w, f) /\ offset[f] \in Nat
  BY <1>1, <1>2, FileOfBusy DEF ItemInv
<1>4. /\ wpc \in [Workers -> WorkerLabels]
      /\ wpc[w] = "loop" => local[w] = args[f]
      /\ args[f] \in Args /\ args[f].num_equations = Narrow(content[f].count)
      /\ fds[args[f].in] = <<f, "in">>
  BY <1>1, <1>3 DEF IInv, WorkerInv, InPlace, FilesInv, ItemInv
<1> SUFFICES \E l : /\ wpc' = [wpc EXCEPT ![w] = l]
                    /\ Tried(f)' = Tried(f) => WorkItems(w, f)'
  BY <1>1, <1>2, QuietStep
<1>5. CASE ReadArgs(w)
  <2>1. Tried(f) = 0 .. 0 /\ offset[f] = 0
    BY <1>3, <1>5 DEF ReadArgs, WorkItems
  <2>2. Solved(f, 0)'
    <3>1. Len(content[f].eqs) \in Nat
      BY <1>3, SolvedOfCounts
    <3> QED
      BY <1>2, <3>1 DEF Solved
  <2>3. CASE wpc' = [wpc EXCEPT ![w] = "loop"]
    BY <1>2, <1>4, <2>1, <2>2, <2>3 DEF WorkItems
  <2>4. CASE wpc' = [wpc EXCEPT ![w] = "close"] /\ f \in failed'
    BY <1>4, <2>4 DEF WorkItems
  <2> QED
    BY <1>1, <1>5, <2>3, <2>4 DEF ReadArgs
<1>6. CASE NoEquations(w) \/ ReadEnds(w)
  <2>1. /\ wpc[w] = "loop" /\ wpc' = [wpc EXCEPT ![w] = "close"]
        /\ Tried(f) = 0 .. offset[f] /\ Solved(f, offset[f])
    BY <1>3, <1>6 DEF NoEquations, ReadEnds, AfterEnd, WorkItems
  <2>2. offset[f] = Len(content[f].eqs) \/ Narrow(content[f].count) <= 0
    <3>1. CASE NoEquations(w)
      <4>1. content[f].count \in Int
        BY <1>3, FilesAssumption
      <4>2. Narrow(content[f].count) \in Int
        BY <4>1, NarrowFits, FilesAssumption
      <4>3. ~(local[w].num_equations > 0)
        BY <3>1 DEF NoEquations, MoreEquations
      <4> QED
        BY <1>4, <2>1, <4>2, <4>3
    <3>2. CASE ReadEnds(w)
      BY <1>3, <1>4, <2>1, <3>2 DEF ReadEnds, Target
    <3> QED
      BY <1>6, <3>1, <3>2
  <2>3. offset[f] = SolvedOf[content[f]]
    BY <1>3, <2>1, <2>2, SolvedBounds
  <2> QED
    BY <1>2, <1>4, <2>1, <2>3 DEF WorkItems
<1>7. CASE ReadFails(w)
  BY <1>1, <1>4, <1>7 DEF ReadFails, WorkItems
<1>8. CASE Close(w)
  BY <1>2, <1>3, <1>4, <1>8 DEF Close, WorkItems
<1> QED
  BY <1>5, <1>6, <1>7, <1>8

(* The next equation: it is solved if it is solvable, and all before it    *)
(* were; if not, the file has all its solutions.                           *)
LEMMA ReadItemInv ==
  ASSUME IInv, ItemInv, NEW w \in Workers, ReadEquation(w)
  PROVE  ItemInv'
<1> USE DEF At, mainVars, poolVars, history
<1>1. PICK f : f = busy[w]
  OBVIOUS
<1>2. /\ f # None /\ wpc[w] = "loop" /\ local[w].num_equations > 0
      /\ UNCHANGED <<poolVars, mainVars, content, output, gaps, failed>>
  BY <1>1 DEF ReadEquation, MoreEquations
<1>3. /\ f \in Files /\ f \in Jobs /\ content[f] \in Contents
      /\ FileItems(f) /\ offset \in [Files -> Nat]
      /\ equation \in [Workers -> Names \cup {None}]
      /\ Tried(f) = 0 .. offset[f] /\ Solved(f, offset[f])
  BY <1>1, <1>2, FileOfBusy DEF ItemInv, WorkItems
<1>4. /\ wpc \in [Workers -> WorkerLabels]
      /\ local[w] = args[f] /\ args[f] \in Args
      /\ args[f].num_equations = Narrow(content[f].count)
      /\ fds[args[f].in] = <<f, "in">>
  BY <1>1, <1>2, <1>3 DEF IInv, WorkerInv, InPlace, FilesInv, ItemInv
<1> PICK k \in Nat : k = offset[f]
  BY <1>3
<1> PICK e : e = content[f].eqs[k + 1]
  OBVIOUS
<1>5. Target(local[w].in, "in") = {f}
  BY <1>3, <1>4 DEF Target
<1>6. /\ k < Len(content[f].eqs)
      /\ offset' = [offset EXCEPT ![f] = k + 1]
      /\ equation' = [equation EXCEPT ![w] = <<f, k + 1>>]
      /\ wpc' = [wpc EXCEPT ![w] = IF solve_func(e).err = 0
                                   THEN "write" ELSE "close"]
  <2>1. /\ k < Len(content[f].eqs)
        /\ offset' = [offset EXCEPT ![f] = @ + 1]
        /\ equation' = [equation EXCEPT ![w] = <<f, offset'[f]>>]
        /\ wpc' = [wpc EXCEPT ![w] = IF solve_func(Named(equation'[w])).err = 0
                                     THEN "write" ELSE "close"]
    BY <1>5 DEF ReadEquation, AfterUnsolvable
  <2>2. offset' = [offset EXCEPT ![f] = k + 1] /\ offset'[f] = k + 1
    BY <1>3, <2>1
  <2>3. equation'[w] = <<f, k + 1>>
    BY <1>3, <2>1, <2>2
  <2>4. Named(equation'[w]) = e
    BY <2>3 DEF Named
  <2> QED
    BY <2>1, <2>2, <2>4
<1>7. /\ <<f, k + 1>> \in Names /\ e \in Equation
      /\ Narrow(content[f].count) > 0
  BY <1>2, <1>3, <1>4, <1>6, SolvedOfCounts DEF Names
<1>8. solve_func(e).err = 0 <=> Solves(e)
  BY <1>7, SolvesTheSolvable
<1>9. \A g \in Files : output'[g] = output[g] /\ Missing(g)' = Missing(g)
  BY <1>2 DEF Missing
<1>10. Tried(f)' = 0 .. k /\ Ordered(f)'
  BY <1>3, <1>9, ItemsStay DEF FileItems
<1>11. k <= SolvedOf[content[f]] /\ SolvedOf[content[f]] \in Nat
  BY <1>3, SolvedBounds, SolvedOfCounts
<1>12. WorkItems(w, f)'
  <2>1. offset'[f] = k + 1 /\ equation'[w] = <<f, k + 1>>
    BY <1>3, <1>6
  <2>2. CASE Solves(e)
    <3>1. Solved(f, k + 1)
      BY <1>3, <1>6, <1>7, <2>2, OneMoreSolved
    <3>2. Solved(f, k + 1)'
      BY <1>2, <3>1 DEF Solved
    <3>3. wpc'[w] = "write"
      BY <1>4, <1>6, <1>8, <2>2
    <3> QED
      BY <1>7, <1>10, <2>1, <3>2, <3>3 DEF WorkItems
  <2>3. CASE ~Solves(e)
    <3>1. k = SolvedOf[content[f]]
      BY <1>3, <2>3, SolvedBounds
    <3>2. wpc'[w] = "close"
      BY <1>4, <1>6, <1>8, <2>3
    <3> QED
      BY <1>2, <1>10, <3>1, <3>2 DEF WorkItems
  <2> QED
    BY <2>2, <2>3
<1>13. /\ k \in -1 .. SolvedOf[content[f]]
       /\ DOMAIN output' = Files /\ gaps' \subseteq Names
       /\ offset' \in [Files -> Nat]
       /\ equation' \in [Workers -> Names \cup {None}]
       /\ \A g \in Files : g # f => offset'[g] = offset[g]
       /\ \A v \in Workers : v # w => UNCHANGED <<wpc[v], equation[v]>>
  BY <1>2, <1>3, <1>4, <1>6, <1>7, <1>11 DEF ItemInv
<1> QED
  BY <1>1, <1>2, <1>9, <1>10, <1>12, <1>13, BusyStep

(* The solution is written to the worker's own file, as its next item, or  *)
(* its place is missing from now on.                                       *)
LEMMA WriteItemInv ==
  ASSUME IInv, ItemInv, NEW w \in Workers, WriteSolution(w) \/ WriteFails(w)
  PROVE  ItemInv'
<1> USE DEF At, mainVars, poolVars, history
<1>1. PICK f : f = busy[w]
  OBVIOUS
<1>2. /\ f # None /\ wpc[w] = "write" /\ wpc' = [wpc EXCEPT ![w] = "loop"]
      /\ UNCHANGED <<poolVars, mainVars, content, equation, offset, failed>>
  BY <1>1 DEF WriteSolution, WriteFails, AfterWriteError
<1>3. /\ f \in Files /\ f \in Jobs /\ content[f] \in Contents
      /\ offset \in [Files -> Nat]
      /\ equation \in [Workers -> Names \cup {None}]
      /\ offset[f] > 0 /\ equation[w] = <<f, offset[f]>>
      /\ Tried(f) = 0 .. offset[f] - 1 /\ Solved(f, offset[f])
  BY <1>1, <1>2, FileOfBusy DEF ItemInv, WorkItems
<1>4. /\ wpc \in [Workers -> WorkerLabels]
      /\ local[w] = args[f] /\ args[f] \in Args
      /\ fds[args[f].out] = <<f, "out">>
  BY <1>1, <1>2, <1>3 DEF IInv, WorkerInv, InPlace, FilesInv
<1>5. PICK k \in Nat : k = offset[f]
  BY <1>3
<1>6. Target(local[w].out, "out") = {f}
  BY <1>3, <1>4 DEF Target
<1>7. \/ Write(f, <<f, k>>) /\ UNCHANGED gaps
      \/ WriteError(f, <<f, k>>)
  BY <1>3, <1>5, <1>6 DEF WriteSolution, WriteFails
<1>8. /\ Ordered(f)' /\ Tried(f)' = 0 .. k
      /\ \A g \in Files : g # f =>
           output'[g] = output[g] /\ Missing(g)' = Missing(g)
      /\ DOMAIN output' = Files /\ gaps' \subseteq Names
  BY <1>3, <1>5, <1>7, ItemTried
<1>9. WorkItems(w, f)'
  <2>1. Solved(f, k)' /\ offset'[f] = k /\ wpc'[w] = "loop"
    BY <1>2, <1>3, <1>4, <1>5 DEF Solved
  <2> QED
    BY <1>8, <2>1 DEF WorkItems
<1>10. k \in -1 .. SolvedOf[content[f]]
  BY <1>3, <1>5, SolvedBounds, SolvedOfCounts
<1>11. /\ offset' \in [Files -> Nat]
       /\ equation' \in [Workers -> Names \cup {None}]
       /\ \A g \in Files : offset'[g] = offset[g]
       /\ \A v \in Workers : v # w => UNCHANGED <<wpc[v], equation[v]>>
       /\ failed \subseteq failed'
  BY <1>2, <1>3, <1>4
<1> QED
  BY <1>1, <1>2, <1>8, <1>9, <1>10, <1>11, BusyStep

LEMMA StartItemInv ==
  ASSUME IInv, ItemInv, NEW w \in Workers, Start(w)
  PROVE  ItemInv'
<1> USE DEF mainVars
<1>1. /\ Jobs' = Jobs /\ busy[w] = None
      /\ Head(pending) \in Files
      /\ busy' = [busy EXCEPT ![w] = Head(pending)]
      /\ Range(pending) = {Head(pending)} \cup Range(pending')
      /\ finished' = finished /\ PoolInv /\ PoolInv'
  BY PoolStarts DEF Start, IInv
<1>2. /\ wpc' = [wpc EXCEPT ![w] = "start"]
      /\ UNCHANGED <<mainVars, content, offset, equation, output, gaps, failed>>
  BY DEF Start, history
<1>3. PICK f \in Files : f = Head(pending)
  BY <1>1
<1>4. /\ busy'[w] = f /\ wpc'[w] = "start"
      /\ \A v \in Workers : v # w => UNCHANGED <<busy[v], wpc[v], equation[v]>>
  BY <1>1, <1>2, <1>3 DEF IInv, PoolInv, WorkerInv
<1>5. f \notin Range(pending') /\ f \notin finished
      /\ \A v \in Workers : v # w => busy[v] # f
  <2>1. f # None
    BY NoneIsNoFile
  <2> QED
    BY <1>1, <1>4, <2>1 DEF PoolInv, Apart
<1>6. Submitted' = Submitted
  BY <1>1, <1>2 DEF Submitted
<1>7. \A g \in Files : /\ output'[g] = output[g] /\ Missing(g)' = Missing(g)
                       /\ offset'[g] = offset[g]
  BY <1>2 DEF Missing
<1>8. /\ FileItems(f) /\ Tried(f)' = Tried(f) /\ Ordered(f)'
      /\ Tried(f) = 0 .. 0 /\ offset[f] = 0
  <2>1. FileItems(f) /\ Ready(f)
    BY <1>1, <1>3 DEF ItemInv, Ready
  <2> QED
    BY <1>7, <2>1, ItemsStay DEF FileItems
<1>9. FileItems(f)'
  <2>1. ~Untouched(f)'
    BY <1>1, <1>3 DEF Untouched, Submitted, Jobs
  <2> QED
    BY <1>1, <1>2, <1>5, <1>8, <2>1 DEF FileItems
<1>10. WorkItems(w, f)'
  BY <1>2, <1>4, <1>8 DEF WorkItems
<1>11. /\ DOMAIN output' = Files /\ gaps' \subseteq Names
       /\ offset' \in [Files -> Nat]
       /\ equation' \in [Workers -> Names \cup {None}]
       /\ \A g \in Jobs' : args'[g].num_equations = Narrow(content[g].count)
  BY <1>1, <1>2 DEF ItemInv
<1> QED
  BY <1>1, <1>2, <1>4, <1>5, <1>6, <1>7, <1>9, <1>10, <1>11, OneWorker

(* The job of a file that was not given up is finished with all its items. *)
LEMMA ReturnItemInv ==
  ASSUME IInv, ItemInv, NEW w \in Workers, Return(w)
  PROVE  ItemInv'
<1> USE DEF At
<1>1. PICK f : f = busy[w]
  OBVIOUS
<1>2. /\ f # None /\ wpc[w] = "return" /\ wpc' = [wpc EXCEPT ![w] = "start"]
      /\ args' = [args EXCEPT ![f] = None]
      /\ equation' = [equation EXCEPT ![w] = None]
      /\ UNCHANGED <<mpc, entry, lost, offset, content, output, gaps, failed>>
  BY <1>1 DEF Return, history
<1>3. /\ f \in Files /\ content[f] \in Contents /\ ~Untouched(f) /\ ~Ready(f)
      /\ \A v \in Workers : v # w => busy[v] # f
      /\ FileItems(f) /\ WorkItems(w, f)
  BY <1>1, <1>2, FileOfBusy DEF ItemInv
<1>4. /\ f \in Jobs /\ Jobs' = Jobs \ {f}
      /\ busy' = [busy EXCEPT ![w] = None]
      /\ finished' = finished \cup {f} /\ pending' = pending
  BY <1>1, PoolFinishes DEF Return, IInv
<1>5. Submitted' = Submitted
  BY <1>2, <1>4 DEF Submitted
<1>6. /\ busy'[w] = None
      /\ \A v \in Workers : v # w => UNCHANGED <<busy[v], wpc[v], equation[v]>>
  BY <1>2, <1>4 DEF IInv, PoolInv, WorkerInv, ItemInv
<1>7. \A g \in Files : /\ output'[g] = output[g] /\ Missing(g)' = Missing(g)
                       /\ offset'[g] = offset[g]
  BY <1>2 DEF Missing
<1>8. Tried(f)' = Tried(f) /\ Ordered(f)'
  BY <1>3, <1>7, ItemsStay DEF FileItems
<1>9. FileItems(f)'
  <2>1. ~Untouched(f)' /\ ~Ready(f)'
    BY <1>2, <1>3, <1>4, <1>5 DEF Untouched, Ready
  <2>2. f \notin failed => Tried(f) = 0 .. SolvedOf[content[f]]
    BY <1>2, <1>3 DEF WorkItems
  <2> QED
    BY <1>2, <1>3, <1>8, <2>1, <2>2 DEF FileItems
<1>10. /\ DOMAIN output' = Files /\ gaps' \subseteq Names
       /\ offset' \in [Files -> Nat]
       /\ equation' \in [Workers -> Names \cup {None}]
  BY <1>2 DEF ItemInv
<1>11. \A g \in Jobs' : args'[g].num_equations = Narrow(content[g].count)
  BY <1>2, <1>4, InHandAreFiles DEF ItemInv, IInv, FilesInv
<1> QED
  BY <1>2, <1>3, <1>4, <1>5, <1>6, <1>7, <1>9, <1>10, <1>11, OneWorker

LEMMA StepItemInv == IInv /\ ItemInv /\ [Next]_vars => ItemInv'
<1> SUFFICES ASSUME IInv, ItemInv, [Next]_vars PROVE ItemInv'
  OBVIOUS
<1>1. CASE MainStep
  BY <1>1, MainItemInv, SubmitItemInv, CreateFileItemInv DEF MainStep
<1>2. CASE \E w \in Workers : WorkerStep(w)
  <2>1. PICK w \in Workers : WorkerStep(w)
    BY <1>2
  <2> QED
    BY <2>1, QuietItemInv, ReadItemInv, WriteItemInv, StartItemInv, ReturnItemInv
    DEF WorkerStep
<1>3. CASE Signal \/ Quiet \/ UNCHANGED vars
  BY <1>3, SignalItemInv
<1> QED
  BY <1>1, <1>2, <1>3 DEF Next

LEMMA ItemInvariant == Spec => []ItemInv
BY CalcInvariant, InitItemInv, StepItemInv, PTL DEF Spec

(* The loop gets to each of the equations that a regular file announces.   *)
LEMMA RegularIsSolved ==
  ASSUME NEW c \in Regular
  PROVE  c \in Contents /\ c.count \in Nat /\ SolvedOf[c] = c.count
<1>1. /\ c \in Contents /\ c.count = Len(c.eqs) /\ c.count <= IntMax
      /\ c.count \in Int /\ c.count > 0 /\ IntMax \in Nat
  BY FilesAssumption DEF Regular
<1>2. Narrow(c.count) = c.count
  BY <1>1, NarrowKeeps
<1>3. \A j \in 1 .. Len(c.eqs) : Solves(c.eqs[j])
  <2>1. DOMAIN c.eqs = 1 .. Len(c.eqs)
    BY <1>1, FilesAssumption, LenProperties
  <2> QED
    BY <2>1 DEF Regular, Solves
<1>4. /\ SolvedOf[c] \in 0 .. Len(c.eqs)
      /\ \A k \in 0 .. Len(c.eqs) :
           (\A j \in 1 .. k : Solves(c.eqs[j])) <=> k <= SolvedOf[c]
  BY <1>1, <1>2, SolvedOfCounts
<1>5. Len(c.eqs) <= SolvedOf[c]
  BY <1>1, <1>3, <1>4
<1> QED
  BY <1>1, <1>4, <1>5

(* However many workers write at once, a solved file has its own items in  *)
(* their order, none twice; up to the last exactly those are missing whose *)
(* write failed; and when the job of a regular file is done and was not    *)
(* given up, there is one for each equation announced, but for those.      *)
THEOREM CalcAnswersAreWhole == Spec => []AnswersAreWhole
<1>1. IInv /\ ItemInv => AnswersAreWhole
  <2> SUFFICES ASSUME IInv, ItemInv, NEW f \in Files
               PROVE
      /\ \A p \in Whole(f) : /\ output[f][p].id[1] = f
                             /\ \A q \in Whole(f) :
                                  p < q => output[f][p].id[2] < output[f][q].id[2]
      /\ \A j \in Has(f) : \A i \in 0 .. j : i \in Has(f) <=> <<f, i>> \notin gaps
      /\ content[f] \in Regular /\ f \in finished \ failed =>
           Has(f) \ {-1} = {i \in 0 .. content[f].count : <<f, i>> \notin gaps}
    BY DEF AnswersAreWhole
  <2>1. FileItems(f) /\ gaps \subseteq Names
    BY DEF ItemInv
  <2>2. PICK k \in -1 .. SolvedOf[content[f]] : Tried(f) = 0 .. k
    BY <2>1 DEF FileItems
  <2>3. k \in Int
    <3>1. content[f] \in Contents
      BY DEF IInv
    <3> QED
      BY <3>1, SolvedOfCounts
  <2>4. \A p \in Whole(f) : output[f][p].id[1] = f
    BY <2>1 DEF FileItems, Ordered
  <2>5. \A i : <<f, i>> \in gaps <=> i \in Missing(f)
    BY <2>1 DEF Missing, Names
  <2>6. \A i \in Has(f) : i = -1 \/ i \in 0 .. k
    BY <2>2 DEF Tried
  <2>7. -1 \notin Missing(f) /\ Has(f) \cap Missing(f) = {}
    BY <2>1 DEF FileItems, Ordered
  <2>8. ASSUME NEW j \in Has(f), NEW i \in 0 .. j
        PROVE  i \in Has(f) <=> <<f, i>> \notin gaps
    <3>1. j \in 0 .. k
      BY <2>6
    <3>2. i \in Tried(f)
      BY <2>2, <2>3, <3>1
    <3> QED
      BY <2>5, <2>7, <3>2 DEF Tried
  <2>9. ASSUME content[f] \in Regular, f \in finished \ failed
        PROVE  Has(f) \ {-1} = {i \in 0 .. content[f].count : <<f, i>> \notin gaps}
    <3>1. Tried(f) = 0 .. content[f].count
      BY <2>1, <2>9, RegularIsSolved DEF FileItems
    <3> QED
      BY <2>5, <2>7, <3>1 DEF Tried
  <2>10. \A p, q \in Whole(f) : p < q => output[f][p].id[2] < output[f][q].id[2]
    BY <2>1 DEF FileItems, Ordered
  <2> QED
    BY <2>4, <2>8, <2>9, <2>10
<1> QED
  BY <1>1, CalcInvariant, ItemInvariant, PTL
-----------------------------------------------------------------------------
(* What the items tell.                                                    *)

\* What may stand in the solved file of f: a part of an item, a header, or
\* the solution of an equation that can be solved.
Proper(f) ==
  {Part} \cup {Item(<<f, i>>) :
     i \in {j \in -1 .. Len(content[f].eqs) : j > 0 => Solves(content[f].eqs[j])}}

ProperItems == \A f \in Files : output[f] \in Seq(Proper(f))

(* An item that is tried is proper.                                        *)
LEMMA TriedIsProper ==
  ASSUME ProperItems, ItemInv, NEW f \in Files, UNCHANGED content,
         NEW i \in -1 .. Len(content[f].eqs),
         i > 0 => Solves(content[f].eqs[i]),
         Write(f, <<f, i>>) \/ WriteError(f, <<f, i>>)
  PROVE  ProperItems'
<1>1. \A g \in Files : Proper(g)' = Proper(g)
  BY DEF Proper, Item, Named
<1>2. Item(<<f, i>>) \in Proper(f) /\ Part \in Proper(f)
  BY DEF Proper
<1>3. PICK x \in Proper(f) : output' = [output EXCEPT ![f] = Append(@, x)]
  BY <1>2 DEF Write, WriteError
<1>4. DOMAIN output = Files /\ output[f] \in Seq(Proper(f))
  BY DEF ItemInv, ProperItems
<1>5. Append(output[f], x) \in Seq(Proper(f))
  BY <1>4, AppendProperties
<1>6. output'[f] = Append(output[f], x) /\ \A g \in Files : g # f => output'[g] = output[g]
  BY <1>3, <1>4
<1> QED
  BY <1>1, <1>5, <1>6 DEF ProperItems

LEMMA InitProper == Init => ProperItems
<1> SUFFICES ASSUME Init, NEW f \in Files PROVE output[f] \in Seq(Proper(f))
  BY DEF ProperItems
<1>1. output[f] = IF f \in Earlier THEN <<Item(<<f, -1>>)>> ELSE <<>>
  BY DEF Init
<1>2. content[f] \in Contents
  BY DEF Init
<1>3. -1 \in -1 .. Len(content[f].eqs)
  BY <1>2, SolvedOfCounts
<1>4. Item(<<f, -1>>) \in Proper(f)
  BY <1>3 DEF Proper
<1> QED
  BY <1>1, <1>4

LEMMA StepProper == IInv /\ ItemInv /\ ProperItems /\ [Next]_vars => ProperItems'
<1> SUFFICES ASSUME IInv, ItemInv, ProperItems, [Next]_vars PROVE ProperItems'
  OBVIOUS
<1> USE DEF mainVars, workerVars, poolVars, history
<1>1. CASE UNCHANGED <<content, output>>
  BY <1>1 DEF ProperItems, Proper, Item, Named
<1>2. CASE CreateFile
  <2>1. /\ entry \in Files /\ content' = content
        /\ Write(entry, <<entry, 0>>) \/ WriteError(entry, <<entry, 0>>)
    BY <1>2 DEF CreateFile, IInv, EntryInv
  <2>2. 0 \in -1 .. Len(content[entry].eqs)
    BY <2>1, SolvedOfCounts DEF IInv
  <2> QED
    BY <2>1, <2>2, TriedIsProper
<1>3. ASSUME NEW w \in Workers, WriteSolution(w) \/ WriteFails(w)
      PROVE  ProperItems'
  <2>1. PICK f : f = busy[w]
    OBVIOUS
  <2>2. /\ f # None /\ wpc[w] = "write" /\ content' = content
    BY <1>3, <2>1 DEF WriteSolution, WriteFails, At
  <2>3. /\ f \in Files /\ f \in Jobs /\ content[f] \in Contents
        /\ offset[f] > 0 /\ offset[f] \in Nat /\ equation[w] = <<f, offset[f]>>
        /\ Solved(f, offset[f])
    BY <2>1, <2>2, FileOfBusy DEF ItemInv, WorkItems
  <2>4. local[w] = args[f] /\ args[f] \in Args /\ fds[args[f].out] = <<f, "out">>
    BY <2>1, <2>2, <2>3 DEF IInv, WorkerInv, InPlace, FilesInv
  <2>5. Target(local[w].out, "out") = {f}
    BY <2>3, <2>4 DEF Target
  <2>6. PICK k \in Nat : k = offset[f]
    BY <2>3
  <2>7. Write(f, <<f, k>>) \/ WriteError(f, <<f, k>>)
    BY <1>3, <2>3, <2>5, <2>6 DEF WriteSolution, WriteFails
  <2>8. k \in -1 .. Len(content[f].eqs) /\ k > 0 /\ Solves(content[f].eqs[k])
    BY <2>3, <2>6, SolvedOfCounts DEF Solved
  <2> QED
    BY <2>2, <2>3, <2>7, <2>8, TriedIsProper
<1>4. \/ UNCHANGED <<content, output>> \/ CreateFile
      \/ \E w \in Workers : WriteSolution(w) \/ WriteFails(w)
  BY DEF Next, vars, MainStep, WorkerStep, Quiet, Signal, Create, CreateFails,
         NextEntry, LastEntry, OpenInput, CheckHeader, CreateFileFails, AddJob,
         JobDropped, Stop, Shutdown, Exit, Start, ReadArgs, NoEquations,
         ReadEquation, ReadEnds, ReadFails, Close, Return
<1> QED
  BY <1>1, <1>2, <1>3, <1>4

LEMMA ProperInvariant == Spec => []ProperItems
BY CalcInvariant, ItemInvariant, InitProper, StepProper, PTL DEF Spec

(* A proper item that is whole names an equation that can be solved, and   *)
(* tells its answer; or it is a header.                                    *)
LEMMA ProperTells ==
  ASSUME IInv, NEW f \in Files, NEW x \in Proper(f)
  PROVE  /\ x \in Items \cup {Part}
         /\ x.id # None /\ x.id[2] > 0 =>
              \/ TooLarge(content[f].eqs[x.id[2]])
              \/ NumberTold(x.answer) \in AnswersOf[content[f]][x.id[2]]
<1>1. CASE x = Part
  BY <1>1 DEF Part
<1>2. CASE x # Part
  <2> DEFINE c == content[f]
  <2>1. PICK i \in -1 .. Len(c.eqs) : /\ x = Item(<<f, i>>)
                                      /\ i > 0 => Solves(c.eqs[i])
    BY <1>2 DEF Proper
  <2>2. c \in Contents
    BY DEF IInv
  <2>3. /\ Len(c.eqs) \in Nat /\ DOMAIN c.eqs = 1 .. Len(c.eqs)
        /\ \A j \in 1 .. Len(c.eqs) : c.eqs[j] \in Equation
    BY <2>2, SolvedOfCounts, FilesAssumption
  <2>4. <<f, i>> \in Names /\ i \in Int
    BY <2>3 DEF Names
  <2> HIDE DEF c
  <2>5. CASE i > 0
    <3>1. i \in 1 .. Len(c.eqs)
      BY <2>3, <2>5
    <3> DEFINE e == c.eqs[i]
    <3>2. e \in Equation /\ solve_func(e).err = 0
      BY <2>1, <2>3, <2>5, <3>1, SolvesTheSolvable
    <3>3. x = [id |-> <<f, i>>, answer |-> Solution(e)]
      BY <2>1, <2>5 DEF Item, Named, c
    <3> HIDE DEF e
    <3>4. /\ Solution(e) \in [solution : Word, solution_type : {INT, UINT}]
          /\ NumberTold(Solution(e)) \in Word \cup UWord
          /\ TooLarge(e) \/ Answers(NumberTold(Solution(e)), e)
      BY <3>2, SolutionsAnswer DEF Solution
    <3>5. AnswersOf[c][i] = {n \in Word \cup UWord : Answers(n, e)}
      BY <2>2, <2>3, <3>1 DEF AnswersOf, e
    <3> QED
      BY <2>4, <3>3, <3>4, <3>5 DEF Items, c, e
  <2>6. CASE ~(i > 0)
    <3>1. x = [id |-> <<f, i>>, answer |-> None]
      BY <2>1, <2>6 DEF Item
    <3> QED
      BY <2>4, <2>6, <3>1 DEF Items
  <2> QED
    BY <2>4, <2>5, <2>6
<1> QED
  BY <1>1, <1>2

(* The number that a reader takes from a solution is the answer to its     *)
(* equation, of whatever operator and for words of every width; but not    *)
(* for a difference of INT_MAX + 1.                                        *)
THEOREM CalcAnswersAreRight == Spec => []AnswersAreRight
<1>1. IInv /\ ProperItems => AnswersAreRight
  <2> SUFFICES ASSUME IInv, ProperItems, NEW f \in Files, NEW p \in Whole(f),
                      output[f][p].id[2] > 0,
                      ~TooLarge(content[f].eqs[output[f][p].id[2]])
               PROVE  NumberTold(output[f][p].answer)
                        \in AnswersOf[content[f]][output[f][p].id[2]]
    BY DEF AnswersAreRight
  <2>1. output[f][p] \in Proper(f) /\ output[f][p].id # None
    BY DEF ProperItems, Whole
  <2> QED
    BY <2>1, ProperTells
<1> QED
  BY <1>1, CalcInvariant, ProperInvariant, PTL

(* What no other invariant tells of the types.                             *)
CountInv == /\ phase \in {"new", "open", "closed", "gone"}
            /\ Len(pending) <= MaxJobs
            /\ flag \in 0 .. 2
            /\ failed \subseteq Files

LEMMA StepCountInv == IInv /\ CountInv /\ [Next]_vars => CountInv'
<1> SUFFICES ASSUME IInv, CountInv, [Next]_vars PROVE CountInv'
  OBVIOUS
<1> USE DEF CountInv, mainVars, workerVars, poolVars, history
<1>1. pending \in Seq(Files) /\ Len(pending) \in Nat /\ MaxJobs \in Nat
  BY FilesAssumption, LenProperties DEF IInv, PoolInv
<1>2. \A w \in Workers : busy[w] # None => busy[w] \in Files
  BY DEF IInv, PoolInv
<1>3. phase' \in {"new", "open", "closed", "gone"}
  BY DEF Next, vars, MainStep, WorkerStep, Quiet, Signal, Create, CreateFails,
         NextEntry, LastEntry, OpenInput, CheckHeader, CreateFile,
         CreateFileFails, AddJob, JobDropped, Stop, Shutdown, Exit, Start,
         ReadArgs, NoEquations, ReadEquation, ReadEnds, ReadFails,
         WriteSolution, WriteFails, Close, Return, Pool!Open, Pool!Submit,
         Pool!Start, Pool!Finish, Pool!Close, Pool!Leave
<1>4. Len(pending') <= MaxJobs
  <2>1. CASE AddJob
    <3>1. /\ Len(pending) < MaxJobs /\ pending' = Append(pending, entry)
          /\ entry \in Files
      BY <2>1 DEF AddJob, HasRoom, Pool!Submit, IInv, EntryInv
    <3>2. Len(pending') = Len(pending) + 1
      BY <1>1, <3>1, AppendProperties
    <3> QED
      BY <1>1, <3>1, <3>2
  <2>2. ASSUME NEW w \in Workers, Start(w) PROVE Len(pending') <= MaxJobs
    <3>1. pending # <<>> /\ pending' = Tail(pending)
      BY <2>2 DEF Start, Pool!Start
    <3>2. Len(pending') = Len(pending) - 1
      BY <1>1, <3>1, HeadTailProperties
    <3> QED
      BY <1>1, <3>2
  <2>3. CASE Exit
    BY <1>1, <2>3 DEF Exit, Pool!Leave
  <2>4. CASE pending' = pending
    BY <2>4
  <2>5. \/ AddJob \/ Exit \/ pending' = pending
        \/ \E w \in Workers : Start(w)
    BY DEF Next, vars, MainStep, WorkerStep, Quiet, Signal, Create, CreateFails,
           NextEntry, LastEntry, OpenInput, CheckHeader, CreateFile,
           CreateFileFails, JobDropped, Stop, Shutdown, ReadArgs, NoEquations,
           ReadEquation, ReadEnds, ReadFails, WriteSolution, WriteFails, Close,
           Return, Pool!Open, Pool!Finish, Pool!Close
  <2> QED
    BY <2>1, <2>2, <2>3, <2>4, <2>5
<1>5. flag' \in 0 .. 2
  <2>1. flag' = flag \/ flag' \in Signals
    BY DEF Next, vars, MainStep, WorkerStep, Quiet, Signal, Create, CreateFails,
           NextEntry, LastEntry, OpenInput, CheckHeader, CreateFile,
           CreateFileFails, AddJob, JobDropped, Stop, Shutdown, Exit, Start,
           ReadArgs, NoEquations, ReadEquation, ReadEnds, ReadFails,
           WriteSolution, WriteFails, Close, Return
  <2>2. \A x \in Signals : x \in 0 .. 2
    <3>1. \A x \in {1, 2} : x \in 0 .. 2
      OBVIOUS
    <3> QED
      BY ONLY <3>1, FilesAssumption
  <2> QED
    BY <2>1, <2>2
<1>6. failed' \subseteq Files
  <2>1. \/ failed' = failed
        \/ \E w \in Workers : busy[w] # None /\ failed' = failed \cup {busy[w]}
    BY DEF Next, vars, MainStep, WorkerStep, Quiet, Signal, Create, CreateFails,
           NextEntry, LastEntry, OpenInput, CheckHeader, CreateFile,
           CreateFileFails, AddJob, JobDropped, Stop, Shutdown, Exit, Start,
           ReadArgs, NoEquations, ReadEquation, ReadEnds, ReadFails,
           WriteSolution, WriteFails, Close, Return, At
  <2> QED
    BY <1>2, <2>1
<1> QED
  BY <1>3, <1>4, <1>5, <1>6

(* Every variable keeps its type, the queue its bound, and every item of a *)
(* solved file, of an earlier run and a torn one included, its shape.      *)
THEOREM CalcTypeCorrect == Spec => []TypeOK
<1>1. Init => CountInv
  BY FilesAssumption DEF Init, Pool!Init, CountInv
<1>2. Spec => []CountInv
  BY <1>1, CalcInvariant, StepCountInv, PTL DEF Spec
<1>3. IInv /\ ItemInv /\ ProperItems /\ CountInv => TypeOK
  <2> SUFFICES ASSUME IInv, ItemInv, ProperItems, CountInv PROVE TypeOK
    OBVIOUS
  <2>1. \A f \in Files : output[f] \in Seq(Items \cup {Part})
    <3> TAKE f \in Files
    <3>1. Proper(f) \subseteq Items \cup {Part}
      BY ProperTells
    <3> QED
      BY <3>1, SeqMonotonic DEF ProperItems
  <2> QED
    BY <2>1 DEF TypeOK, IInv, PoolInv, EntryInv, FilesInv, WorkerInv, ItemInv,
                CountInv
<1> QED
  BY <1>2, <1>3, CalcInvariant, ItemInvariant, ProperInvariant, PTL
=============================================================================
