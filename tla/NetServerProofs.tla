--------------------------- MODULE NetServerProofs ---------------------------
(***************************************************************************)
(* Proofs about NetServer.  For any clients: every variable keeps its      *)
(* type, and a signal lets one more connection in at most.  For a single   *)
(* client, as many workers as leave their descriptors within an int8_t,    *)
(* and any number of connections: the con_args_t that the listener shares  *)
(* with all workers does no harm, no descriptor is truncated and none is   *)
(* lost.                                                                   *)
(***************************************************************************)
EXTENDS NetServer, JobLemmas

(* What the listener has accepted is a connection.                         *)
TypeInv == /\ TypeOK
           /\ lpc \in {"assign", "addJob"} => accepted \in Conns

(* accept returns once more after the flag is set, and then it is tested.  *)
LateInv == /\ late = {} \/ \E c \in Conns : late = {c}
           /\ late # {} => /\ flag
                           /\ lpc \notin {"create", "setup", "accept", "blocked"}
-----------------------------------------------------------------------------
(* The assumptions for what does not hold in general: one client, and the  *)
(* descriptors up to the listening socket, one for each worker and another *)
(* fit into an int8_t.                                                     *)
OneClient == \A j, k \in Clients : j = k

FewWorkers == /\ IsFiniteSet(Workers)
              /\ parentfd + Cardinality(Workers) + 1 <= Int8Max

\* Where connections are that the process knows.
Known == Jobs \cup finished \cup leaked

(* The client waits for the reply to its last connection, so all others    *)
(* are replied, and the last is in one place.                              *)
ClientInv ==
  /\ \A k \in Clients : waits[k] # None => waits[k] = opened
  /\ \A c \in 1 .. opened :
       c \in replied \/ (c = opened /\ \E k \in Clients : waits[k] = c)
  /\ Known \cup replied \cup (Range(owner) \ {None}) \subseteq 1 .. opened
  /\ leaked \cap replied = {}
  /\ backlog # <<>> => /\ backlog = <<opened>> /\ opened > 0
                       /\ opened \notin Known \cup replied \cup Range(owner)

(* What the listener has accepted is the last connection.                  *)
AcceptedInv ==
  lpc \in {"assign", "addJob"} =>
    /\ con \in Fds /\ con <= Int8Max
    /\ accepted = opened /\ owner[con] = accepted
    /\ accepted \notin Known \cup replied
    /\ lpc = "addJob" => args = con

(* A descriptor means one connection, and a connection that is open has a  *)
(* job that will close it.                                                 *)
OwnerInv ==
  /\ \A d, e \in Fds : owner[d] # None /\ owner[d] = owner[e] => d = e
  /\ \A d \in Fds : owner[d] # None =>
       \/ owner[d] \in Jobs \cup leaked
       \/ lpc \in {"assign", "addJob"} /\ con = d

\* The shared argument is still that of connection c.
ArgsOf(c) == args # None => args \in Fds /\ owner[args] = c

(* A worker serves the connection of its job, from its start to the close. *)
Serves(w, c) ==
  CASE wpc[w] = "start" -> c \notin replied \cup leaked /\ ArgsOf(c)
    [] wpc[w] \in {"header", "stream"} ->
         c \notin replied \cup leaked /\ sock[w] \in Fds /\ owner[sock[w]] = c
    [] wpc[w] = "close" ->
         c \notin leaked /\ sock[w] \in Fds /\ owner[sock[w]] = c
    [] OTHER -> c \in leaked \/ \A d \in Fds : owner[d] # c

JobsInv ==
  /\ Apart(pending, busy, finished, None)
  /\ \A c \in Range(pending) : c \notin replied \cup leaked /\ ArgsOf(c)
  /\ \A w \in Workers : busy[w] # None => Serves(w, busy[w])
  /\ \A c \in Conns : touched[c] \subseteq {c}

Orderly == ClientInv /\ AcceptedInv /\ OwnerInv /\ JobsInv

(* Only main's last steps, behind the listener, come with freed arguments. *)
FreedInv == /\ args = None => lpc \in {"destroy", "exited"}
            /\ undefined => args = None

OneInv == TypeInv /\ FreedInv /\ (~undefined => Orderly)
-----------------------------------------------------------------------------
(* What the calls of the pool do to the jobs.                              *)
LEMMA JobsInHand == Jobs = InHand(pending, busy, None)
BY DEF Jobs, InHand

LEMMA NoneIsNoConn == None \notin Conns /\ None \notin Int8
BY ServerAssumption

(* accept takes a descriptor that means nothing, and none below is free.   *)
LEMMA LowestIsFree ==
  ASSUME FreeFds # {}
  PROVE  /\ Min(FreeFds) \in Fds /\ owner[Min(FreeFds)] = None
         /\ \A d \in Fds : d < Min(FreeFds) => owner[d] # None
<1>1. FreeFds \subseteq Fds /\ Fds \subseteq Nat
  BY ServerAssumption DEF FreeFds, Fds, parentfd
<1>2. Min(FreeFds) \in FreeFds /\ \A d \in FreeFds : Min(FreeFds) <= d
  BY <1>1, MinIsSmallest
<1>3. ASSUME NEW d \in Fds, d < Min(FreeFds) PROVE owner[d] # None
  <2>1. d \in Nat /\ Min(FreeFds) \in Nat
    BY <1>1, <1>2
  <2>2. d \notin FreeFds
    BY <1>2, <1>3, <2>1
  <2> QED
    BY <2>2 DEF FreeFds
<1> QED
  BY <1>1, <1>2, <1>3 DEF FreeFds

LEMMA NarrowFits ==
  ASSUME NEW n \in Int
  PROVE  /\ Narrow(n) \in Int8
         /\ n \in 1 .. Int8Max => Narrow(n) = n
<1> DEFINE m == 2 * (Int8Max + 1)
           k == n + Int8Max + 1
<1>1. m \in Nat /\ m > 0 /\ k \in Int /\ Int8Max \in Nat
  BY ServerAssumption
<1>2. k % m \in 0 .. m - 1
  <2> HIDE DEF m, k
  <2> QED
    BY <1>1
<1>3. n \in 1 .. Int8Max => k % m = k
  <2>1. n \in 1 .. Int8Max => k \in 0 .. m - 1
    BY <1>1
  <2> HIDE DEF m, k
  <2> QED
    BY <1>1, <2>1
<1> QED
  BY <1>1, <1>2, <1>3 DEF Narrow, Int8
-----------------------------------------------------------------------------
LEMMA InitTypeInv == Init => TypeInv
<1> SUFFICES ASSUME Init PROVE TypeInv
  OBVIOUS
<1>1. pending = <<>> /\ busy = [w \in Workers |-> None] /\ finished = {}
      /\ phase = "new"
  BY DEF Init, Pool!Init
<1>2. <<>> \in Seq(Conns) /\ Len(<<>>) = 0
  OBVIOUS
<1>3. 0 \in Int8 /\ 0 \in 0 .. MaxSignals /\ 0 \in 0 .. MaxConns
      /\ 0 <= MaxJobs /\ 0 <= Backlog
  BY ServerAssumption DEF Int8
<1>4. /\ pending \in Seq(Conns) /\ Len(pending) <= MaxJobs
      /\ backlog \in Seq(Conns) /\ Len(backlog) <= Backlog
  BY <1>1, <1>2, <1>3 DEF Init
<1> QED
  BY <1>1, <1>3, <1>4
  DEF Init, TypeInv, TypeOK, ListenerLabels, WorkerLabels

LEMMA ListenerTypes ==
  ASSUME TypeInv, ListenerStep \/ Signal \/ Quiet \/ UNCHANGED vars
  PROVE  TypeInv'
<1> USE DEF TypeInv, TypeOK, ListenerLabels, poolVars, listenerVars, workerVars,
            clientVars
<1>1. CASE Create \/ CreateFails \/ Setup \/ CallAccept \/ AcceptFails \/ TestFlag
  BY <1>1 DEF Create, Pool!Open, CreateFails, Setup, CallAccept, AcceptFails,
              TestFlag
<1>2. CASE Accept
  <2>1. Min(FreeFds) \in Fds
    BY <1>2, LowestIsFree DEF Accept
  <2>2. /\ Head(backlog) \in Conns /\ Tail(backlog) \in Seq(Conns)
        /\ Len(Tail(backlog)) <= Backlog
    BY <1>2, ServerAssumption DEF Accept
  <2> QED
    BY <1>2, <2>1, <2>2 DEF Accept
<1>3. CASE Assign
  <2>1. con \in Int
    BY ServerAssumption DEF Fds, parentfd
  <2> QED
    BY <1>3, <2>1, NarrowFits DEF Assign
<1>4. CASE AddJob
  <2>1. pending' = Append(pending, accepted) /\ Len(pending) < MaxJobs
        /\ UNCHANGED <<phase, busy, finished>> /\ accepted \in Conns
    BY <1>4 DEF AddJob, Pool!Submit
  <2>2. pending' \in Seq(Conns) /\ Len(pending') <= MaxJobs
    BY <2>1, ServerAssumption
  <2> QED
    BY <1>4, <2>1, <2>2 DEF AddJob
<1>5. CASE JobRefused
  BY <1>5 DEF JobRefused
<1>6. CASE FreeArgs
  BY <1>6 DEF FreeArgs
<1>7. CASE Shutdown
  BY <1>7 DEF Shutdown, Pool!Close
<1>8. CASE Exit
  <2>1. phase' = "gone" /\ pending' = <<>> /\ UNCHANGED <<busy, finished>>
    BY <1>8 DEF Exit, Pool!Leave
  <2>2. pending' \in Seq(Conns) /\ Len(pending') <= MaxJobs
    BY <2>1, ServerAssumption
  <2> QED
    BY <1>8, <2>1, <2>2 DEF Exit
<1>9. CASE Signal
  BY <1>9, ServerAssumption DEF Signal
<1>10. CASE Quiet \/ UNCHANGED vars
  BY <1>10 DEF Quiet, vars
<1> QED
  BY <1>1, <1>2, <1>3, <1>4, <1>5, <1>6, <1>7, <1>8, <1>9, <1>10
  DEF ListenerStep

LEMMA TargetIsConn ==
  ASSUME TypeOK, NEW w \in Workers
  PROVE  Target(w) \in Conns \cup {None}
BY DEF TypeOK, Target

LEMMA TouchedTypes ==
  ASSUME TypeOK, NEW w \in Workers, busy[w] # None, Touch(w)
  PROVE  touched' \in [Conns -> SUBSET Conns] /\ Answered(w) \subseteq Conns
<1>1. busy[w] \in Conns /\ touched \in [Conns -> SUBSET Conns]
      /\ replied \subseteq Conns
  BY DEF TypeOK
<1>2. Target(w) \in Conns \cup {None}
  BY TargetIsConn
<1> QED
  BY <1>1, <1>2 DEF Touch, Answered

LEMMA WorkerTypes ==
  ASSUME TypeInv, NEW w \in Workers, WorkerStep(w)
  PROVE  TypeInv'
<1> USE DEF TypeInv, TypeOK, WorkerLabels, poolVars, listenerVars, workerVars,
            clientVars, At
<1>1. CASE Start(w)
  <2>1. /\ pending # <<>> /\ pending' = Tail(pending)
        /\ busy' = [busy EXCEPT ![w] = Head(pending)]
        /\ UNCHANGED <<phase, finished>>
    BY <1>1 DEF Start, Pool!Start
  <2>2. /\ Head(pending) \in Conns /\ pending' \in Seq(Conns)
        /\ Len(pending') <= MaxJobs
    BY <2>1, ServerAssumption
  <2> QED
    BY <1>1, <2>1, <2>2 DEF Start
<1>2. CASE ReadArgs(w)
  <2>1. \E s \in Int8 : sock' = [sock EXCEPT ![w] = s]
    BY <1>2 DEF ReadArgs, ReadSocket
  <2>2. undefined' \in BOOLEAN
    BY <1>2 DEF ReadArgs
  <2>3. wpc' \in [Workers -> {"start", "header", "stream", "close", "return"}]
    BY <1>2 DEF ReadArgs
  <2>4. leaked' \subseteq Conns
    BY <1>2 DEF ReadArgs
  <2> QED
    BY <1>2, <2>1, <2>2, <2>3, <2>4 DEF ReadArgs
<1>3. CASE BadHeader(w) \/ GoodHeader(w) \/ Stream(w) \/ NoReply(w)
  <2>1. touched' \in [Conns -> SUBSET Conns] /\ Answered(w) \subseteq Conns
    BY <1>3, TouchedTypes DEF BadHeader, GoodHeader, Stream, NoReply
  <2> QED
    BY <1>3, <2>1 DEF BadHeader, GoodHeader, Stream, NoReply, AfterError
<1>4. CASE CloseSocket(w)
  <2>1. owner' \in [Fds -> Conns \cup {None}]
    BY <1>4 DEF CloseSocket, Closed
  <2> QED
    BY <1>4, <2>1 DEF CloseSocket
<1>5. CASE Return(w)
  BY <1>5 DEF Return, Pool!Finish
<1> QED
  BY <1>1, <1>2, <1>3, <1>4, <1>5 DEF WorkerStep

LEMMA ClientTypes ==
  ASSUME TypeInv, NEW k \in Clients, Connect(k) \/ GetReply(k)
  PROVE  TypeInv'
<1> USE DEF TypeInv, TypeOK, poolVars, listenerVars, workerVars
<1>1. CASE Connect(k)
  <2>1. opened' = opened + 1 /\ opened' \in Conns /\ opened' \in 0 .. MaxConns
    BY <1>1, ServerAssumption DEF Connect, Conns
  <2>2. backlog' \in Seq(Conns) /\ Len(backlog') <= Backlog
    BY <1>1, <2>1, ServerAssumption DEF Connect
  <2> QED
    BY <1>1, <2>1, <2>2 DEF Connect
<1>2. CASE GetReply(k)
  BY <1>2 DEF GetReply
<1> QED
  BY <1>1, <1>2

LEMMA StepTypeInv == TypeInv /\ [Next]_vars => TypeInv'
<1> SUFFICES ASSUME TypeInv, [Next]_vars PROVE TypeInv'
  OBVIOUS
<1> QED
  BY ListenerTypes, WorkerTypes, ClientTypes DEF Next

LEMMA ServerTypes == Spec => []TypeInv
BY InitTypeInv, StepTypeInv, PTL DEF Spec

(* Whatever the clients do and whatever descriptor a worker takes for its  *)
(* own, every variable keeps its type, and only connections are answered.  *)
THEOREM ServerTypeCorrect == Spec => []TypeOK
<1>1. TypeInv => TypeOK
  BY DEF TypeInv
<1> QED
  BY <1>1, ServerTypes, PTL

(* After a signal at most one more connection is accepted: the flag is     *)
(* tested between any two calls of accept.                                 *)
THEOREM OneMoreAfterSignal == Spec => []AtMostOneAfterSignal
<1>1. Init => LateInv
  BY DEF Init, LateInv
<1>2. TypeInv /\ LateInv /\ [Next]_vars => LateInv'
  <2> SUFFICES ASSUME TypeInv, LateInv, [Next]_vars PROVE LateInv'
    OBVIOUS
  <2> USE DEF LateInv, listenerVars
  <2>1. CASE ListenerStep
    <3>1. CASE Accept
      <4>1. Head(backlog) \in Conns
        BY <3>1 DEF Accept, TypeInv, TypeOK
      <4> QED
        BY <3>1, <4>1 DEF Accept
    <3>2. CASE TestFlag
      BY <3>2 DEF TestFlag, LoopAgain, TypeInv, TypeOK
    <3> QED
      BY <2>1, <3>1, <3>2
      DEF ListenerStep, Create, CreateFails, Setup, CallAccept, AcceptFails,
          Assign, AddJob, JobRefused, FreeArgs, Shutdown, Exit
  <2>2. CASE Signal
    BY <2>2 DEF Signal
  <2>3. CASE \E w \in Workers : WorkerStep(w)
    BY <2>3 DEF WorkerStep, Start, ReadArgs, BadHeader, GoodHeader, Stream,
                NoReply, CloseSocket, Return
  <2>4. CASE \E k \in Clients : Connect(k) \/ GetReply(k)
    BY <2>4 DEF Connect, GetReply
  <2>5. CASE Quiet \/ UNCHANGED vars
    BY <2>5 DEF Quiet, vars
  <2> QED
    BY <2>1, <2>2, <2>3, <2>4, <2>5 DEF Next
<1>3. LateInv => AtMostOneAfterSignal
  <2>1. Cardinality({}) = 0
    BY FS_EmptySet
  <2>2. \A c : Cardinality({c}) = 1
    BY FS_Singleton
  <2>3. ASSUME LateInv PROVE Cardinality(late) = 0 \/ Cardinality(late) = 1
    BY <2>1, <2>2, <2>3 DEF LateInv
  <2> QED
    BY <2>3 DEF AtMostOneAfterSignal
<1> QED
  BY <1>1, <1>2, <1>3, ServerTypes, PTL DEF Spec
-----------------------------------------------------------------------------
LEMMA ConnPlaces ==
  ASSUME TypeOK
  PROVE  /\ Range(pending) \subseteq Jobs
         /\ \A w \in Workers : busy[w] # None => busy[w] \in Jobs
         /\ Jobs \subseteq Conns
         /\ \A c \in Jobs : c \in Range(pending) \/ \E w \in Workers : busy[w] = c
<1>1. Range(pending) \subseteq Conns
  BY RangeOfSeq DEF TypeOK
<1>2. DOMAIN busy = Workers /\ Range(busy) \subseteq Conns \cup {None}
  BY DEF TypeOK, Range
<1> QED
  BY <1>1, <1>2 DEF Jobs, Range

(* A descriptor that is open is so for a connection of the owners.         *)
LEMMA OwnedConns ==
  ASSUME TypeOK, NEW d \in Fds, owner[d] # None
  PROVE  owner[d] \in Conns /\ owner[d] \in Range(owner) \ {None}
BY DEF TypeOK, Range

LEMMA OnlyLastUnreplied ==
  ASSUME ClientInv, NEW c \in 1 .. opened, c \notin replied
  PROVE  c = opened /\ \E k \in Clients : waits[k] = c
BY DEF ClientInv

(* The descriptor of the connection that accept takes next.                *)
LEMMA LowDescriptor ==
  ASSUME TypeOK, Orderly, FewWorkers, lpc = "blocked", backlog # <<>>,
         FreeFds # {}
  PROVE  Min(FreeFds) <= Int8Max
<1> PICK m \in Int : m = Min(FreeFds)
  BY LowestIsFree DEF Fds, parentfd
<1>1. /\ m \in Fds
      /\ \A d \in Fds : d < m => owner[d] # None
  BY LowestIsFree
<1>2. m \in Nat /\ m > 3 /\ \A d \in 4 .. m - 1 : d \in Fds /\ owner[d] # None
  BY <1>1, ServerAssumption DEF Fds, parentfd
<1>3. ASSUME NEW d \in 4 .. m - 1 PROVE \E w \in Workers : busy[w] = owner[d]
  <2>1. PICK c : c = owner[d]
    OBVIOUS
  <2>2. c \in Range(owner) \ {None}
    BY <1>2, <2>1, OwnedConns
  <2>3. c \in Jobs \cup leaked
    BY <1>2, <2>1 DEF Orderly, OwnerInv
  <2>4. c \in 1 .. opened /\ c # opened
    BY <2>2 DEF Orderly, ClientInv
  <2>5. c \in replied
    BY <2>4, OnlyLastUnreplied DEF Orderly
  <2>6. c \in Jobs /\ c \notin Range(pending)
    BY <2>3, <2>5 DEF Orderly, ClientInv, JobsInv
  <2> QED
    BY <2>1, <2>6, ConnPlaces
<1> DEFINE f == [d \in 4 .. m - 1 |-> CHOOSE w \in Workers : busy[w] = owner[d]]
<1>4. \A d \in 4 .. m - 1 : f[d] \in Workers /\ busy[f[d]] = owner[d]
  BY <1>3
<1>5. f \in Injection(4 .. m - 1, Workers)
  <2>1. f \in [4 .. m - 1 -> Workers]
    BY <1>4
  <2>2. ASSUME NEW d \in 4 .. m - 1, NEW e \in 4 .. m - 1, f[d] = f[e]
        PROVE  d = e
    <3>1. owner[d] = owner[e] /\ owner[d] # None /\ d \in Fds /\ e \in Fds
      BY <1>2, <1>4, <2>2
    <3> QED
      BY <3>1 DEF Orderly, OwnerInv
  <2> QED
    BY <2>1, <2>2 DEF Injection, IsInjective
<1> HIDE DEF f
<1>6. Cardinality(4 .. m - 1) <= Cardinality(Workers)
  BY <1>5, FS_Injection DEF FewWorkers
<1>7. Cardinality(4 .. m - 1) = m - 4
  <2>1. m - 1 \in Int /\ 4 \in Int
    OBVIOUS
  <2>2. Cardinality(4 .. m - 1) = IF 4 > m - 1 THEN 0 ELSE (m - 1) - 4 + 1
    BY <2>1, FS_Interval
  <2> QED
    BY <1>2, <2>2
<1>8. Cardinality(Workers) \in Nat
  BY FS_CardinalityType DEF FewWorkers
<1> QED
  BY <1>2, <1>6, <1>7, <1>8, ServerAssumption DEF FewWorkers, parentfd
-----------------------------------------------------------------------------
LEMMA InitOneInv == Init => OneInv
<1> SUFFICES ASSUME Init PROVE OneInv
  OBVIOUS
<1> USE ServerAssumption DEF Init
<1>1. pending = <<>> /\ busy = [w \in Workers |-> None] /\ finished = {}
  BY DEF Pool!Init
<1>2. Range(<<>>) = {}
  BY DEF Range
<1>3. Apart(pending, busy, finished, None) /\ Jobs = {}
  BY <1>1, NothingInHand DEF Jobs, InHand
<1>4. ClientInv
  <2>1. Range(owner) \ {None} = {}
    BY DEF Range
  <2>2. 1 .. opened = {}
    OBVIOUS
  <2> QED
    BY <1>1, <1>3, <2>1, <2>2 DEF ClientInv, Known
<1>5. AcceptedInv /\ OwnerInv
  BY DEF AcceptedInv, OwnerInv
<1>6. JobsInv
  BY <1>1, <1>2, <1>3 DEF JobsInv
<1>7. args # None
  BY DEF Int8
<1> QED
  BY <1>4, <1>5, <1>6, <1>7, InitTypeInv DEF OneInv, FreedInv, Orderly

LEMMA StepFreedInv == TypeInv /\ FreedInv /\ [Next]_vars => FreedInv'
<1> SUFFICES ASSUME TypeInv, FreedInv, [Next]_vars PROVE FreedInv'
  OBVIOUS
<1> USE DEF FreedInv, listenerVars, workerVars
<1>1. CASE ListenerStep
  <2>1. CASE Assign
    <3>1. con \in Int
      BY ServerAssumption DEF TypeInv, TypeOK, Fds, parentfd
    <3> QED
      BY <2>1, <3>1, NarrowFits, NoneIsNoConn DEF Assign
  <2> QED
    BY <1>1, <2>1
    DEF ListenerStep, Create, CreateFails, Setup, CallAccept, Accept,
        AcceptFails, AddJob, JobRefused, TestFlag, FreeArgs, Shutdown, Exit
<1>2. CASE Signal
  BY <1>2 DEF Signal
<1>3. CASE \E w \in Workers : WorkerStep(w)
  BY <1>3 DEF WorkerStep, Start, ReadArgs, BadHeader, GoodHeader, Stream,
              NoReply, CloseSocket, Return
<1>4. CASE \E k \in Clients : Connect(k) \/ GetReply(k)
  BY <1>4 DEF Connect, GetReply
<1>5. CASE Quiet \/ UNCHANGED vars
  BY <1>5 DEF Quiet, vars
<1> QED
  BY <1>1, <1>2, <1>3, <1>4, <1>5 DEF Next

(* The listener, or a signal, does nothing to the connections.             *)
LEMMA QuietOrderly ==
  ASSUME TypeOK, Orderly,
         UNCHANGED <<pending, busy, finished, con, accepted, owner, wpc, sock,
                     waits, opened, replied, touched, leaked, backlog>>,
         args' \in {args, None},
         IF lpc \in {"assign", "addJob"} THEN UNCHANGED <<lpc, args>>
                                         ELSE lpc' \notin {"assign", "addJob"}
  PROVE  Orderly'
<1> USE DEF Orderly
<1>1. Jobs' = Jobs /\ Known' = Known
  BY DEF Jobs, Known
<1>2. ClientInv'
  BY <1>1 DEF ClientInv
<1>3. AcceptedInv'
  BY <1>1 DEF AcceptedInv
<1>4. OwnerInv'
  BY <1>1 DEF OwnerInv
<1>5. \A c : ArgsOf(c) => ArgsOf(c)'
  BY DEF ArgsOf
<1>6. JobsInv'
  <2>1. \A w \in Workers : busy[w] # None => Serves(w, busy[w])'
    BY <1>5 DEF JobsInv, Serves
  <2> QED
    BY <1>5, <2>1 DEF JobsInv, Apart
<1> QED
  BY <1>2, <1>3, <1>4, <1>6

LEMMA QuietSteps ==
  ASSUME TypeOK, Orderly,
         \/ Create \/ CreateFails \/ Setup \/ CallAccept \/ AcceptFails
         \/ TestFlag \/ FreeArgs \/ Shutdown \/ Signal \/ Quiet
         \/ UNCHANGED vars
  PROVE  Orderly'
<1> USE DEF poolVars, listenerVars, workerVars, clientVars
<1>1. CASE Create \/ Shutdown
  BY <1>1, QuietOrderly DEF Create, Pool!Open, Shutdown, Pool!Close
<1>2. CASE CreateFails \/ Setup \/ CallAccept
  BY <1>2, QuietOrderly DEF CreateFails, Setup, CallAccept
<1>3. CASE AcceptFails \/ TestFlag \/ FreeArgs
  BY <1>3, QuietOrderly DEF AcceptFails, TestFlag, FreeArgs
<1>4. CASE Signal
  BY <1>4, QuietOrderly DEF Signal
<1>5. CASE Quiet \/ UNCHANGED vars
  BY <1>5, QuietOrderly DEF Quiet, vars
<1> QED
  BY <1>1, <1>2, <1>3, <1>4, <1>5
-----------------------------------------------------------------------------
(* Nobody connects while the listener has a connection in hand, and no job *)
(* has its reply to come: the last connection is the listener's.           *)
LEMMA AloneInHand ==
  ASSUME TypeInv, Orderly, lpc \in {"assign", "addJob"}
  PROVE  /\ backlog = <<>> /\ Jobs \subseteq replied \cup leaked
         /\ accepted \notin Jobs \cup finished \cup leaked \cup replied
         /\ accepted \in 1 .. opened /\ accepted \in Conns
<1>1. /\ accepted = opened /\ con \in Fds /\ owner[con] = accepted
      /\ accepted \notin Known \cup replied
  BY DEF Orderly, AcceptedInv
<1>2. accepted \in Conns /\ accepted # None
  BY NoneIsNoConn DEF TypeInv
<1>3. accepted \in Range(owner) \ {None}
  BY <1>1, <1>2, OwnedConns DEF TypeInv
<1>4. accepted \in 1 .. opened /\ backlog = <<>>
  BY <1>1, <1>3 DEF Orderly, ClientInv
<1>5. ASSUME NEW c \in Jobs PROVE c \in replied
  <2>1. c \in 1 .. opened /\ c # opened
    BY <1>1, <1>5 DEF Orderly, ClientInv, Known
  <2> QED
    BY <2>1, OnlyLastUnreplied DEF Orderly
<1> QED
  BY <1>1, <1>2, <1>4, <1>5 DEF Known

LEMMA AcceptOrderly ==
  ASSUME TypeInv, Orderly, FewWorkers, Accept
  PROVE  Orderly'
<1> DEFINE d == Min(FreeFds)
<1>1. /\ lpc = "blocked" /\ lpc' = "assign" /\ con' = d
      /\ owner' = [owner EXCEPT ![d] = accepted'] /\ accepted' = Head(backlog)
      /\ backlog # <<>> /\ backlog' = Tail(backlog) /\ FreeFds # {}
      /\ UNCHANGED <<pending, busy, finished, args, wpc, sock, replied,
                     touched, undefined, waits, opened, leaked>>
  BY DEF Accept, poolVars, workerVars, clientVars
<1>2. d \in Fds /\ owner[d] = None /\ d <= Int8Max
  BY <1>1, LowestIsFree, LowDescriptor DEF TypeInv
<1> HIDE DEF d
<1>3. /\ backlog = <<opened>> /\ opened > 0
      /\ opened \notin Known \cup replied \cup Range(owner)
  BY <1>1 DEF Orderly, ClientInv
<1>4. accepted' = opened /\ backlog' = <<>>
  BY <1>1, <1>3
<1>5. /\ DOMAIN owner = Fds /\ DOMAIN owner' = Fds /\ owner'[d] = opened
      /\ \A e \in Fds : e # d => owner'[e] = owner[e]
  BY <1>1, <1>2, <1>4 DEF TypeInv, TypeOK
<1>6. /\ \A e \in Fds : owner[e] # opened
      /\ Range(owner') \subseteq Range(owner) \cup {opened}
  BY <1>3, <1>5 DEF Range
<1>7. opened \in Nat /\ opened \in 1 .. opened /\ opened \in Conns /\ opened # None
  BY <1>3, NoneIsNoConn, ServerAssumption DEF TypeInv, TypeOK, Conns
<1>8. Jobs' = Jobs /\ Known' = Known
  BY <1>1 DEF Jobs, Known
<1>9. ClientInv'
  <2>1. Known' \cup replied' \cup (Range(owner') \ {None}) \subseteq 1 .. opened'
    BY <1>1, <1>6, <1>7, <1>8 DEF Orderly, ClientInv
  <2> QED
    BY <1>1, <1>4, <2>1 DEF Orderly, ClientInv
<1>10. AcceptedInv'
  BY <1>1, <1>2, <1>3, <1>4, <1>5, <1>8 DEF AcceptedInv
<1>11. OwnerInv'
  <2>1. \A e \in Fds : owner[e] # None => owner[e] \in Jobs \cup leaked
    BY <1>1 DEF Orderly, OwnerInv
  <2>2. \A e, f \in Fds : owner'[e] # None /\ owner'[e] = owner'[f] => e = f
    BY <1>5, <1>6 DEF Orderly, OwnerInv
  <2> QED
    BY <1>1, <1>5, <1>8, <2>1, <2>2 DEF OwnerInv
<1>12. \A c : c # None /\ ArgsOf(c) => ArgsOf(c)'
  BY <1>1, <1>2, <1>5 DEF ArgsOf
<1>13. JobsInv'
  <2>1. ASSUME NEW c \in Range(pending)
        PROVE  c \notin replied \cup leaked /\ ArgsOf(c)'
    BY <1>12, <2>1, ConnPlaces, NoneIsNoConn DEF Orderly, JobsInv, TypeInv
  <2>2. ASSUME NEW w \in Workers, busy[w] # None PROVE Serves(w, busy[w])'
    <3>1. Serves(w, busy[w]) /\ busy[w] # opened
      BY <1>3, <2>2, ConnPlaces DEF Orderly, JobsInv, Known, TypeInv
    <3> QED
      BY <1>1, <1>2, <1>5, <1>12, <2>2, <3>1 DEF Serves
  <2> QED
    BY <1>1, <2>1, <2>2 DEF Orderly, JobsInv
<1> QED
  BY <1>9, <1>10, <1>11, <1>13 DEF Orderly

LEMMA AssignOrderly ==
  ASSUME TypeInv, Orderly, Assign
  PROVE  Orderly'
<1>1. /\ lpc = "assign" /\ lpc' = "addJob" /\ args' = Narrow(con)
      /\ UNCHANGED <<pending, busy, finished, con, accepted, owner, backlog,
                     wpc, sock, replied, touched, waits, opened, leaked>>
  BY DEF Assign, poolVars, workerVars, clientVars
<1>2. con \in 1 .. Int8Max
  BY <1>1, ServerAssumption DEF Orderly, AcceptedInv, Fds, parentfd
<1>3. args' = con
  BY <1>1, <1>2, NarrowFits
<1>4. Jobs \subseteq replied \cup leaked
  BY <1>1, AloneInHand
<1>5. Jobs' = Jobs /\ Known' = Known
  BY <1>1 DEF Jobs, Known
<1>6. ClientInv' /\ OwnerInv'
  BY <1>1, <1>5 DEF Orderly, ClientInv, OwnerInv
<1>7. AcceptedInv'
  BY <1>1, <1>3, <1>5 DEF Orderly, AcceptedInv
<1>8. JobsInv'
  <2>1. Range(pending) = {}
    BY <1>4, ConnPlaces DEF Orderly, JobsInv, TypeInv
  <2>2. ASSUME NEW w \in Workers, busy[w] # None PROVE Serves(w, busy[w])'
    <3>1. Serves(w, busy[w]) /\ busy[w] \in replied \cup leaked
      BY <1>4, <2>2, ConnPlaces DEF Orderly, JobsInv, TypeInv
    <3> QED
      BY <1>1, <3>1 DEF Serves
  <2> QED
    BY <1>1, <2>1, <2>2 DEF Orderly, JobsInv
<1> QED
  BY <1>6, <1>7, <1>8 DEF Orderly

LEMMA AddJobOrderly ==
  ASSUME TypeInv, Orderly, AddJob
  PROVE  Orderly'
<1>1. /\ lpc = "addJob" /\ lpc' = "test" /\ pending' = Append(pending, accepted)
      /\ UNCHANGED <<busy, finished, con, accepted, args, owner, backlog,
                     wpc, sock, replied, touched, waits, opened, leaked>>
  BY DEF AddJob, Pool!Submit, workerVars, clientVars
<1>2. /\ backlog = <<>> /\ accepted \in 1 .. opened /\ accepted \in Conns
      /\ accepted \notin Jobs \cup finished \cup leaked \cup replied
  BY <1>1, AloneInHand
<1>3. args = con /\ con \in Fds /\ owner[con] = accepted
  BY <1>1 DEF Orderly, AcceptedInv
<1>4. accepted \notin Range(pending) \cup Range(busy) \cup finished
  BY <1>2, NoneIsNoConn DEF Jobs
<1>5. /\ Apart(pending', busy', finished', None)
      /\ Jobs' = Jobs \cup {accepted}
      /\ Range(pending') = Range(pending) \cup {accepted}
  <2>1. /\ pending \in Seq(Conns) /\ busy \in [Workers -> Conns \cup {None}]
        /\ Apart(pending, busy, finished, None)
    BY DEF TypeInv, TypeOK, Orderly, JobsInv
  <2>2. /\ Apart(Append(pending, accepted), busy, finished, None)
        /\ InHand(Append(pending, accepted), busy, None)
             = InHand(pending, busy, None) \cup {accepted}
    BY <1>2, <1>4, <2>1, NoneIsNoConn, SubmitKeepsApart
  <2>3. Range(Append(pending, accepted)) = Range(pending) \cup {accepted}
    BY <1>2, <2>1, AppendElements
  <2> QED
    BY <1>1, <2>2, <2>3 DEF Jobs, InHand
<1>6. Known' = Known \cup {accepted}
  BY <1>1, <1>5 DEF Known
<1>7. ClientInv'
  BY <1>1, <1>2, <1>6 DEF Orderly, ClientInv
<1>8. AcceptedInv'
  BY <1>1 DEF AcceptedInv
<1>9. OwnerInv'
  BY <1>1, <1>3, <1>5 DEF Orderly, OwnerInv
<1>10. \A c : ArgsOf(c) => ArgsOf(c)'
  BY <1>1 DEF ArgsOf
<1>11. JobsInv'
  <2>1. ArgsOf(accepted)'
    BY <1>1, <1>3 DEF ArgsOf
  <2>2. \A w \in Workers : busy[w] # None => Serves(w, busy[w])'
    BY <1>1, <1>10 DEF Orderly, JobsInv, Serves
  <2> QED
    BY <1>1, <1>2, <1>5, <1>10, <2>1, <2>2 DEF Orderly, JobsInv
<1> QED
  BY <1>7, <1>8, <1>9, <1>11 DEF Orderly

LEMMA RefusedOrderly ==
  ASSUME TypeInv, Orderly, JobRefused
  PROVE  Orderly'
<1>1. /\ lpc = "addJob" /\ lpc' = "test" /\ leaked' = leaked \cup {accepted}
      /\ UNCHANGED <<pending, busy, finished, con, accepted, args, owner,
                     backlog, wpc, sock, replied, touched, waits, opened>>
  BY DEF JobRefused, poolVars, workerVars, clientVars
<1>2. /\ backlog = <<>> /\ accepted \in 1 .. opened
      /\ accepted \notin Jobs \cup finished \cup leaked \cup replied
  BY <1>1, AloneInHand
<1>3. owner[con] = accepted /\ con \in Fds
  BY <1>1 DEF Orderly, AcceptedInv
<1>4. Jobs' = Jobs /\ Known' = Known \cup {accepted}
  BY <1>1 DEF Jobs, Known
<1>5. ClientInv'
  BY <1>1, <1>2, <1>4 DEF Orderly, ClientInv
<1>6. AcceptedInv'
  BY <1>1 DEF AcceptedInv
<1>7. OwnerInv'
  BY <1>1, <1>3, <1>4 DEF Orderly, OwnerInv
<1>8. \A c : ArgsOf(c) => ArgsOf(c)'
  BY <1>1 DEF ArgsOf
<1>9. JobsInv'
  <2>1. \A c \in Range(pending) : c \notin replied' \cup leaked' /\ ArgsOf(c)'
    BY <1>1, <1>2, <1>8, ConnPlaces DEF Orderly, JobsInv, TypeInv
  <2>2. ASSUME NEW w \in Workers, busy[w] # None PROVE Serves(w, busy[w])'
    <3>1. Serves(w, busy[w]) /\ busy[w] # accepted
      BY <1>2, <2>2, ConnPlaces DEF Orderly, JobsInv, TypeInv
    <3> QED
      BY <1>1, <1>8, <3>1 DEF Serves
  <2> QED
    BY <1>1, <2>1, <2>2 DEF Orderly, JobsInv
<1> QED
  BY <1>5, <1>6, <1>7, <1>9 DEF Orderly

LEMMA ExitOrderly ==
  ASSUME TypeInv, Orderly, Exit
  PROVE  Orderly'
<1>1. /\ \A w \in Workers : busy[w] = None
      /\ pending' = <<>> /\ owner' = [d \in Fds |-> None] /\ lpc' = "exited"
      /\ UNCHANGED <<busy, finished, con, accepted, args, backlog,
                     wpc, sock, replied, touched, waits, opened, leaked>>
  BY DEF Exit, Pool!Leave, workerVars, clientVars
<1>2. /\ Apart(pending', busy', finished', None) /\ Jobs' = {}
      /\ Range(pending') = {}
  <2>1. DOMAIN busy = Workers
    BY DEF TypeInv, TypeOK
  <2>2. Apart(<<>>, busy, finished, None) /\ InHand(<<>>, busy, None) = {}
    BY <1>1, <2>1, NothingInHand
  <2>3. Range(<<>>) = {}
    BY DEF Range
  <2> QED
    BY <1>1, <2>2, <2>3 DEF Jobs, InHand
<1>3. Known' \subseteq Known /\ Range(owner') \subseteq {None}
  BY <1>1, <1>2 DEF Known, Range
<1>4. ClientInv'
  <2>1. opened > 0 => opened # None
    BY NoneIsNoConn, ServerAssumption DEF TypeInv, TypeOK, Conns
  <2> QED
    BY <1>1, <1>3, <2>1 DEF Orderly, ClientInv
<1>5. AcceptedInv' /\ OwnerInv'
  BY <1>1 DEF AcceptedInv, OwnerInv
<1>6. JobsInv'
  BY <1>1, <1>2 DEF Orderly, JobsInv
<1> QED
  BY <1>4, <1>5, <1>6 DEF Orderly
-----------------------------------------------------------------------------
(* What a worker's job is to the rest.                                     *)
LEMMA BusyJob ==
  ASSUME TypeInv, Orderly, NEW w \in Workers, busy[w] # None
  PROVE  /\ busy[w] \in Known /\ busy[w] \in 1 .. opened /\ busy[w] \in Conns
         /\ busy[w] \notin Range(pending) \cup finished
         /\ \A v \in Workers : v # w => busy[v] # busy[w]
         /\ backlog # <<>> => busy[w] # opened
         /\ lpc \in {"assign", "addJob"} => busy[w] # accepted
         /\ Serves(w, busy[w])
<1>1. DOMAIN busy = Workers
  BY DEF TypeInv, TypeOK
<1>2. busy[w] \in Known /\ busy[w] \in Conns
  BY ConnPlaces DEF TypeInv, Known
<1>3. /\ busy[w] \notin Range(pending) \cup finished
      /\ \A v \in Workers : v # w => busy[v] # busy[w]
  BY <1>1 DEF Orderly, JobsInv, Apart
<1> QED
  BY <1>2, <1>3 DEF Orderly, ClientInv, AcceptedInv, JobsInv

LEMMA StartsJob ==
  ASSUME TypeInv, Orderly, NEW w \in Workers, Start(w)
  PROVE  /\ Range(pending) = {Head(pending)} \cup Range(pending')
         /\ Head(pending) \in Conns
         /\ Apart(pending', busy', finished, None)
         /\ Jobs' = Jobs
<1>1. /\ busy[w] = None /\ pending # <<>> /\ pending' = Tail(pending)
      /\ busy' = [busy EXCEPT ![w] = Head(pending)]
  BY DEF Start, Pool!Start
<1>2. /\ pending \in Seq(Conns) /\ busy \in [Workers -> Conns \cup {None}]
      /\ Apart(pending, busy, finished, None)
  BY DEF TypeInv, TypeOK, Orderly, JobsInv
<1> DEFINE j == Head(pending)
           q == Tail(pending)
           b2 == [busy EXCEPT ![w] = j]
<1>3. /\ Range(pending) = {j} \cup Range(q) /\ j \notin Range(q)
      /\ IsInjective(q) /\ j \in Conns
  BY <1>1, <1>2, TailElements DEF Apart
<1> HIDE DEF j, q
<1>4. Apart(q, b2, finished, None)
  BY <1>1, <1>2, <1>3, NoneIsNoConn, StartKeepsApart
<1>5. ASSUME NEW x
      PROVE  x \in InHand(q, b2, None) <=> x \in InHand(pending, busy, None)
  BY <1>1, <1>2, <1>3, NoneIsNoConn, StartKeepsApart
<1>6. InHand(q, b2, None) = InHand(pending, busy, None)
  BY <1>5 DEF InHand
<1> QED
  BY <1>1, <1>3, <1>4, <1>6 DEF Jobs, InHand, j, q

LEMMA StartOrderly ==
  ASSUME TypeInv, Orderly, NEW w \in Workers, Start(w)
  PROVE  Orderly'
<1> PICK c : c = Head(pending)
  OBVIOUS
<1>1. /\ busy[w] = None /\ pending # <<>> /\ pending' = Tail(pending)
      /\ busy' = [busy EXCEPT ![w] = c] /\ wpc' = [wpc EXCEPT ![w] = "start"]
      /\ UNCHANGED <<lpc, finished, con, accepted, args, owner, backlog,
                     sock, replied, touched, waits, opened, leaked>>
  BY DEF Start, Pool!Start, listenerVars, clientVars
<1>2. /\ pending \in Seq(Conns) /\ busy \in [Workers -> Conns \cup {None}]
      /\ wpc \in [Workers -> WorkerLabels]
  BY DEF TypeInv, TypeOK
<1>3. c \in Range(pending) /\ c \in Conns
      /\ Range(pending') \subseteq Range(pending)
  BY StartsJob
<1>4. Apart(pending', busy', finished', None) /\ Jobs' = Jobs
  BY <1>1, StartsJob
<1>5. Jobs' = Jobs /\ Known' = Known
  BY <1>1, <1>4 DEF Known
<1>6. ClientInv' /\ AcceptedInv' /\ OwnerInv'
  BY <1>1, <1>5 DEF Orderly, ClientInv, AcceptedInv, OwnerInv
<1>7. \A x : ArgsOf(x) => ArgsOf(x)'
  BY <1>1 DEF ArgsOf
<1>8. JobsInv'
  <2>1. c \notin replied' \cup leaked' /\ ArgsOf(c)'
    BY <1>1, <1>3, <1>7 DEF Orderly, JobsInv
  <2>2. ASSUME NEW v \in Workers, busy'[v] # None PROVE Serves(v, busy[v])'
    <3>1. CASE v = w
      <4>1. busy'[v] = c /\ wpc'[v] = "start"
        BY <1>1, <1>2, <3>1
      <4> QED
        BY <1>1, <2>1, <4>1 DEF Serves
    <3>2. CASE v # w
      <4>1. busy'[v] = busy[v] /\ wpc'[v] = wpc[v]
        BY <1>1, <1>2, <3>2
      <4>2. Serves(v, busy[v])
        BY <2>2, <4>1 DEF Orderly, JobsInv
      <4> QED
        BY <1>1, <1>7, <4>1, <4>2 DEF Serves
    <3> QED
      BY <3>1, <3>2
  <2> QED
    BY <1>1, <1>3, <1>4, <1>7, <2>2 DEF Orderly, JobsInv
<1> QED
  BY <1>6, <1>8 DEF Orderly

(* A step of one worker at its job that leaves the pool alone: what must   *)
(* be shown of it is only about the job.                                   *)
LEMMA JobsInvOfStep ==
  ASSUME TypeInv, Orderly, NEW w \in Workers, busy[w] # None,
         UNCHANGED <<pending, busy, finished, args>>,
         \A v \in Workers \ {w} : wpc'[v] = wpc[v] /\ sock'[v] = sock[v],
         \A d \in Fds : owner'[d] = owner[d] \/ (owner[d] = busy[w] /\ owner'[d] = None),
         replied' \subseteq replied \cup {busy[w]},
         leaked \subseteq leaked', leaked' \subseteq leaked \cup {busy[w]},
         \A x \in Conns : touched'[x] \subseteq touched[x]
                            \cup (IF x = busy[w] THEN {busy[w]} ELSE {}),
         Serves(w, busy[w])'
  PROVE  JobsInv'
<1>1. /\ busy[w] \in Conns /\ busy[w] \notin Range(pending)
      /\ \A v \in Workers : v # w => busy[v] # busy[w]
  BY BusyJob
<1>2. \A x : x # busy[w] /\ x # None /\ ArgsOf(x) => ArgsOf(x)'
  BY DEF ArgsOf
<1>3. ASSUME NEW x \in Range(pending)
      PROVE  x \notin replied' \cup leaked' /\ ArgsOf(x)'
  <2>1. x # busy[w] /\ x # None
    BY <1>1, <1>3, ConnPlaces, NoneIsNoConn DEF TypeInv
  <2>2. x \notin replied \cup leaked /\ ArgsOf(x)
    BY <1>3 DEF Orderly, JobsInv
  <2> QED
    BY <1>2, <2>1, <2>2
<1>4. ASSUME NEW v \in Workers, v # w, busy[v] # None PROVE Serves(v, busy[v])'
  <2>1. Serves(v, busy[v]) /\ busy[v] # busy[w] /\ wpc'[v] = wpc[v]
        /\ sock'[v] = sock[v] /\ busy'[v] = busy[v]
    BY <1>1, <1>4 DEF Orderly, JobsInv
  <2>2. busy[v] \in replied' => busy[v] \in replied
    BY <2>1
  <2>3. busy[v] \in leaked' <=> busy[v] \in leaked
    BY <2>1
  <2>4. \A d \in Fds : owner'[d] = busy[v] <=> owner[d] = busy[v]
    BY <1>4, <2>1
  <2> QED
    BY <1>2, <1>4, <2>1, <2>2, <2>3, <2>4 DEF Serves
<1>5. \A x \in Conns : touched'[x] \subseteq {x}
  BY DEF Orderly, JobsInv
<1>6. \A v \in Workers : busy'[v] # None => Serves(v, busy[v])'
  BY <1>4
<1> QED
  BY <1>3, <1>5, <1>6 DEF Orderly, JobsInv

LEMMA ReadOrderly ==
  ASSUME TypeInv, Orderly, NEW w \in Workers, ReadArgs(w), ~undefined'
  PROVE  Orderly'
<1> PICK c : c = busy[w]
  OBVIOUS
<1>1. /\ c # None /\ wpc[w] = "start"
      /\ UNCHANGED <<pending, busy, finished, lpc, con, accepted, args, owner,
                     backlog, replied, touched, waits, opened>>
  BY DEF ReadArgs, At, poolVars, listenerVars, clientVars
<1>2. /\ args # None /\ sock' = [sock EXCEPT ![w] = args]
      /\ \/ wpc' = [wpc EXCEPT ![w] = "header"] /\ leaked' = leaked
         \/ wpc' = [wpc EXCEPT ![w] = "return"] /\ leaked' = leaked \cup {c}
  BY DEF ReadArgs, ReadSocket
<1>3. /\ c \in Known /\ c \in Conns /\ c \notin replied \cup leaked
      /\ args \in Fds /\ owner[args] = c
  BY <1>1, <1>2, BusyJob DEF Serves, ArgsOf
<1>4. /\ sock'[w] = args
      /\ \A v \in Workers \ {w} : wpc'[v] = wpc[v] /\ sock'[v] = sock[v]
      /\ \/ wpc'[w] = "header" /\ leaked' = leaked
         \/ wpc'[w] = "return" /\ leaked' = leaked \cup {c}
  BY <1>2 DEF TypeInv, TypeOK
<1>5. Jobs' = Jobs /\ Known' = Known
  <2>1. c \in Jobs
    BY <1>1, ConnPlaces DEF TypeInv
  <2>2. Jobs' = Jobs
    BY <1>1 DEF Jobs
  <2> QED
    BY <1>1, <1>2, <2>1, <2>2 DEF Known
<1>6. ClientInv'
  <2>1. leaked' \cap replied' = {}
    BY <1>1, <1>3, <1>4 DEF Orderly, ClientInv
  <2> QED
    BY <1>1, <1>5, <2>1 DEF Orderly, ClientInv
<1>7. AcceptedInv'
  BY <1>1, <1>5 DEF Orderly, AcceptedInv
<1>8. OwnerInv'
  BY <1>1, <1>4, <1>5 DEF Orderly, OwnerInv
<1>9. Serves(w, busy[w])'
  BY <1>1, <1>3, <1>4 DEF Serves
<1>10. JobsInv'
  BY <1>1, <1>4, <1>9, JobsInvOfStep
<1> QED
  BY <1>6, <1>7, <1>8, <1>10 DEF Orderly

(* The header, the stream and the reply go over the job's own connection.  *)
LEMMA SessionOrderly ==
  ASSUME TypeInv, Orderly, NEW w \in Workers,
         BadHeader(w) \/ GoodHeader(w) \/ Stream(w) \/ NoReply(w)
  PROVE  Orderly'
<1> PICK c : c = busy[w]
  OBVIOUS
<1>1. /\ c # None /\ wpc[w] \in {"header", "stream"} /\ Touch(w)
      /\ \/ wpc' = [wpc EXCEPT ![w] = "stream"]
         \/ wpc' = [wpc EXCEPT ![w] = "close"]
      /\ replied' = replied \/ replied' = Answered(w)
      /\ UNCHANGED <<pending, busy, finished, lpc, con, accepted, args, owner,
                     backlog, sock, waits, opened, leaked>>
  BY DEF BadHeader, GoodHeader, Stream, NoReply, AfterError, At, poolVars,
         listenerVars, clientVars
<1>2. wpc'[w] = "stream" => wpc'[w] \in {"header", "stream"} /\ replied' = replied
  BY DEF BadHeader, GoodHeader, Stream, NoReply, AfterError, TypeInv, TypeOK
<1>3. /\ c \in Known /\ c \in Conns /\ c \in 1 .. opened
      /\ backlog # <<>> => c # opened
      /\ lpc \in {"assign", "addJob"} => c # accepted
      /\ c \notin replied \cup leaked /\ sock[w] \in Fds /\ owner[sock[w]] = c
  BY <1>1, BusyJob DEF Serves
<1>4. Target(w) = c
  BY <1>3 DEF Target
<1>5. replied' \subseteq replied \cup {c} /\ replied \subseteq replied'
  BY <1>1, <1>4 DEF Answered
<1>6. \A x \in Conns : touched'[x] \subseteq touched[x]
                         \cup (IF x = c THEN {c} ELSE {})
  BY <1>1, <1>4 DEF Touch, TypeInv, TypeOK
<1>7. /\ \A v \in Workers \ {w} : wpc'[v] = wpc[v]
      /\ wpc'[w] = "stream" \/ wpc'[w] = "close"
  BY <1>1 DEF TypeInv, TypeOK
<1>8. Jobs' = Jobs /\ Known' = Known
  BY <1>1 DEF Jobs, Known
<1>9. ClientInv'
  BY <1>1, <1>3, <1>5, <1>8 DEF Orderly, ClientInv
<1>10. AcceptedInv'
  BY <1>1, <1>3, <1>5, <1>8 DEF Orderly, AcceptedInv
<1>11. OwnerInv'
  BY <1>1, <1>8 DEF Orderly, OwnerInv
<1>12. Serves(w, busy[w])'
  BY <1>1, <1>2, <1>3, <1>7 DEF Serves
<1>13. JobsInv'
  BY <1>1, <1>5, <1>6, <1>7, <1>12, JobsInvOfStep
<1> QED
  BY <1>9, <1>10, <1>11, <1>13 DEF Orderly

(* The descriptor still means the job's connection when it is closed.      *)
LEMMA CloseOrderly ==
  ASSUME TypeInv, Orderly, NEW w \in Workers, CloseSocket(w)
  PROVE  Orderly'
<1> PICK c : c = busy[w]
  OBVIOUS
<1>1. /\ c # None /\ wpc[w] = "close" /\ owner' = Closed(sock[w])
      /\ wpc' = [wpc EXCEPT ![w] = "return"]
      /\ UNCHANGED <<pending, busy, finished, lpc, con, accepted, args,
                     backlog, sock, replied, touched, waits, opened, leaked>>
  BY DEF CloseSocket, At, poolVars, listenerVars, clientVars
<1>2. /\ c \in Conns
      /\ lpc \in {"assign", "addJob"} => c # accepted
      /\ c \notin leaked /\ sock[w] \in Fds /\ owner[sock[w]] = c
  BY <1>1, BusyJob DEF Serves
<1>3. /\ owner'[sock[w]] = None
      /\ \A d \in Fds : d # sock[w] => owner'[d] = owner[d]
      /\ DOMAIN owner = Fds /\ DOMAIN owner' = Fds
  BY <1>1, <1>2 DEF Closed, TypeInv, TypeOK
<1>4. /\ wpc'[w] = "return" /\ \A v \in Workers \ {w} : wpc'[v] = wpc[v]
  BY <1>1 DEF TypeInv, TypeOK
<1>5. Range(owner') \subseteq Range(owner) \cup {None}
  BY <1>2, <1>3 DEF Range
<1>6. Jobs' = Jobs /\ Known' = Known
  BY <1>1 DEF Jobs, Known
<1>7. ClientInv'
  <2>1. opened > 0 => opened # None
    BY NoneIsNoConn, ServerAssumption DEF TypeInv, TypeOK, Conns
  <2> QED
    BY <1>1, <1>5, <1>6, <2>1 DEF Orderly, ClientInv
<1>8. AcceptedInv'
  BY <1>1, <1>2, <1>3, <1>6 DEF Orderly, AcceptedInv
<1>9. OwnerInv'
  BY <1>1, <1>2, <1>3, <1>6 DEF Orderly, OwnerInv
<1>10. Serves(w, busy[w])'
  <2>1. \A d \in Fds : owner'[d] # c
    BY <1>1, <1>2, <1>3 DEF Orderly, OwnerInv
  <2> QED
    BY <1>1, <1>4, <2>1 DEF Serves
<1>11. JobsInv'
  <2>1. \A d \in Fds : owner'[d] = owner[d]
                         \/ (owner[d] = busy[w] /\ owner'[d] = None)
    BY <1>2, <1>3
  <2> QED
    BY <1>1, <1>4, <1>10, <2>1, JobsInvOfStep
<1> QED
  BY <1>7, <1>8, <1>9, <1>11 DEF Orderly

LEMMA ReturnsJob ==
  ASSUME TypeInv, Orderly, NEW w \in Workers, Return(w)
  PROVE  /\ Apart(pending, busy', finished', None)
         /\ Jobs' = Jobs \ {busy[w]} /\ busy[w] \in Jobs
<1>1. /\ busy[w] # None /\ finished' = finished \cup {busy[w]}
      /\ busy' = [busy EXCEPT ![w] = None] /\ pending' = pending
  BY DEF Return, Pool!Finish
<1>2. /\ pending \in Seq(Conns) /\ busy \in [Workers -> Conns \cup {None}]
      /\ Apart(pending, busy, finished, None)
  BY DEF TypeInv, TypeOK, Orderly, JobsInv
<1> DEFINE b2 == [busy EXCEPT ![w] = None]
<1>3. /\ busy[w] \in Conns /\ b2 \in [Workers -> Conns \cup {None}]
      /\ Apart(pending, b2, finished \cup {busy[w]}, None)
      /\ InHand(pending, b2, None) = InHand(pending, busy, None) \ {busy[w]}
      /\ busy[w] \in InHand(pending, busy, None)
  BY <1>1, <1>2, NoneIsNoConn, FinishKeepsApart
<1> QED
  BY <1>1, <1>3 DEF Jobs, InHand

LEMMA ReturnOrderly ==
  ASSUME TypeInv, Orderly, NEW w \in Workers, Return(w)
  PROVE  Orderly'
<1> PICK c : c = busy[w]
  OBVIOUS
<1>1. /\ c # None /\ wpc[w] = "return" /\ finished' = finished \cup {c}
      /\ busy' = [busy EXCEPT ![w] = None]
      /\ UNCHANGED <<pending, lpc, con, accepted, args, owner, backlog, wpc,
                     sock, replied, touched, waits, opened, leaked>>
  BY DEF Return, Pool!Finish, At, listenerVars, workerVars, clientVars
<1>2. /\ Apart(pending, busy', finished', None)
      /\ Jobs' = Jobs \ {c} /\ c \in Jobs
  BY ReturnsJob
<1>3. Known' = Known
  BY <1>1, <1>2 DEF Known
<1>4. c \in leaked \/ \A d \in Fds : owner[d] # c
  BY <1>1, BusyJob DEF Serves
<1>5. ClientInv' /\ AcceptedInv'
  BY <1>1, <1>3 DEF Orderly, ClientInv, AcceptedInv
<1>6. OwnerInv'
  BY <1>1, <1>2, <1>4 DEF Orderly, OwnerInv
<1>7. \A x : ArgsOf(x) => ArgsOf(x)'
  BY <1>1 DEF ArgsOf
<1>8. JobsInv'
  <2>1. ASSUME NEW v \in Workers, busy'[v] # None PROVE Serves(v, busy[v])'
    <3>1. busy'[v] = busy[v]
      BY <1>1, <2>1 DEF TypeInv, TypeOK
    <3>2. Serves(v, busy[v])
      BY <2>1, <3>1 DEF Orderly, JobsInv
    <3> QED
      BY <1>1, <1>7, <3>1, <3>2 DEF Serves
  <2> QED
    BY <1>1, <1>2, <1>7, <2>1 DEF Orderly, JobsInv
<1> QED
  BY <1>5, <1>6, <1>8 DEF Orderly
-----------------------------------------------------------------------------
(* The client connects again when it has its reply: to a server that has   *)
(* answered every connection before.                                       *)
LEMMA ConnectOrderly ==
  ASSUME TypeInv, Orderly, OneClient, NEW k \in Clients, Connect(k)
  PROVE  Orderly'
<1>1. /\ waits[k] = None /\ opened' = opened + 1 /\ waits' = [waits EXCEPT ![k] = opened']
      /\ backlog' = Append(backlog, opened')
      /\ UNCHANGED <<pending, busy, finished, lpc, con, accepted, args, owner,
                     wpc, sock, replied, touched, leaked>>
  BY DEF Connect, poolVars, listenerVars, workerVars
<1>2. \A j \in Clients : j = k /\ waits[j] = None
  BY <1>1 DEF OneClient
<1>3. opened \in Nat /\ 1 .. opened \subseteq Conns
  BY ServerAssumption DEF TypeInv, TypeOK, Conns
<1>4. 1 .. opened \subseteq replied
  BY <1>2, <1>3, NoneIsNoConn DEF Orderly, ClientInv
<1>5. backlog = <<>>
  BY <1>3, <1>4 DEF Orderly, ClientInv
<1>6. lpc \notin {"assign", "addJob"}
  BY <1>4, AloneInHand
<1>7. backlog' = <<opened'>>
  BY <1>1, <1>5
<1>8. /\ opened' > 0 /\ opened' \notin 1 .. opened /\ opened' \in 1 .. opened'
      /\ 1 .. opened' = (1 .. opened) \cup {opened'}
  BY <1>1, <1>3
<1>9. opened' # None
  BY <1>1, <1>3, NoneIsNoConn, ServerAssumption DEF Connect, Conns
<1>10. waits'[k] = opened'
  BY <1>1 DEF TypeInv, TypeOK
<1>11. Jobs' = Jobs /\ Known' = Known
  BY <1>1 DEF Jobs, Known
<1>12. ClientInv'
  <2>1. Known \cup replied \cup (Range(owner) \ {None}) \subseteq 1 .. opened
    BY DEF Orderly, ClientInv
  <2>2. \A c \in 1 .. opened' :
          c \in replied' \/ (c = opened' /\ \E j \in Clients : waits'[j] = c)
    BY <1>1, <1>4, <1>8, <1>10
  <2>3. \A j \in Clients : waits'[j] # None => waits'[j] = opened'
    BY <1>2, <1>10
  <2>4. leaked' \cap replied' = {}
    BY <1>1 DEF Orderly, ClientInv
  <2>5. opened' \notin Known' \cup replied' \cup Range(owner')
    BY <1>1, <1>8, <1>9, <1>11, <2>1
  <2>6. Known' \cup replied' \cup (Range(owner') \ {None}) \subseteq 1 .. opened'
    BY <1>1, <1>8, <1>11, <2>1
  <2> QED
    BY <1>7, <1>8, <2>2, <2>3, <2>4, <2>5, <2>6 DEF ClientInv
<1>13. AcceptedInv'
  BY <1>1, <1>6 DEF AcceptedInv
<1>14. OwnerInv'
  BY <1>1, <1>11 DEF Orderly, OwnerInv
<1>15. \A x : ArgsOf(x) => ArgsOf(x)'
  BY <1>1 DEF ArgsOf
<1>16. JobsInv'
  BY <1>1, <1>15 DEF Orderly, JobsInv, Serves
<1> QED
  BY <1>12, <1>13, <1>14, <1>16 DEF Orderly

LEMMA ReplyOrderly ==
  ASSUME TypeInv, Orderly, NEW k \in Clients, GetReply(k)
  PROVE  Orderly'
<1>1. /\ waits[k] \in replied /\ waits' = [waits EXCEPT ![k] = None]
      /\ UNCHANGED <<pending, busy, finished, lpc, con, accepted, args, owner,
                     backlog, wpc, sock, replied, touched, opened, leaked>>
  BY DEF GetReply, poolVars, listenerVars, workerVars
<1>2. /\ waits'[k] = None
      /\ \A j \in Clients : j # k => waits'[j] = waits[j]
  BY <1>1 DEF TypeInv, TypeOK
<1>3. Jobs' = Jobs /\ Known' = Known
  BY <1>1 DEF Jobs, Known
<1>4. ClientInv'
  <2>1. \A c \in 1 .. opened :
          c \in replied \/ (c = opened /\ \E j \in Clients : waits'[j] = c)
    BY <1>1, <1>2 DEF Orderly, ClientInv
  <2>2. \A j \in Clients : waits'[j] # None => waits'[j] = opened
    BY <1>2 DEF Orderly, ClientInv
  <2> QED
    BY <1>1, <1>3, <2>1, <2>2 DEF Orderly, ClientInv
<1>5. AcceptedInv' /\ OwnerInv'
  BY <1>1, <1>3 DEF Orderly, AcceptedInv, OwnerInv
<1>6. \A x : ArgsOf(x) => ArgsOf(x)'
  BY <1>1 DEF ArgsOf
<1>7. JobsInv'
  BY <1>1, <1>6 DEF Orderly, JobsInv, Serves
<1> QED
  BY <1>4, <1>5, <1>7 DEF Orderly
-----------------------------------------------------------------------------
LEMMA StepOneInv ==
  ASSUME OneClient, FewWorkers
  PROVE  OneInv /\ [Next]_vars => OneInv'
<1> SUFFICES ASSUME OneInv, [Next]_vars PROVE OneInv'
  OBVIOUS
<1>1. TypeInv /\ FreedInv /\ TypeInv' /\ FreedInv' /\ TypeOK
  BY StepTypeInv, StepFreedInv DEF OneInv, TypeInv
<1>2. ASSUME ~undefined' PROVE Orderly'
  <2>1. ~undefined
    BY <1>2 DEF Next, ListenerStep, Create, CreateFails, Setup, CallAccept, Accept,
                AcceptFails, Assign, AddJob, JobRefused, TestFlag, FreeArgs,
                Shutdown, Exit, Signal, Quiet, vars, workerVars, WorkerStep,
                Start, ReadArgs, BadHeader, GoodHeader, Stream, NoReply,
                CloseSocket, Return, Connect, GetReply
  <2>2. Orderly
    BY <2>1 DEF OneInv
  <2>3. CASE ListenerStep \/ Signal \/ Quiet \/ UNCHANGED vars
    BY <1>1, <2>2, <2>3, QuietSteps, AcceptOrderly, AssignOrderly, AddJobOrderly,
       RefusedOrderly, ExitOrderly DEF ListenerStep
  <2>4. CASE \E w \in Workers : WorkerStep(w)
    BY <1>1, <1>2, <2>2, <2>4, StartOrderly, ReadOrderly, SessionOrderly,
       CloseOrderly, ReturnOrderly DEF WorkerStep
  <2>5. CASE \E k \in Clients : Connect(k) \/ GetReply(k)
    BY <1>1, <2>2, <2>5, ConnectOrderly, ReplyOrderly
  <2> QED
    BY <2>3, <2>4, <2>5 DEF Next
<1> QED
  BY <1>1, <1>2 DEF OneInv

LEMMA ServerOrderly ==
  ASSUME OneClient, FewWorkers
  PROVE  Spec => []OneInv
BY InitOneInv, StepOneInv, PTL DEF Spec

(* With one client, and no more workers than FewWorkers admits, a worker   *)
(* uses no connection but that of its job, as long as none has read the    *)
(* freed arguments.                                                        *)
THEOREM ServerOwnConnection ==
  ASSUME OneClient, FewWorkers
  PROVE  Spec => []OwnConnection
<1>1. OneInv => OwnConnection
  BY DEF OneInv, Orderly, JobsInv, OwnConnection
<1> QED
  BY <1>1, ServerOrderly, PTL

(* Then the int8_t in con_args_t holds the descriptor that accept gave,    *)
(* whenever a job is submitted: descriptors start behind the listening     *)
(* socket, so that 123 threads are the most that are sure to do.           *)
THEOREM ServerSocketFits ==
  ASSUME OneClient, FewWorkers
  PROVE  Spec => []SocketFits
<1>1. OneInv => SocketFits
  BY DEF OneInv, FreedInv, Orderly, AcceptedInv, SocketFits
<1> QED
  BY <1>1, ServerOrderly, PTL

(* And a descriptor that is open belongs to a job that will close it, to   *)
(* the listener, or to a job that was refused or found no memory.          *)
THEOREM ServerSocketsAccounted ==
  ASSUME OneClient, FewWorkers
  PROVE  Spec => []SocketsAccounted
<1>1. OneInv => SocketsAccounted
  BY DEF OneInv, Orderly, OwnerInv, SocketsAccounted
<1> QED
  BY <1>1, ServerOrderly, PTL
=============================================================================
