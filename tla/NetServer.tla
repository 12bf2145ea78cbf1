------------------------------ MODULE NetServer ------------------------------
(***************************************************************************)
(* The netcalc server: the listener of 5_NetCalc/src/net_handler.c, which  *)
(* is the main thread, the pool's workers inside handle_new_connection,    *)
(* the descriptors of the connections, the one con_args_t that the         *)
(* listener shares with all workers, and signal_flag_g.  The thread pool   *)
(* is the service that ThreadPool implements, and a job is numbered by the *)
(* connection it was submitted for.                                        *)
(*                                                                         *)
(* Clients are those of 5_NetCalc/client/client.py sending files it can    *)
(* read and not interrupted: each waits for the reply on one connection    *)
(* before it opens the next.  What passes over a connection is in          *)
(* NetSession: here a session is the header, the stream and the close,     *)
(* each on whatever connection the worker's descriptor means at that       *)
(* moment.                                                                 *)
(***************************************************************************)
EXTENDS Integers, Sequences, FiniteSets, FiniteSetsExt, Functions

CONSTANTS Clients,
          Workers,      \* the threads of the pool
          MaxConns,     \* bound on the connections clients open
          MaxSignals,   \* bound on the SIGINT and SIGUSR1 the process gets
          MaxFd,        \* the highest descriptor the process may have
          Int8Max,      \* the largest value of con_args_t.socket
          Backlog,      \* MAX_CONNECTIONS, the argument of listen
          MaxJobs,      \* MAX_JOBS
          None

Conns == 1 .. MaxConns

\* The listening socket: 0, 1 and 2 are those the process was started with.
parentfd == 3

\* The descriptors that are left for connections.
Fds == parentfd + 1 .. MaxFd
Int8 == -(Int8Max + 1) .. Int8Max

ASSUME ServerAssumption ==
  /\ MaxConns \in Nat /\ MaxSignals \in Nat /\ MaxJobs \in Nat \ {0}
  /\ MaxFd \in Nat /\ Int8Max \in Nat /\ Backlog \in Nat
  /\ None \notin Conns \cup Int8

VARIABLES phase, pending, busy, finished,   \* the pool, see JobService
          lpc,        \* the listener's program counter
          con,        \* con_socket, a local of accept_connection
          accepted,   \* the connection con_socket was made for, or None
          args,       \* c_args->socket, or None when c_args is freed
          flag,       \* signal_flag_g is not 0
          signals,    \* how many signals were delivered
          backlog,    \* connections waiting to be accepted
          owner,      \* the connection each descriptor means, or None
          wpc,        \* where each worker is in handle_new_connection
          sock,       \* each worker's local socket
          waits,      \* the connection each client waits on, or None
          opened,     \* how many connections were opened
          replied,    \* connections on which a whole reply was written
          touched,    \* history: the jobs that used each connection
          leaked,     \* history: connections whose job was refused or gave up
          late,       \* history: connections accepted after a signal
          undefined   \* history: a worker read c_args after it was freed

poolVars == <<phase, pending, busy, finished>>
listenerVars == <<lpc, con, accepted, args, late>>
workerVars == <<wpc, sock, replied, touched, undefined>>
clientVars == <<waits, opened>>
vars == <<poolVars, listenerVars, workerVars, clientVars, flag, signals,
          backlog, owner, leaked>>

Pool == INSTANCE JobService WITH Jobs <- Conns, Idle <- None

ListenerLabels == {"create", "setup", "accept", "blocked", "assign", "addJob",
                   "test", "free", "destroy", "exited"}
WorkerLabels == {"start", "header", "stream", "close", "return"}

Init == /\ Pool!Init
        /\ lpc = "create"
        /\ con = 0
        /\ accepted = None
        /\ args = 0
        /\ flag = FALSE
        /\ signals = 0
        /\ backlog = <<>>
        /\ owner = [fd \in Fds |-> None]
        /\ wpc = [w \in Workers |-> "start"]
        /\ sock = [w \in Workers |-> 0]
        /\ waits = [k \in Clients |-> None]
        /\ opened = 0
        /\ replied = {}
        /\ touched = [c \in Conns |-> {}]
        /\ leaked = {}
        /\ late = {}
        /\ undefined = FALSE
-----------------------------------------------------------------------------
(* net_main: threadpool_create, then start_listener.                       *)
Create == /\ lpc = "create"
          /\ Pool!Open
          /\ lpc' = "setup"
          /\ UNCHANGED <<con, accepted, args, late, workerVars, clientVars,
                         flag, signals, backlog, owner, leaked>>

(* The options are refused, the signals cannot be set up, or the pool not  *)
(* be created.                                                             *)
CreateFails == /\ lpc = "create"
               /\ lpc' = "exited"
               /\ UNCHANGED <<poolVars, con, accepted, args, late, workerVars,
                              clientVars, flag, signals, backlog, owner,
                              leaked>>

(* socket, bind and listen: from here on clients can connect.  A failure   *)
(* leaves start_listener, and main destroys the pool.                      *)
Setup == /\ lpc = "setup"
         /\ lpc' \in {"accept", "destroy"}
         /\ UNCHANGED <<poolVars, con, accepted, args, late, workerVars,
                        clientVars, flag, signals, backlog, owner, leaked>>

CallAccept == /\ lpc = "accept"
              /\ lpc' = "blocked"
              /\ UNCHANGED <<poolVars, con, accepted, args, late, workerVars,
                             clientVars, flag, signals, backlog, owner,
                             leaked>>

FreeFds == { fd \in Fds : owner[fd] = None }

(* accept gives the connection the lowest descriptor that is free, behind  *)
(* those of the process itself.                                            *)
Accept == /\ lpc = "blocked" /\ backlog # <<>> /\ FreeFds # {}
          /\ con' = Min(FreeFds)
          /\ accepted' = Head(backlog)
          /\ owner' = [owner EXCEPT ![con'] = accepted']
          /\ backlog' = Tail(backlog)
          /\ late' = IF flag THEN late \cup {accepted'} ELSE late
          /\ lpc' = "assign"
          /\ UNCHANGED <<poolVars, args, workerVars, clientVars, flag,
                         signals, leaked>>

(* Without the two tests for ERROR the listener takes -1 for a connection. *)
AcceptFailsUnnoticed == /\ lpc = "blocked" /\ backlog # <<>>
                        /\ con' = -1
                        /\ accepted' = Head(backlog)
                        /\ lpc' = "assign"
                        /\ UNCHANGED <<poolVars, args, late, workerVars,
                                       clientVars, flag, signals, backlog,
                                       owner, leaked>>

(* With no descriptor left, in the process or in the system, accept fails  *)
(* and the loop goes on.                                                   *)
AcceptFails == /\ lpc = "blocked" /\ backlog # <<>>
               /\ lpc' = "test"
               /\ UNCHANGED <<poolVars, con, accepted, args, late, workerVars,
                              clientVars, flag, signals, backlog, owner,
                              leaked>>

(* int to int8_t.                                                          *)
Narrow(fd) == ((fd + Int8Max + 1) % (2 * (Int8Max + 1))) - (Int8Max + 1)

Assign == /\ lpc = "assign"
          /\ args' = Narrow(con)
          /\ lpc' = "addJob"
          /\ UNCHANGED <<poolVars, con, accepted, late, workerVars, clientVars,
                         flag, signals, backlog, owner, leaked>>

AddJob == /\ lpc = "addJob"
          /\ Len(pending) < MaxJobs
          /\ Pool!Submit(accepted)
          /\ lpc' = "test"
          /\ UNCHANGED <<con, accepted, args, late, workerVars, clientVars,
                         flag, signals, backlog, owner, leaked>>

(* The queue is full, or there is no memory for its node: nobody will ever *)
(* close this connection.                                                  *)
JobRefused == /\ lpc = "addJob"
              /\ leaked' = leaked \cup {accepted}
              /\ lpc' = "test"
              /\ UNCHANGED <<poolVars, con, accepted, args, late, workerVars,
                             clientVars, flag, signals, backlog, owner>>

LoopAgainAlways == TRUE
LoopAgain == ~flag

TestFlag == /\ lpc = "test"
            /\ lpc' = IF LoopAgain THEN "accept" ELSE "free"
            /\ UNCHANGED <<poolVars, con, accepted, args, late, workerVars,
                           clientVars, flag, signals, backlog, owner, leaked>>

FreeArgs == /\ lpc = "free"
            /\ args' = None
            /\ lpc' = "destroy"
            /\ UNCHANGED <<poolVars, con, accepted, late, workerVars,
                           clientVars, flag, signals, backlog, owner, leaked>>

(* threadpool_destroy; then main returns, and the process is gone with all *)
(* its descriptors.                                                        *)
Shutdown == /\ lpc = "destroy"
            /\ Pool!Close
            /\ UNCHANGED <<listenerVars, workerVars, clientVars, flag,
                           signals, backlog, owner, leaked>>

Exit == /\ lpc = "destroy"
        /\ Pool!Leave
        /\ lpc' = "exited"
        /\ owner' = [fd \in Fds |-> None]
        /\ UNCHANGED <<con, accepted, args, late, workerVars, clientVars, flag,
                       signals, backlog, leaked>>
-----------------------------------------------------------------------------
(* signal_handler runs on the listener or on another thread.  Only a       *)
(* signal that finds the listener inside accept makes it return (EINTR,    *)
(* because sa_flags is 0).                                                 *)
Signal == /\ signals < MaxSignals /\ lpc # "exited"
          /\ signals' = signals + 1
          /\ flag' = TRUE
          /\ lpc' \in {lpc} \cup IF lpc = "blocked" THEN {"test"} ELSE {}
          /\ UNCHANGED <<poolVars, con, accepted, args, late, workerVars,
                         clientVars, backlog, owner, leaked>>
-----------------------------------------------------------------------------
(* A worker takes the next job.                                            *)
Start(w) == /\ Pool!Start(w)
            /\ wpc' = [wpc EXCEPT ![w] = "start"]
            /\ UNCHANGED <<listenerVars, clientVars, sock, replied, touched,
                           undefined, flag, signals, backlog, owner, leaked>>

At(w, label) == busy[w] # None /\ wpc[w] = label

ReadSocketOnce(w) == IF sock[w] = 0 THEN args ELSE sock[w]
ReadSocket(w) == args

(* handle_new_connection copies the socket out of *args, which the         *)
(* listener may have overwritten since, or freed.  Without memory for the  *)
(* header it returns at once.                                              *)
ReadArgs(w) ==
  /\ At(w, "start")
  /\ IF args = None
     THEN undefined' = TRUE /\ \E s \in Int8 : sock' = [sock EXCEPT ![w] = s]
     ELSE sock' = [sock EXCEPT ![w] = ReadSocket(w)] /\ UNCHANGED undefined
  /\ \/ /\ wpc' = [wpc EXCEPT ![w] = "header"]
        /\ UNCHANGED leaked
     \/ /\ wpc' = [wpc EXCEPT ![w] = "return"]
        /\ leaked' = leaked \cup {busy[w]}
  /\ UNCHANGED <<poolVars, listenerVars, clientVars, replied, touched, flag,
                 signals, backlog, owner>>

(* The connection that the worker's descriptor means now; None if it means *)
(* nothing (EBADF), or none of the connections.                            *)
Target(w) == IF sock[w] \in Fds THEN owner[sock[w]] ELSE None

Touch(w) == touched' = IF Target(w) = None THEN touched
                       ELSE [touched EXCEPT ![Target(w)] = @ \cup {busy[w]}]

Answered(w) == replied \cup ({Target(w)} \ {None})

AfterErrorReturn == "return"
AfterError == "close"

(* recv fails, or the header is bad: send_error_header is the reply.       *)
BadHeader(w) == /\ At(w, "header")
                /\ Touch(w)
                /\ replied' = Answered(w)
                /\ wpc' = [wpc EXCEPT ![w] = AfterError]
                /\ UNCHANGED <<poolVars, listenerVars, clientVars, sock,
                               undefined, flag, signals, backlog, owner,
                               leaked>>

GoodHeader(w) == /\ At(w, "header") /\ Target(w) # None
                 /\ Touch(w)
                 /\ wpc' = [wpc EXCEPT ![w] = "stream"]
                 /\ UNCHANGED <<poolVars, listenerVars, clientVars, sock,
                                replied, undefined, flag, signals, backlog,
                                owner, leaked>>

Stream(w) == /\ At(w, "stream")
             /\ Touch(w)
             /\ replied' = Answered(w)
             /\ wpc' = [wpc EXCEPT ![w] = "close"]
             /\ UNCHANGED <<poolVars, listenerVars, clientVars, sock,
                            undefined, flag, signals, backlog, owner, leaked>>

(* Without memory for what it would reply, or read next, the worker closes *)
(* the connection without a word.                                          *)
NoReply(w) == /\ At(w, "header") \/ At(w, "stream")
              /\ Touch(w)
              /\ wpc' = [wpc EXCEPT ![w] = "close"]
              /\ UNCHANGED <<poolVars, listenerVars, clientVars, sock, replied,
                             undefined, flag, signals, backlog, owner, leaked>>

ClosedNot(fd) == owner
Closed(fd) == [f \in Fds |-> IF f = fd THEN None ELSE owner[f]]

(* close(socket): with whatever the number means by now.                   *)
CloseSocket(w) == /\ At(w, "close")
                  /\ owner' = Closed(sock[w])
                  /\ wpc' = [wpc EXCEPT ![w] = "return"]
                  /\ UNCHANGED <<poolVars, listenerVars, clientVars, sock,
                                 replied, touched, undefined, flag, signals,
                                 backlog, leaked>>

Return(w) == /\ At(w, "return")
             /\ Pool!Finish(w)
             /\ UNCHANGED <<listenerVars, workerVars, clientVars, flag,
                            signals, backlog, owner, leaked>>
-----------------------------------------------------------------------------
(* client.py: connect and send a file, then wait for the whole reply.  A   *)
(* connection that ends without one ends the client.  Nobody interrupts    *)
(* it, and its entries are files: else it connects again at once.          *)
Connect(k) == /\ waits[k] = None /\ opened < MaxConns
              /\ lpc \notin {"create", "setup", "exited"}
              /\ Len(backlog) < Backlog
              /\ opened' = opened + 1
              /\ waits' = [waits EXCEPT ![k] = opened']
              /\ backlog' = Append(backlog, opened')
              /\ UNCHANGED <<poolVars, listenerVars, workerVars, flag,
                             signals, owner, leaked>>

GetReply(k) == /\ waits[k] \in replied
               /\ waits' = [waits EXCEPT ![k] = None]
               /\ UNCHANGED <<poolVars, listenerVars, workerVars, opened,
                              flag, signals, backlog, owner, leaked>>
-----------------------------------------------------------------------------
ListenerStep == \/ Create \/ CreateFails \/ Setup \/ CallAccept \/ Accept
                \/ AcceptFails \/ Assign \/ AddJob \/ JobRefused \/ TestFlag \/ FreeArgs
                \/ Shutdown \/ Exit

WorkerStep(w) == \/ Start(w) \/ ReadArgs(w)
                 \/ BadHeader(w) \/ GoodHeader(w) \/ Stream(w) \/ NoReply(w)
                 \/ CloseSocket(w) \/ Return(w)

(* Nobody connects any more, or the process is gone. *)
Quiet == lpc \in {"blocked", "exited"} /\ UNCHANGED vars

Next == \/ ListenerStep
        \/ Signal
        \/ \E w \in Workers : WorkerStep(w)
        \/ \E k \in Clients : Connect(k) \/ GetReply(k)
        \/ Quiet

(* The threads are scheduled; clients may stop and signals may not come.   *)
Spec == /\ Init /\ [][Next]_vars
        /\ WF_vars(ListenerStep)
        /\ \A w \in Workers : WF_vars(WorkerStep(w))
-----------------------------------------------------------------------------
Jobs == Range(pending) \cup (Range(busy) \ {None})

(* Every variable keeps its type: a descriptor is one that accept gave,    *)
(* the queue and the backlog keep their bounds, and only connections are   *)
(* ever answered.                                                          *)
TypeOK == /\ phase \in {"new", "open", "closed", "gone"}
          /\ pending \in Seq(Conns) /\ Len(pending) <= MaxJobs
          /\ busy \in [Workers -> Conns \cup {None}]
          /\ finished \subseteq Conns
          /\ lpc \in ListenerLabels
          /\ con \in Fds \cup {0}
          /\ accepted \in Conns \cup {None}
          /\ args \in Int8 \cup {None}
          /\ flag \in BOOLEAN
          /\ signals \in 0 .. MaxSignals
          /\ backlog \in Seq(Conns) /\ Len(backlog) <= Backlog
          /\ owner \in [Fds -> Conns \cup {None}]
          /\ wpc \in [Workers -> WorkerLabels]
          /\ sock \in [Workers -> Int8]
          /\ waits \in [Clients -> Conns \cup {None}]
          /\ opened \in 0 .. MaxConns
          /\ replied \subseteq Conns
          /\ touched \in [Conns -> SUBSET Conns]
          /\ leaked \subseteq Conns
          /\ late \subseteq Conns
          /\ undefined \in BOOLEAN

(* A worker only ever uses the connection its job was submitted for,       *)
(* although its descriptor comes from a con_args_t that the listener       *)
(* overwrites, and descriptors are used again.  It needs a single client,  *)
(* and no shutdown between the submission and the worker's first read.     *)
OwnConnection == ~undefined => \A c \in Conns : touched[c] \subseteq {c}

(* con_args_t.socket is an int8_t.  A client that waits for each reply     *)
(* never has more than one connection besides those the workers are about  *)
(* to close.  Four descriptors, with the listening socket, are the         *)
(* process's own, so that with up to Int8Max - 4 threads no descriptor is  *)
(* truncated on its way to the worker.                                     *)
SocketFits == lpc = "addJob" => args = con

(* No descriptor is lost: every open connection still has a job to come    *)
(* that will close it, unless the job was refused or found no memory.      *)
SocketsAccounted ==
  ~undefined =>
    \A fd \in Fds :
      LET c == owner[fd]
      IN  c # None => \/ c \in Jobs \cup leaked
                      \/ lpc \in {"assign", "addJob"} /\ con = fd

(* signal_flag_g is only tested between two calls of accept: after a       *)
(* signal the server takes one more connection at most.                    *)
AtMostOneAfterSignal == Cardinality(late) <= 1

(* After a signal the server exits, at the latest when somebody connects:  *)
(* accept returns, the pool is closed and its workers come to an end.      *)
ListenerStops == flag /\ backlog # <<>> ~> lpc = "exited"

(* Every connection that accept gave to the process is closed in the end,  *)
(* unless its job was refused or found no memory.  It needs a single       *)
(* client, see OwnConnection.                                              *)
AcceptedIsClosed ==
  \A c \in Conns :
    c \in Range(owner) ~> c \notin Range(owner) \/ c \in leaked

(* threadpool.h and README: c_args is passed to the workers as their       *)
(* argument; memory safety asks that it live until they read it.           *)
NoReadAfterFree == ~undefined
=============================================================================
