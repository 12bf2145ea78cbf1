----------------------------- MODULE NetSession -----------------------------
(***************************************************************************)
(* One connection of netcalc, end to end: the client of                    *)
(* 5_NetCalc/client/client.py and the worker that serves it, in            *)
(* handle_new_connection, read_net_header and parse_stream of              *)
(* 5_NetCalc/src/net_handler.c with safe_read and safe_write of            *)
(* 0_Common/src/file_io.c.                                                 *)
(*                                                                         *)
(* The client sends a net header and a file (a file header and equations)  *)
(* and reads nothing before it has sent it all; the worker answers each    *)
(* equation as it reads it.  Each direction is a TCP stream with room for  *)
(* so many units, delivered in pieces of any length.  What a unit means    *)
(* follows from its place in the stream, so a stream is how much of it was *)
(* sent and is still under way.                                            *)
(***************************************************************************)
EXTENDS Integers

CONSTANTS NetHeader,    \* NET_HEADER_SIZE, in units
          FileHeader,   \* HEADER_SIZE
          Equation,     \* EQUATION_SIZE
          Solution,     \* SOLUTION_SIZE
          MaxEquations, \* bound on the equations of a file
          CapIn,        \* units under way from client to server
          CapOut        \* units under way from server to client

ASSUME SessionAssumption ==
  /\ NetHeader \in Nat \ {0} /\ FileHeader \in Nat \ {0}
  /\ Equation \in Nat \ {0} /\ Solution \in Nat \ {0}
  /\ MaxEquations \in Nat \ {0}
  /\ CapIn \in Nat \ {0} /\ CapOut \in Nat /\ CapOut >= NetHeader

VARIABLES kind,        \* what the headers are: "good", "badNet", "badFile"
          announced,   \* num_equations of the file header
          contained,   \* how many equations the file holds
          unsolvable,  \* the places of those that solve_func refuses
          cpc,         \* the client's program counter
          csent,       \* units it has sent
          cgot,        \* units it has read
          left,        \* it ended before it had what it came for
          up, down,    \* units under way to the server, to the client
          reply,       \* what it began to write: an error, a file, or neither,
                       \* because a part of the net header is missing
          spc,         \* the worker's program counter
          got,         \* units it has read of the current item
          whole,       \* the current item came with a single read
          put,         \* units it has written of the current item
          solved,      \* equations_read
          clean,       \* history: no item in pieces, no error, nobody left
          fault,       \* history: an item was read in whole but refused
          undefined    \* history: read_net_header looked beyond its buffer

file == <<kind, announced, contained, unsolvable>>
clientVars == <<cpc, csent, cgot, left>>
serverVars == <<reply, spc, got, whole, put, solved, fault>>
history == <<clean, undefined>>
vars == <<file, clientVars, serverVars, up, down, history>>

Reading == {"netHeader", "fileHeader", "equation"}
Writing == {"error", "headers", "solution"}

InLen == CASE spc = "netHeader" -> NetHeader
           [] spc = "fileHeader" -> FileHeader
           [] spc = "equation" -> Equation

OutLen == CASE spc = "error" -> NetHeader
            [] spc = "headers" -> NetHeader + FileHeader
            [] spc = "solution" -> Solution

(* What client.py sends, and what it waits for after the net header.       *)
Request == NetHeader + FileHeader + Equation * contained
Expected == FileHeader + Solution * announced

ServerOpen == spc \notin {"closed", "killed"}
WorkerDone == spc \in {"closed", "killed", "abandoned"}
ClientOpen == cpc # "done"

Init == /\ kind \in {"good", "badNet", "badFile"}
        /\ announced \in 1 .. MaxEquations
        /\ contained \in 0 .. MaxEquations
        /\ unsolvable \in SUBSET (1 .. MaxEquations)
        /\ cpc = "send"
        /\ csent = 0
        /\ cgot = 0
        /\ left = FALSE
        /\ up = 0
        /\ down = 0
        /\ reply = "none"
        /\ spc = "netHeader"
        /\ got = 0
        /\ whole = TRUE
        /\ put = 0
        /\ solved = 0
        /\ clean = TRUE
        /\ fault = FALSE
        /\ undefined = FALSE
-----------------------------------------------------------------------------
(* client.py: sock.sendall(header + file).                                 *)
ClientSend == /\ cpc = "send" /\ csent < Request /\ ServerOpen
              /\ \E n \in 1 .. Request - csent :
                   /\ up + n <= CapIn
                   /\ up' = up + n
                   /\ csent' = csent + n
              /\ UNCHANGED <<file, cpc, cgot, left, serverVars, down, history>>

ClientSent == /\ cpc = "send" /\ csent = Request
              /\ cpc' = "recvHeader"
              /\ UNCHANGED <<file, csent, cgot, left, serverVars, up, down,
                             history>>

(* sock.recv(48): struct.unpack raises unless all of it comes at once.  An *)
(* error header ends the file, and so may what is none.                    *)
ClientHeader ==
  /\ cpc = "recvHeader"
  /\ \E n \in 1 .. NetHeader :
       /\ n <= down
       /\ \/ /\ n < NetHeader \/ reply \in {"error", "garbled"}
             /\ cpc' = "done"
             /\ down' = 0
          \/ /\ n = NetHeader /\ reply # "error"
             /\ cpc' = "recvBody"
             /\ down' = down - n
       /\ left' = (cpc' = "done" /\ (n < NetHeader \/ reply = "garbled"))
       /\ clean' = (clean /\ n = NetHeader)
  /\ UNCHANGED <<file, csent, cgot, serverVars, up, undefined>>

ClientBody == /\ cpc = "recvBody" /\ cgot < Expected
              /\ \E n \in 1 .. Expected :
                   /\ n <= down
                   /\ down' = down - n
                   /\ cgot' = cgot + n
              /\ UNCHANGED <<file, cpc, csent, left, serverVars, up, history>>

ClientDone == /\ cpc = "recvBody" /\ cgot >= Expected
              /\ cpc' = "done"
              /\ down' = 0
              /\ UNCHANGED <<file, csent, cgot, left, serverVars, up, history>>

(* The server has closed the connection: sendall raises, recv has nothing  *)
(* left, or the server left something unread and the connection is reset.  *)
ClientCutOff == /\ ClientOpen /\ ~ServerOpen
                /\ IF cpc = "send" THEN csent < Request
                                   ELSE down = 0 \/ up > 0
                /\ cpc' = "done"
                /\ down' = 0
                /\ UNCHANGED <<file, csent, cgot, left, serverVars, up,
                               history>>

(* The client is interrupted, at any time.                                 *)
ClientLeaves == /\ ClientOpen
                /\ cpc' = "done"
                /\ left' = TRUE
                /\ clean' = FALSE
                /\ down' = 0
                /\ UNCHANGED <<file, csent, cgot, serverVars, up, undefined>>
-----------------------------------------------------------------------------
Goto(label) == spc' = label /\ got' = 0 /\ put' = 0

ReadComplete == got = InLen

(* recv or read returns some of the bytes asked for.                       *)
ReadPiece == /\ spc \in Reading /\ ~ReadComplete
             /\ \E n \in 1 .. InLen - got :
                  /\ n <= up
                  /\ up' = up - n
                  /\ got' = got + n
                  /\ whole' = (n = InLen)
             /\ clean' = (clean /\ whole')
             /\ UNCHANGED <<file, clientVars, reply, spc, put, solved, fault,
                            down, undefined>>

AfterUnsolvableGoOn == "equation"
AfterUnsolvable == "close"
AfterSolveGoOn == "equation"
AfterSolve == "solution"

WholeItemAny == got > 0
(* safe_read has returned the length that was asked for.                   *)
WholeItem == ReadComplete /\ whole

ReadWhole(item) == /\ spc = item /\ WholeItem
                   /\ UNCHANGED <<file, clientVars, whole, fault, up, down,
                                  history>>

NetHeaderRead == /\ ReadWhole("netHeader")
                 /\ IF kind = "badNet"
                    THEN Goto("error") /\ reply' = "error"
                    ELSE Goto("fileHeader") /\ UNCHANGED reply
                 /\ UNCHANGED solved

(* check_header: is_solved must be 0 and num_equations positive.           *)
FileHeaderRead == /\ ReadWhole("fileHeader")
                  /\ IF kind = "badFile"
                     THEN Goto("error") /\ reply' = "error"
                     ELSE Goto("headers") /\ reply' = "file"
                  /\ UNCHANGED solved

(* set_calc_file and solve_func; one equation they refuse ends it all.     *)
EquationRead == /\ ReadWhole("equation")
                /\ IF solved + 1 \in unsolvable
                   THEN Goto(AfterUnsolvable) /\ UNCHANGED solved
                   ELSE Goto(AfterSolve) /\ solved' = solved + 1
                /\ UNCHANGED reply

(* read_net_header after a piece: buf points so many headers further on,   *)
(* the rest is stored there and the checks read what is there.             *)
UndefinedHeader == /\ \E label \in {"error", "fileHeader", "killed"} :
                        /\ Goto(label)
                        /\ reply' = IF label = "error" THEN "error" ELSE reply
                   /\ clean' = FALSE
                   /\ undefined' = TRUE
                   /\ UNCHANGED <<file, clientVars, whole, solved, fault, up,
                                  down>>

AfterFailedReadError == "error"
AfterFailedRead == IF spc = "equation" THEN "close" ELSE "error"

(* What a failed safe_read of an item leads to.                            *)
GiveUp == /\ Goto(AfterFailedRead)
          /\ reply' = IF spc = "equation" THEN reply ELSE "error"
          /\ clean' = FALSE
          /\ UNCHANGED <<file, clientVars, whole, solved, up, down, undefined>>

(* safe_read counts bytes_read, the last piece, against len: after the     *)
(* last of several pieces it reads 0 more bytes, takes the 0 for the end   *)
(* of the file and returns 0.                                              *)
PiecewiseRefused == /\ spc \in Reading /\ ReadComplete /\ ~whole
                    /\ IF spc = "netHeader"
                       THEN UndefinedHeader
                       ELSE GiveUp /\ fault' = TRUE

ItemFails == /\ spc \in Reading /\ ~ReadComplete
             /\ IF spc = "netHeader" /\ got > 0
                THEN UndefinedHeader
                ELSE GiveUp /\ UNCHANGED fault

(* Without the test for 0 the loop goes round for ever.                    *)
ReadEndsUnnoticed == /\ spc \in Reading /\ ~ReadComplete
                     /\ up = 0 /\ ~ClientOpen
                     /\ UNCHANGED vars

(* recv or read returns 0, because the client has closed its end.          *)
ReadEnds == up = 0 /\ ~ClientOpen /\ ItemFails

(* recv or read returns -1, with EINTR for example.                        *)
ReadError == ItemFails

(* safe_write goes on until all is written.                                *)
WritePiece == /\ spc \in Writing /\ put < OutLen /\ ClientOpen
              /\ \E n \in 1 .. OutLen - put :
                   /\ down + n <= CapOut
                   /\ down' = down + n
                   /\ put' = put + n
              /\ UNCHANGED <<file, clientVars, reply, spc, got, whole, solved,
                             fault, up, history>>

(* The client has closed its end.  A write may still be accepted; or it    *)
(* returns an error, which no caller takes for one; or SIGPIPE, which the  *)
(* program does not handle, ends the process.                              *)
WriteToNobody == /\ spc \in Writing /\ put < OutLen /\ ~ClientOpen
                 /\ \/ put' = OutLen /\ UNCHANGED <<spc, got>>
                    \/ Goto("killed")
                 /\ UNCHANGED <<file, clientVars, reply, whole, solved, fault,
                                up, down, history>>

(* What is left of what safe_write is writing.                             *)
RestIsMissing == /\ put' = IF spc = "headers" /\ put < NetHeader THEN NetHeader
                                                                ELSE OutLen
                 /\ reply' = IF put' = NetHeader /\ spc = "headers" THEN "garbled"
                                                                    ELSE reply

(* write returns -1, with EINTR for example, and the rest is not written:  *)
(* safe_write returns (size_t)-1, and no caller takes it for an error.     *)
WriteError == /\ spc \in Writing /\ put < OutLen /\ ClientOpen
              /\ RestIsMissing
              /\ clean' = FALSE
              /\ UNCHANGED <<file, clientVars, spc, got, whole, solved, fault,
                             up, down, undefined>>

(* calloc fails before an item is read or written.  Without memory for the *)
(* net header handle_new_connection returns at once and nobody closes the  *)
(* socket; a solution without memory is left out; else parse_stream ends.  *)
NoMemory ==
  /\ got = 0 /\ put \in {0} \cup IF spc = "headers" THEN {NetHeader} ELSE {}
  /\ \/ spc = "netHeader" /\ Goto("abandoned") /\ UNCHANGED reply
     \/ spc \in {"fileHeader", "headers", "equation"} /\ Goto("close")
        /\ UNCHANGED reply
     \/ spc = "error" /\ Goto("close") /\ reply' = "none"
     \/ spc = "solution" /\ RestIsMissing /\ UNCHANGED <<spc, got>>
  /\ clean' = FALSE
  /\ UNCHANGED <<file, clientVars, whole, solved, fault, up, down, undefined>>

MoreEquationsOneLess == solved + 1 < announced
MoreEquationsOneMore == solved <= announced
MoreEquations == solved < announced

Written == /\ spc \in Writing /\ put = OutLen
           /\ Goto(IF spc # "error" /\ MoreEquations THEN "equation"
                                                     ELSE "close")
           /\ UNCHANGED <<file, clientVars, reply, whole, solved, fault, up,
                          down, history>>

CloseSocket == /\ spc = "close"
               /\ spc' = "closed"
               /\ UNCHANGED <<file, clientVars, reply, got, whole, put,
                              solved, fault, up, down, history>>
-----------------------------------------------------------------------------
ClientStep == \/ ClientSend \/ ClientSent \/ ClientHeader \/ ClientBody
              \/ ClientDone \/ ClientCutOff

ServerStep == \/ ReadPiece \/ PiecewiseRefused \/ ReadEnds
              \/ NetHeaderRead \/ FileHeaderRead \/ EquationRead
              \/ WritePiece \/ WriteToNobody \/ Written \/ CloseSocket

(* Both are done, or the client waits on a socket that nobody serves.      *)
Ended == /\ WorkerDone /\ (ClientOpen => spc = "abandoned")
         /\ UNCHANGED vars

Next == \/ ClientStep \/ ClientLeaves
        \/ ServerStep \/ ReadError \/ WriteError \/ NoMemory
        \/ Ended

(* Client and worker go on when they can; the client need not leave, and   *)
(* no call need fail.                                                      *)
Spec == Init /\ [][Next]_vars /\ WF_vars(ClientStep) /\ WF_vars(ServerStep)
-----------------------------------------------------------------------------
(* Every variable keeps its type, and no more solutions are begun than the *)
(* file header announced.                                                  *)
TypeOK == /\ kind \in {"good", "badNet", "badFile"}
          /\ announced \in 1 .. MaxEquations
          /\ contained \in 0 .. MaxEquations
          /\ unsolvable \subseteq 1 .. MaxEquations
          /\ cpc \in {"send", "recvHeader", "recvBody", "done"}
          /\ csent \in 0 .. Request
          /\ cgot \in 0 .. Expected
          /\ left \in BOOLEAN
          /\ up \in 0 .. CapIn
          /\ down \in 0 .. CapOut
          /\ reply \in {"none", "error", "file", "garbled"}
          /\ spc \in Reading \cup Writing \cup {"close", "closed", "killed",
                                              "abandoned"}
          /\ spc \in Reading => got \in 0 .. InLen
          /\ spc \in Writing => put \in 0 .. OutLen
          /\ whole \in BOOLEAN
          /\ solved \in 0 .. announced
          /\ clean \in BOOLEAN
          /\ fault \in BOOLEAN
          /\ undefined \in BOOLEAN

(* However the stream is cut into pieces, the worker starts every item at  *)
(* its first byte: what it has taken from the stream is the headers and    *)
(* the equations it has solved.                                            *)
Aligned ==
  ~undefined =>
    /\ spc = "fileHeader" => csent - up = NetHeader + got
    /\ spc \in {"equation", "solution"} =>
         csent - up = NetHeader + FileHeader + Equation * solved + got

ServerWaits == /\ ClientOpen
               /\ \/ spc \in Reading /\ ~ReadComplete /\ up = 0
                  \/ spc \in Writing /\ put < OutLen /\ down = CapOut

ClientWaits == /\ ServerOpen
               /\ \/ cpc = "send" /\ csent < Request /\ up = CapIn
                  \/ cpc \in {"recvHeader", "recvBody"} /\ down = 0
                     /\ cgot < Expected

(* The reply fits into the stream, and the file is no shorter than its     *)
(* header says.                                                            *)
Completable == /\ NetHeader + Expected <= CapOut
               /\ contained >= announced

(* Client and worker never wait for each other, although the client sends  *)
(* everything before it reads, when the reply fits into the stream and the *)
(* file is as long as its header says.                                     *)
NoStall == Completable => ~(ServerWaits /\ ClientWaits)

(* SIGPIPE ends the server only when a client leaves before it has its     *)
(* reply: the worker writes no more than the client waits for.             *)
OnlyLeaverKills == spc = "killed" => left \/ undefined

(* The worker gets through with every connection whose file is complete    *)
(* and whose reply fits, and is free for the next job.                     *)
ServerFinishes == Completable ~> WorkerDone

(* Whatever the file lacks and wherever the client stops, the worker       *)
(* notices that the client is gone, and is free for the next job: a file   *)
(* that is shorter than its header says holds it no longer than that.      *)
GoneClientFreesWorker == ~ClientOpen ~> WorkerDone

(* Nor does the client wait for ever: it has its reply, or it learns that  *)
(* there will be no more of it, unless there was no memory to serve it.    *)
ClientFinishes == Completable ~> ~ClientOpen \/ spc = "abandoned"

(* A file that solve_func solves, and that its header describes. *)
Servable == /\ Completable
            /\ kind = "good" /\ contained = announced
            /\ unsolvable \cap (1 .. announced) = {}

(* A client with a file the server can solve gets its whole reply, unless  *)
(* an item arrived in pieces, a call failed, or it left.                   *)
WholeReply == Servable ~> (~clean \/ (cgot = Expected /\ cpc = "done"))

Stage == CASE spc \in {"netHeader", "fileHeader"} -> "request"
           [] spc = "error" -> "refusing"
           [] spc \in {"headers", "equation", "solution"} -> "answering"
           [] OTHER -> "over"

Service == INSTANCE SessionService WITH stage <- Stage, answered <- solved

(* The worker serves a connection as SessionService says, whatever fails:  *)
(* no error header inside an answer, and no solution too many.             *)
ImplementsSession == Service!Spec

(* file_io.h of safe_read: "A safe read function that reads the entire     *)
(* contents of buf".  An item of which every byte was read is not refused. *)
WholeItemIsAccepted == ~fault

(* README: "The focus was on memory safety and concurrency."  The checks   *)
(* of read_net_header read the header it was given, and not what lies      *)
(* behind it.                                                              *)
HeaderStaysInBuffer == ~undefined
=============================================================================
