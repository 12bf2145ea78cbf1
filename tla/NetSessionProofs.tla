-------------------------- MODULE NetSessionProofs --------------------------
(***************************************************************************)
(* Proofs about NetSession for all sizes of headers, equations, solutions  *)
(* and streams, and for files of any length: the worker stays in step with *)
(* the stream, client and worker do not wait for each other, only a client *)
(* that leaves can bring SIGPIPE upon the server, and every session is one *)
(* that SessionService describes.                                          *)
(***************************************************************************)
EXTENDS NetSession, TLAPS

Over == {"close", "closed", "killed", "abandoned"}

(* Where the client is in its exchange.                                    *)
ClientInv == /\ cpc \in {"recvHeader", "recvBody"} => csent = Request
             /\ cpc \in {"send", "recvHeader"} => cgot = 0
             /\ cpc = "done" => down = 0
             /\ left => cpc = "done"

(* What the worker has counted, and where.                                 *)
WorkerInv == /\ spc \in {"netHeader", "fileHeader", "error", "headers"} => solved = 0
             /\ spc = "equation" => solved < announced
             /\ spc = "solution" => solved > 0
             /\ spc \in Writing => got = 0
             /\ reply = "error" => spc \in {"error"} \cup Over

(* What the worker has taken from the stream is at most what lies before   *)
(* its place in the stream, and exactly that unless read_net_header lost   *)
(* its place.                                                              *)
Consumed(n) == /\ csent - up <= n
               /\ ~undefined => csent - up = n

InputInv == /\ spc = "netHeader" => Consumed(got)
            /\ spc = "fileHeader" => Consumed(NetHeader + got)
            /\ spc = "headers" => Consumed(NetHeader + FileHeader)
            /\ spc \in {"equation", "solution"} =>
                 Consumed(NetHeader + FileHeader + Equation * solved + got)

(* What has been put on the stream to a client that still reads is at most *)
(* what the worker has written.                                            *)
Sent == IF cpc = "recvBody" THEN NetHeader + cgot + down ELSE down

OutputInv == /\ spc \in {"netHeader", "fileHeader"} => Sent = 0
             /\ spc \in {"error", "headers"} => Sent <= put
             /\ spc \in {"equation"} \cup Over =>
                  Sent <= NetHeader + FileHeader + Solution * solved
             /\ spc = "solution" =>
                  Sent + Solution
                    <= NetHeader + FileHeader + Solution * solved + put

(* When the client ended with all that it came for, or with an error, the  *)
(* worker has nothing left to write.                                       *)
DoneInv == cpc = "done" /\ ~left =>
             \/ spc \in Over
             \/ spc = "error" /\ put = NetHeader
             \/ spc = "solution" /\ put = Solution /\ solved = announced

IInv == /\ TypeOK /\ ClientInv /\ WorkerInv
        /\ InputInv /\ OutputInv /\ DoneInv /\ OnlyLeaverKills
-----------------------------------------------------------------------------
LEMMA Products ==
  ASSUME NEW k \in Nat \ {0}, NEW n \in Nat
  PROVE  /\ k * n \in Nat
         /\ k * 0 = 0
         /\ k * (n + 1) = k * n + k
BY SMT

LEMMA ProductsGrow ==
  ASSUME NEW k \in Nat \ {0}, NEW m \in Nat, NEW n \in Nat, m < n
  PROVE  k * m + k <= k * n
BY SMT

LEMMA InitIInv == Init => IInv
<1> SUFFICES ASSUME Init PROVE IInv
  OBVIOUS
<1> USE SessionAssumption DEF Init
<1>1. Request \in Nat /\ Expected \in Nat
  BY Products DEF Request, Expected
<1>2. TypeOK
  <2>1. unsolvable \subseteq 1 .. MaxEquations
    OBVIOUS
  <2>2. InLen = NetHeader /\ spc \notin Writing
    BY DEF InLen, Writing
  <2>3. got \in 0 .. InLen /\ spc \in Reading
    BY <2>2 DEF Reading
  <2>4. csent \in 0 .. Request /\ cgot \in 0 .. Expected
    BY <1>1
  <2>5. solved \in 0 .. announced /\ up \in 0 .. CapIn /\ down \in 0 .. CapOut
    OBVIOUS
  <2> QED
    BY <2>1, <2>2, <2>3, <2>4, <2>5 DEF TypeOK
<1>3. ClientInv /\ WorkerInv /\ DoneInv /\ OnlyLeaverKills
  BY DEF ClientInv, WorkerInv, DoneInv, OnlyLeaverKills, Writing, Over
<1>4. InputInv /\ OutputInv
  BY DEF InputInv, Consumed, OutputInv, Sent, Over
<1> QED
  BY <1>2, <1>3, <1>4 DEF IInv

LEMMA SizesType == TypeOK => Request \in Nat /\ Expected \in Nat
BY SessionAssumption, Products DEF Request, Expected, TypeOK

(* What is behind the solved equations, and their solutions. *)
LEMMA CountsType ==
  TypeOK => /\ solved \in Nat /\ announced \in Nat /\ contained \in Nat
            /\ Equation * solved \in Nat /\ Solution * solved \in Nat
            /\ Equation * 0 = 0 /\ Solution * 0 = 0
            /\ Equation * (solved + 1) = Equation * solved + Equation
            /\ Solution * (solved + 1) = Solution * solved + Solution
            /\ Solution * announced \in Nat
            /\ Solution <= Solution * announced
            /\ Solution * solved <= Solution * announced
            /\ solved < announced =>
                 Solution * solved + Solution <= Solution * announced
<1> SUFFICES ASSUME TypeOK
             PROVE  CountsType!2
  OBVIOUS
<1>1. /\ solved \in Nat /\ announced \in Nat /\ contained \in Nat
      /\ 0 < announced /\ solved <= announced
  BY SessionAssumption DEF TypeOK
<1>2. /\ Equation * solved \in Nat /\ Solution * solved \in Nat
      /\ Equation * 0 = 0 /\ Solution * 0 = 0
      /\ Equation * (solved + 1) = Equation * solved + Equation
      /\ Solution * (solved + 1) = Solution * solved + Solution
      /\ Solution * announced \in Nat
  BY <1>1, SessionAssumption, Products
<1>3. Solution * 0 + Solution <= Solution * announced
  BY <1>1, SessionAssumption, ProductsGrow
<1>4. solved < announced => Solution * solved + Solution <= Solution * announced
  BY <1>1, SessionAssumption, ProductsGrow
<1>5. solved = announced => Solution * solved = Solution * announced
  OBVIOUS
<1> QED
  BY <1>1, <1>2, <1>3, <1>4, <1>5, SessionAssumption

LEMMA ClientSendIInv == IInv /\ ClientSend => IInv'
<1> SUFFICES ASSUME IInv, ClientSend PROVE IInv'
  OBVIOUS
<1> USE SessionAssumption DEF IInv, ClientSend, file, serverVars, history
<1>1. /\ Request \in Nat /\ Expected \in Nat
      /\ Request' = Request /\ Expected' = Expected
  BY SizesType DEF Request, Expected
<1>2. TypeOK'
  BY <1>1 DEF TypeOK, InLen, OutLen, Reading, Writing
<1>3. ClientInv'
  BY <1>1 DEF ClientInv, TypeOK
<1>4. WorkerInv'
  BY <1>1 DEF WorkerInv, TypeOK, Reading, Writing, Over
<1>5. InputInv'
  BY <1>1, Products DEF InputInv, Consumed, TypeOK, WorkerInv, Reading, Writing, InLen
<1>6. OutputInv'
  BY <1>1, Products DEF OutputInv, Sent, TypeOK, WorkerInv, ClientInv, Reading, Writing, OutLen, Over
<1>7. DoneInv' /\ OnlyLeaverKills'
  BY <1>1 DEF DoneInv, OnlyLeaverKills, TypeOK, ClientInv, WorkerInv, Reading, Writing, OutLen, Over
<1> QED
  BY <1>2, <1>3, <1>4, <1>5, <1>6, <1>7

LEMMA ClientSentIInv == IInv /\ ClientSent => IInv'
<1> SUFFICES ASSUME IInv, ClientSent PROVE IInv'
  OBVIOUS
<1> USE SessionAssumption DEF IInv, ClientSent, file, serverVars, history
<1>1. /\ Request \in Nat /\ Expected \in Nat
      /\ Request' = Request /\ Expected' = Expected
  BY SizesType DEF Request, Expected
<1>2. TypeOK'
  BY <1>1 DEF TypeOK, InLen, OutLen, Reading, Writing
<1>3. ClientInv'
  BY <1>1 DEF ClientInv, TypeOK
<1>4. WorkerInv'
  BY <1>1 DEF WorkerInv, TypeOK, Reading, Writing, Over
<1>5. InputInv'
  BY <1>1, Products DEF InputInv, Consumed, TypeOK, WorkerInv, Reading, Writing, InLen
<1>6. OutputInv'
  BY <1>1, Products DEF OutputInv, Sent, TypeOK, WorkerInv, ClientInv, Reading, Writing, OutLen, Over
<1>7. DoneInv' /\ OnlyLeaverKills'
  BY <1>1 DEF DoneInv, OnlyLeaverKills, TypeOK, ClientInv, WorkerInv, Reading, Writing, OutLen, Over
<1> QED
  BY <1>2, <1>3, <1>4, <1>5, <1>6, <1>7

LEMMA ClientHeaderIInv == IInv /\ ClientHeader => IInv'
<1> SUFFICES ASSUME IInv, ClientHeader PROVE IInv'
  OBVIOUS
<1> USE SessionAssumption DEF IInv, ClientHeader, file, serverVars
<1>1. /\ Request \in Nat /\ Expected \in Nat
      /\ Request' = Request /\ Expected' = Expected
  BY SizesType DEF Request, Expected
<1>2. TypeOK'
  BY <1>1 DEF TypeOK, InLen, OutLen, Reading, Writing
<1>3. ClientInv'
  BY <1>1 DEF ClientInv, TypeOK
<1>4. WorkerInv'
  BY <1>1 DEF WorkerInv, TypeOK, Reading, Writing, Over
<1>5. InputInv'
  BY <1>1, Products DEF InputInv, Consumed, TypeOK, WorkerInv, Reading, Writing, InLen
<1>6. OutputInv'
  <2>1. Sent = down /\ down \in Nat
    BY DEF Sent, TypeOK
  <2>2. Sent' = 0 \/ Sent' = down
    <3>1. cpc = "recvHeader" /\ cgot' = 0
      BY DEF ClientInv
    <3>2. CASE cpc' = "done" /\ down' = 0
      BY <3>2 DEF Sent
    <3>3. CASE cpc' = "recvBody" /\ down' = down - NetHeader
      BY <2>1, <3>1, <3>3 DEF Sent
    <3> QED
      BY <3>2, <3>3
  <2>3. spc \in {"error", "headers", "solution"} => put \in Nat
    BY DEF TypeOK, Writing, OutLen
  <2>4. spc' = spc /\ put' = put /\ solved' = solved
    OBVIOUS
  <2>5. Solution * solved \in Nat
    BY CountsType
  <2> QED
    BY <2>1, <2>2, <2>3, <2>4, <2>5 DEF OutputInv
<1>7. DoneInv' /\ OnlyLeaverKills'
  <2>1. ASSUME cpc' = "done", ~left', spc = "error"
        PROVE  put = NetHeader
    <3>1. put \in 0 .. NetHeader
      BY <2>1 DEF TypeOK, Writing, OutLen
    <3>2. Sent <= put /\ Sent = down
      BY <2>1 DEF OutputInv, Sent
    <3>3. PICK n \in 1 .. NetHeader :
            /\ n <= down
            /\ left' = (cpc' = "done" /\ (n < NetHeader \/ reply = "garbled"))
      OBVIOUS
    <3>4. ~(n < NetHeader)
      BY <2>1, <3>3, Zenon
    <3>5. down \in Nat
      BY DEF TypeOK
    <3> HIDE DEF ClientHeader
    <3> QED
      BY <3>1, <3>2, <3>3, <3>4, <3>5
  <2> QED
    BY <2>1 DEF DoneInv, OnlyLeaverKills, ClientInv, WorkerInv
<1> QED
  BY <1>2, <1>3, <1>4, <1>5, <1>6, <1>7

LEMMA ClientBodyIInv == IInv /\ ClientBody => IInv'
<1> SUFFICES ASSUME IInv, ClientBody PROVE IInv'
  OBVIOUS
<1> USE SessionAssumption DEF IInv, ClientBody, file, serverVars, history
<1>1. /\ Request \in Nat /\ Expected \in Nat
      /\ Request' = Request /\ Expected' = Expected
  BY SizesType DEF Request, Expected
<1>2. TypeOK'
  <2>1. NetHeader + cgot + down <= NetHeader + Expected
    <3>1. spc \in Writing => put \in 0 .. OutLen
      BY DEF TypeOK
    <3>2. NetHeader + cgot + down = Sent
      BY DEF Sent
    <3>3. cgot \in Nat /\ down \in Nat
      BY <1>1 DEF TypeOK
    <3>4. spc \in Reading \cup Writing \cup Over
      BY DEF TypeOK, Over
    <3> QED
      BY <3>1, <3>2, <3>3, <3>4, CountsType
         DEF OutputInv, Reading, Writing, OutLen, Expected
  <2>2. cgot' \in 0 .. Expected
    BY <1>1, <2>1 DEF TypeOK
  <2>3. down' \in 0 .. CapOut
    BY DEF TypeOK
  <2>4. /\ kind' \in {"good", "badNet", "badFile"}
        /\ announced' \in 1 .. MaxEquations
        /\ contained' \in 0 .. MaxEquations
        /\ unsolvable' \subseteq 1 .. MaxEquations
        /\ csent' \in 0 .. Request' /\ cgot' \in 0 .. Expected'
        /\ up' \in 0 .. CapIn /\ solved' \in 0 .. announced'
    BY <1>1, <2>2 DEF TypeOK
  <2>5. /\ spc' \in Reading => got' \in 0 .. InLen'
        /\ spc' \in Writing => put' \in 0 .. OutLen'
    BY DEF TypeOK, InLen, OutLen
  <2> QED
    BY <2>3, <2>4, <2>5 DEF TypeOK
<1>3. ClientInv'
  BY <1>1 DEF ClientInv, TypeOK
<1>4. WorkerInv'
  BY <1>1 DEF WorkerInv, TypeOK, Reading, Writing, Over
<1>5. InputInv'
  BY <1>1, Products DEF InputInv, Consumed, TypeOK, WorkerInv, Reading, Writing, InLen
<1>6. OutputInv'
  BY <1>1, Products DEF OutputInv, Sent, TypeOK, WorkerInv, ClientInv, Reading, Writing, OutLen, Over
<1>7. DoneInv' /\ OnlyLeaverKills'
  BY <1>1 DEF DoneInv, OnlyLeaverKills, TypeOK, ClientInv, WorkerInv, Reading, Writing, OutLen, Over
<1> QED
  BY <1>2, <1>3, <1>4, <1>5, <1>6, <1>7

LEMMA ClientDoneIInv == IInv /\ ClientDone => IInv'
<1> SUFFICES ASSUME IInv, ClientDone PROVE IInv'
  OBVIOUS
<1> USE SessionAssumption DEF IInv, ClientDone, file, serverVars, history
<1>1. /\ Request \in Nat /\ Expected \in Nat
      /\ Request' = Request /\ Expected' = Expected
  BY SizesType DEF Request, Expected
<1>2. TypeOK'
  BY <1>1 DEF TypeOK, InLen, OutLen, Reading, Writing
<1>3. ClientInv'
  BY <1>1 DEF ClientInv, TypeOK
<1>4. WorkerInv'
  BY <1>1 DEF WorkerInv, TypeOK, Reading, Writing, Over
<1>5. InputInv'
  BY <1>1, Products DEF InputInv, Consumed, TypeOK, WorkerInv, Reading, Writing, InLen
<1>6. OutputInv'
  BY <1>1, Products DEF OutputInv, Sent, TypeOK, WorkerInv, ClientInv, Reading, Writing, OutLen, Over
<1>7. DoneInv' /\ OnlyLeaverKills'
  <2>1. spc \in Over \/ (spc = "solution" /\ put = Solution /\ solved = announced)
    <3>1. spc \in Writing => put \in 0 .. OutLen
      BY DEF TypeOK
    <3>2. NetHeader + Expected <= Sent
      BY <1>1 DEF Sent, TypeOK
    <3>3. Sent \in Nat
      BY <1>1 DEF Sent, TypeOK
    <3>4. /\ spc \in Reading \cup Writing \cup Over
          /\ solved \in 0 .. announced /\ announced \in Nat
      BY CountsType DEF TypeOK, Over
    <3>5. spc \notin {"netHeader", "fileHeader"}
      BY <1>1, <3>2, <3>3 DEF OutputInv
    <3>6. spc \notin {"error", "headers"}
      BY <3>1, <3>2, <3>3, CountsType DEF OutputInv, Writing, OutLen, Expected
    <3>7. spc # "equation"
      BY <3>2, <3>3, CountsType DEF OutputInv, WorkerInv, Expected
    <3>8. ASSUME spc = "solution"
          PROVE  put = Solution /\ solved = announced
      <4>1. put \in 0 .. Solution
        BY <3>1, <3>8 DEF Writing, OutLen
      <4>2. Solution * announced + Solution <= Solution * solved + put
        BY <3>2, <3>3, <3>8, <4>1, CountsType DEF OutputInv, Expected
      <4>3. solved = announced
        BY <3>4, <4>1, <4>2, CountsType
      <4> QED
        BY <4>1, <4>2, <4>3, CountsType
    <3> QED
      BY <3>4, <3>5, <3>6, <3>7, <3>8 DEF Reading, Writing
  <2> QED
    BY <2>1 DEF DoneInv, OnlyLeaverKills
<1> QED
  BY <1>2, <1>3, <1>4, <1>5, <1>6, <1>7

LEMMA ClientCutOffIInv == IInv /\ ClientCutOff => IInv'
<1> SUFFICES ASSUME IInv, ClientCutOff PROVE IInv'
  OBVIOUS
<1> USE SessionAssumption DEF IInv, ClientCutOff, file, serverVars, history, ClientOpen, ServerOpen
<1>1. /\ Request \in Nat /\ Expected \in Nat
      /\ Request' = Request /\ Expected' = Expected
  BY SizesType DEF Request, Expected
<1>2. TypeOK'
  BY <1>1 DEF TypeOK, InLen, OutLen, Reading, Writing
<1>3. ClientInv'
  BY <1>1 DEF ClientInv, TypeOK
<1>4. WorkerInv'
  BY <1>1 DEF WorkerInv, TypeOK, Reading, Writing, Over
<1>5. InputInv'
  BY <1>1, Products DEF InputInv, Consumed, TypeOK, WorkerInv, Reading, Writing, InLen
<1>6. OutputInv'
  BY <1>1, Products DEF OutputInv, Sent, TypeOK, WorkerInv, ClientInv, Reading, Writing, OutLen, Over
<1>7. DoneInv' /\ OnlyLeaverKills'
  BY <1>1 DEF DoneInv, OnlyLeaverKills, TypeOK, ClientInv, WorkerInv, Reading, Writing, OutLen, Over
<1> QED
  BY <1>2, <1>3, <1>4, <1>5, <1>6, <1>7

LEMMA ClientLeavesIInv == IInv /\ ClientLeaves => IInv'
<1> SUFFICES ASSUME IInv, ClientLeaves PROVE IInv'
  OBVIOUS
<1> USE SessionAssumption DEF IInv, ClientLeaves, file, serverVars, ClientOpen
<1>1. /\ Request \in Nat /\ Expected \in Nat
      /\ Request' = Request /\ Expected' = Expected
  BY SizesType DEF Request, Expected
<1>2. TypeOK'
  <2>1. /\ kind' \in {"good", "badNet", "badFile"}
        /\ announced' \in 1 .. MaxEquations
        /\ contained' \in 0 .. MaxEquations
        /\ unsolvable' \subseteq 1 .. MaxEquations
    BY DEF TypeOK
  <2>2. /\ cpc' \in {"send", "recvHeader", "recvBody", "done"}
        /\ left' \in BOOLEAN /\ whole' \in BOOLEAN
        /\ clean' \in BOOLEAN /\ fault' \in BOOLEAN /\ undefined' \in BOOLEAN
    BY DEF TypeOK
  <2>3. /\ csent' \in 0 .. Request' /\ cgot' \in 0 .. Expected'
        /\ up' \in 0 .. CapIn /\ down' \in 0 .. CapOut
        /\ solved' \in 0 .. announced'
    BY <1>1 DEF TypeOK
  <2>4. /\ reply' \in {"none", "error", "file", "garbled"}
        /\ spc' \in Reading \cup Writing \cup {"close", "closed", "killed",
                                             "abandoned"}
    BY DEF TypeOK, Reading, Writing
  <2>5. spc' \in Reading => got' \in 0 .. InLen'
    BY DEF TypeOK, Reading, Writing, InLen
  <2>6. spc' \in Writing => put' \in 0 .. OutLen'
    BY DEF TypeOK, Reading, Writing, OutLen
  <2> QED
    BY <2>1, <2>2, <2>3, <2>4, <2>5, <2>6 DEF TypeOK
<1>3. ClientInv'
  BY <1>1 DEF ClientInv, TypeOK
<1>4. WorkerInv'
  BY <1>1 DEF WorkerInv, TypeOK, Reading, Writing, Over
<1>5. InputInv'
  BY <1>1, Products DEF InputInv, Consumed, TypeOK, WorkerInv, Reading, Writing, InLen
<1>6. OutputInv'
  BY <1>1, Products DEF OutputInv, Sent, TypeOK, WorkerInv, ClientInv, Reading, Writing, OutLen, Over
<1>7. DoneInv' /\ OnlyLeaverKills'
  BY <1>1 DEF DoneInv, OnlyLeaverKills, TypeOK, ClientInv, WorkerInv, Reading, Writing, OutLen, Over
<1> QED
  BY <1>2, <1>3, <1>4, <1>5, <1>6, <1>7

LEMMA ReadPieceIInv == IInv /\ ReadPiece => IInv'
<1> SUFFICES ASSUME IInv, ReadPiece PROVE IInv'
  OBVIOUS
<1> USE SessionAssumption DEF IInv, ReadPiece, file, clientVars, ReadComplete
<1>1. /\ Request \in Nat /\ Expected \in Nat
      /\ Request' = Request /\ Expected' = Expected
  BY SizesType DEF Request, Expected
<1>2. TypeOK'
  BY <1>1 DEF TypeOK, InLen, OutLen, Reading, Writing
<1>3. ClientInv'
  BY <1>1 DEF ClientInv, TypeOK
<1>4. WorkerInv'
  BY <1>1 DEF WorkerInv, TypeOK, Reading, Writing, Over
<1>5. InputInv'
  <2>1. PICK n \in 1 .. InLen - got : up' = up - n /\ got' = got + n
    OBVIOUS
  <2>2. csent \in Nat /\ up \in Nat /\ got \in Nat /\ n \in Nat
    BY <1>1 DEF TypeOK, Reading, InLen
  <2>3. csent' - up' = csent - up + n /\ csent - up \in Int
    BY <2>1, <2>2
  <2>4. Equation * solved \in Nat
    BY CountsType
  <2> QED
    BY <2>1, <2>2, <2>3, <2>4 DEF InputInv, Consumed, Reading
<1>6. OutputInv'
  BY <1>1, Products DEF OutputInv, Sent, TypeOK, WorkerInv, ClientInv, Reading, Writing, OutLen, Over
<1>7. DoneInv' /\ OnlyLeaverKills'
  BY <1>1 DEF DoneInv, OnlyLeaverKills, TypeOK, ClientInv, WorkerInv, Reading, Writing, OutLen, Over
<1> QED
  BY <1>2, <1>3, <1>4, <1>5, <1>6, <1>7

LEMMA NetHeaderReadIInv == IInv /\ NetHeaderRead => IInv'
<1> SUFFICES ASSUME IInv, NetHeaderRead PROVE IInv'
  OBVIOUS
<1> USE SessionAssumption DEF IInv, NetHeaderRead, file, ReadWhole, WholeItem, ReadComplete, clientVars, history, Goto
<1>1. /\ Request \in Nat /\ Expected \in Nat
      /\ Request' = Request /\ Expected' = Expected
  BY SizesType DEF Request, Expected
<1>2. TypeOK'
  BY <1>1 DEF TypeOK, InLen, OutLen, Reading, Writing
<1>3. ClientInv'
  BY <1>1 DEF ClientInv, TypeOK
<1>4. WorkerInv'
  BY <1>1 DEF WorkerInv, TypeOK, Reading, Writing, Over
<1>5. InputInv'
  BY <1>1, Products DEF InputInv, Consumed, TypeOK, WorkerInv, Reading, Writing, InLen
<1>6. OutputInv'
  BY <1>1, Products DEF OutputInv, Sent, TypeOK, WorkerInv, ClientInv, Reading, Writing, OutLen, Over
<1>7. DoneInv' /\ OnlyLeaverKills'
  BY <1>1 DEF DoneInv, OnlyLeaverKills, TypeOK, ClientInv, WorkerInv, Reading, Writing, OutLen, Over
<1> QED
  BY <1>2, <1>3, <1>4, <1>5, <1>6, <1>7

LEMMA FileHeaderReadIInv == IInv /\ FileHeaderRead => IInv'
<1> SUFFICES ASSUME IInv, FileHeaderRead PROVE IInv'
  OBVIOUS
<1> USE SessionAssumption DEF IInv, FileHeaderRead, file, ReadWhole, WholeItem, ReadComplete, clientVars, history, Goto
<1>1. /\ Request \in Nat /\ Expected \in Nat
      /\ Request' = Request /\ Expected' = Expected
  BY SizesType DEF Request, Expected
<1>2. TypeOK'
  BY <1>1 DEF TypeOK, InLen, OutLen, Reading, Writing
<1>3. ClientInv'
  BY <1>1 DEF ClientInv, TypeOK
<1>4. WorkerInv'
  BY <1>1 DEF WorkerInv, TypeOK, Reading, Writing, Over
<1>5. InputInv'
  BY <1>1, Products DEF InputInv, Consumed, TypeOK, WorkerInv, Reading, Writing, InLen
<1>6. OutputInv'
  BY <1>1, Products DEF OutputInv, Sent, TypeOK, WorkerInv, ClientInv, Reading, Writing, OutLen, Over
<1>7. DoneInv' /\ OnlyLeaverKills'
  BY <1>1 DEF DoneInv, OnlyLeaverKills, TypeOK, ClientInv, WorkerInv, Reading, Writing, OutLen, Over
<1> QED
  BY <1>2, <1>3, <1>4, <1>5, <1>6, <1>7

LEMMA EquationReadIInv == IInv /\ EquationRead => IInv'
<1> SUFFICES ASSUME IInv, EquationRead PROVE IInv'
  OBVIOUS
<1> USE SessionAssumption DEF IInv, EquationRead, file, ReadWhole, WholeItem, ReadComplete, clientVars, history, Goto, AfterUnsolvable, AfterSolve
<1>1. /\ Request \in Nat /\ Expected \in Nat
      /\ Request' = Request /\ Expected' = Expected
  BY SizesType DEF Request, Expected
<1>2. TypeOK'
  <2>1. /\ kind' \in {"good", "badNet", "badFile"}
        /\ announced' \in 1 .. MaxEquations
        /\ contained' \in 0 .. MaxEquations
        /\ unsolvable' \subseteq 1 .. MaxEquations
    BY DEF TypeOK
  <2>2. /\ cpc' \in {"send", "recvHeader", "recvBody", "done"}
        /\ left' \in BOOLEAN /\ whole' \in BOOLEAN
        /\ clean' \in BOOLEAN /\ fault' \in BOOLEAN /\ undefined' \in BOOLEAN
    BY DEF TypeOK
  <2>3. /\ csent' \in 0 .. Request' /\ cgot' \in 0 .. Expected'
        /\ up' \in 0 .. CapIn /\ down' \in 0 .. CapOut
        /\ solved' \in 0 .. announced'
    BY <1>1 DEF TypeOK, WorkerInv
  <2>4. /\ reply' \in {"none", "error", "file", "garbled"}
        /\ spc' \in Reading \cup Writing \cup {"close", "closed", "killed",
                                             "abandoned"}
    BY DEF TypeOK, Reading, Writing
  <2>5. spc' \in Reading => got' \in 0 .. InLen'
    BY DEF TypeOK, Reading, Writing, InLen
  <2>6. spc' \in Writing => put' \in 0 .. OutLen'
    BY DEF TypeOK, Reading, Writing, OutLen
  <2> QED
    BY <2>1, <2>2, <2>3, <2>4, <2>5, <2>6 DEF TypeOK
<1>3. ClientInv'
  BY <1>1 DEF ClientInv, TypeOK
<1>4. WorkerInv'
  BY <1>1 DEF WorkerInv, TypeOK, Reading, Writing, Over
<1>5. InputInv'
  BY <1>1, Products DEF InputInv, Consumed, TypeOK, WorkerInv, Reading, Writing, InLen
<1>6. OutputInv'
  BY <1>1, Products DEF OutputInv, Sent, TypeOK, WorkerInv, ClientInv, Reading, Writing, OutLen, Over
<1>7. DoneInv' /\ OnlyLeaverKills'
  BY <1>1 DEF DoneInv, OnlyLeaverKills, TypeOK, ClientInv, WorkerInv, Reading, Writing, OutLen, Over
<1> QED
  BY <1>2, <1>3, <1>4, <1>5, <1>6, <1>7

LEMMA UndefinedHeaderIInv ==
  IInv /\ spc = "netHeader" /\ UndefinedHeader => IInv'
<1> SUFFICES ASSUME IInv, spc = "netHeader", UndefinedHeader PROVE IInv'
  OBVIOUS
<1> USE SessionAssumption DEF IInv, UndefinedHeader, file, clientVars, Goto
<1>1. /\ Request \in Nat /\ Expected \in Nat
      /\ Request' = Request /\ Expected' = Expected
  BY SizesType DEF Request, Expected
<1>2. TypeOK'
  <2>1. /\ kind' \in {"good", "badNet", "badFile"}
        /\ announced' \in 1 .. MaxEquations
        /\ contained' \in 0 .. MaxEquations
        /\ unsolvable' \subseteq 1 .. MaxEquations
    BY DEF TypeOK
  <2>2. /\ cpc' \in {"send", "recvHeader", "recvBody", "done"}
        /\ left' \in BOOLEAN /\ whole' \in BOOLEAN
        /\ clean' \in BOOLEAN /\ fault' \in BOOLEAN /\ undefined' \in BOOLEAN
    BY DEF TypeOK
  <2>3. /\ csent' \in 0 .. Request' /\ cgot' \in 0 .. Expected'
        /\ up' \in 0 .. CapIn /\ down' \in 0 .. CapOut
        /\ solved' \in 0 .. announced'
    BY <1>1 DEF TypeOK
  <2>4. /\ reply' \in {"none", "error", "file", "garbled"}
        /\ spc' \in Reading \cup Writing \cup {"close", "closed", "killed",
                                             "abandoned"}
    BY DEF TypeOK, Reading, Writing
  <2>5. spc' \in Reading => got' \in 0 .. InLen'
    BY DEF TypeOK, Reading, Writing, InLen
  <2>6. spc' \in Writing => put' \in 0 .. OutLen'
    BY DEF TypeOK, Reading, Writing, OutLen
  <2> QED
    BY <2>1, <2>2, <2>3, <2>4, <2>5, <2>6 DEF TypeOK
<1>3. ClientInv'
  BY <1>1 DEF ClientInv, TypeOK
<1>4. WorkerInv'
  BY <1>1 DEF WorkerInv, TypeOK, Reading, Writing, Over
<1>5. InputInv'
  BY <1>1, Products DEF InputInv, Consumed, TypeOK, WorkerInv, Reading, Writing, InLen
<1>6. OutputInv'
  BY <1>1, Products DEF OutputInv, Sent, TypeOK, WorkerInv, ClientInv, Reading, Writing, OutLen, Over
<1>7. DoneInv' /\ OnlyLeaverKills'
  BY <1>1 DEF DoneInv, OnlyLeaverKills, TypeOK, ClientInv, WorkerInv, Reading, Writing, OutLen, Over
<1> QED
  BY <1>2, <1>3, <1>4, <1>5, <1>6, <1>7

LEMMA GiveUpIInv ==
  IInv /\ spc \in Reading /\ GiveUp /\ fault' \in BOOLEAN => IInv'
<1> SUFFICES ASSUME IInv, spc \in Reading, GiveUp, fault' \in BOOLEAN PROVE IInv'
  OBVIOUS
<1> USE SessionAssumption DEF IInv, GiveUp, file, clientVars, Goto, AfterFailedRead
<1>1. /\ Request \in Nat /\ Expected \in Nat
      /\ Request' = Request /\ Expected' = Expected
  BY SizesType DEF Request, Expected
<1>2. TypeOK'
  <2>1. /\ kind' \in {"good", "badNet", "badFile"}
        /\ announced' \in 1 .. MaxEquations
        /\ contained' \in 0 .. MaxEquations
        /\ unsolvable' \subseteq 1 .. MaxEquations
    BY DEF TypeOK
  <2>2. /\ cpc' \in {"send", "recvHeader", "recvBody", "done"}
        /\ left' \in BOOLEAN /\ whole' \in BOOLEAN
        /\ clean' \in BOOLEAN /\ fault' \in BOOLEAN /\ undefined' \in BOOLEAN
    BY DEF TypeOK
  <2>3. /\ csent' \in 0 .. Request' /\ cgot' \in 0 .. Expected'
        /\ up' \in 0 .. CapIn /\ down' \in 0 .. CapOut
        /\ solved' \in 0 .. announced'
    BY <1>1 DEF TypeOK
  <2>4. /\ reply' \in {"none", "error", "file", "garbled"}
        /\ spc' \in Reading \cup Writing \cup {"close", "closed", "killed",
                                             "abandoned"}
    BY DEF TypeOK, Reading, Writing
  <2>5. spc' \in Reading => got' \in 0 .. InLen'
    BY DEF TypeOK, Reading, Writing, InLen
  <2>6. spc' \in Writing => put' \in 0 .. OutLen'
    BY DEF TypeOK, Reading, Writing, OutLen
  <2> QED
    BY <2>1, <2>2, <2>3, <2>4, <2>5, <2>6 DEF TypeOK
<1>3. ClientInv'
  BY <1>1 DEF ClientInv, TypeOK
<1>4. WorkerInv'
  BY <1>1 DEF WorkerInv, TypeOK, Reading, Writing, Over
<1>5. InputInv'
  BY <1>1, Products DEF InputInv, Consumed, TypeOK, WorkerInv, Reading, Writing, InLen
<1>6. OutputInv'
  BY <1>1, Products DEF OutputInv, Sent, TypeOK, WorkerInv, ClientInv, Reading, Writing, OutLen, Over
<1>7. DoneInv' /\ OnlyLeaverKills'
  BY <1>1 DEF DoneInv, OnlyLeaverKills, TypeOK, ClientInv, WorkerInv, Reading, Writing, OutLen, Over
<1> QED
  BY <1>2, <1>3, <1>4, <1>5, <1>6, <1>7

LEMMA WritePieceIInv == IInv /\ WritePiece => IInv'
<1> SUFFICES ASSUME IInv, WritePiece PROVE IInv'
  OBVIOUS
<1> USE SessionAssumption DEF IInv, WritePiece, file, clientVars, history, ClientOpen
<1>1. /\ Request \in Nat /\ Expected \in Nat
      /\ Request' = Request /\ Expected' = Expected
  BY SizesType DEF Request, Expected
<1>2. TypeOK'
  BY <1>1 DEF TypeOK, InLen, OutLen, Reading, Writing
<1>3. ClientInv'
  BY <1>1 DEF ClientInv, TypeOK
<1>4. WorkerInv'
  BY <1>1 DEF WorkerInv, TypeOK, Reading, Writing, Over
<1>5. InputInv'
  BY <1>1, Products DEF InputInv, Consumed, TypeOK, WorkerInv, Reading, Writing, InLen
<1>6. OutputInv'
  BY <1>1, Products DEF OutputInv, Sent, TypeOK, WorkerInv, ClientInv, Reading, Writing, OutLen, Over
<1>7. DoneInv' /\ OnlyLeaverKills'
  BY <1>1 DEF DoneInv, OnlyLeaverKills, TypeOK, ClientInv, WorkerInv, Reading, Writing, OutLen, Over
<1> QED
  BY <1>2, <1>3, <1>4, <1>5, <1>6, <1>7

LEMMA WriteToNobodyIInv == IInv /\ WriteToNobody => IInv'
<1> SUFFICES ASSUME IInv, WriteToNobody PROVE IInv'
  OBVIOUS
<1> USE SessionAssumption DEF IInv, WriteToNobody, file, clientVars, history, Goto, ClientOpen
<1>1. /\ Request \in Nat /\ Expected \in Nat
      /\ Request' = Request /\ Expected' = Expected
  BY SizesType DEF Request, Expected
<1>2. TypeOK'
  BY <1>1 DEF TypeOK, InLen, OutLen, Reading, Writing
<1>3. ClientInv'
  BY <1>1 DEF ClientInv, TypeOK
<1>4. WorkerInv'
  BY <1>1 DEF WorkerInv, TypeOK, Reading, Writing, Over
<1>5. InputInv'
  BY <1>1, Products DEF InputInv, Consumed, TypeOK, WorkerInv, Reading, Writing, InLen
<1>6. OutputInv'
  BY <1>1, Products DEF OutputInv, Sent, TypeOK, WorkerInv, ClientInv, Reading, Writing, OutLen, Over
<1>7. DoneInv' /\ OnlyLeaverKills'
  BY <1>1 DEF DoneInv, OnlyLeaverKills, TypeOK, ClientInv, WorkerInv, Reading, Writing, OutLen, Over
<1> QED
  BY <1>2, <1>3, <1>4, <1>5, <1>6, <1>7

LEMMA WriteErrorIInv == IInv /\ WriteError => IInv'
<1> SUFFICES ASSUME IInv, WriteError PROVE IInv'
  OBVIOUS
<1> USE SessionAssumption DEF IInv, WriteError, file, clientVars, RestIsMissing, ClientOpen
<1>1. /\ Request \in Nat /\ Expected \in Nat
      /\ Request' = Request /\ Expected' = Expected
  BY SizesType DEF Request, Expected
<1>2. TypeOK'
  <2>1. /\ kind' \in {"good", "badNet", "badFile"}
        /\ announced' \in 1 .. MaxEquations
        /\ contained' \in 0 .. MaxEquations
        /\ unsolvable' \subseteq 1 .. MaxEquations
    BY DEF TypeOK
  <2>2. /\ cpc' \in {"send", "recvHeader", "recvBody", "done"}
        /\ left' \in BOOLEAN /\ whole' \in BOOLEAN
        /\ clean' \in BOOLEAN /\ fault' \in BOOLEAN /\ undefined' \in BOOLEAN
    BY DEF TypeOK
  <2>3. /\ csent' \in 0 .. Request' /\ cgot' \in 0 .. Expected'
        /\ up' \in 0 .. CapIn /\ down' \in 0 .. CapOut
        /\ solved' \in 0 .. announced'
    BY <1>1 DEF TypeOK
  <2>4. /\ reply' \in {"none", "error", "file", "garbled"}
        /\ spc' \in Reading \cup Writing \cup {"close", "closed", "killed",
                                             "abandoned"}
    BY DEF TypeOK, Reading, Writing
  <2>5. spc' \in Reading => got' \in 0 .. InLen'
    BY DEF TypeOK, Reading, Writing, InLen
  <2>6. spc' \in Writing => put' \in 0 .. OutLen'
    BY DEF TypeOK, Reading, Writing, OutLen
  <2> QED
    BY <2>1, <2>2, <2>3, <2>4, <2>5, <2>6 DEF TypeOK
<1>3. ClientInv'
  BY <1>1 DEF ClientInv, TypeOK
<1>4. WorkerInv'
  BY <1>1 DEF WorkerInv, TypeOK, Reading, Writing, Over
<1>5. InputInv'
  BY <1>1, Products DEF InputInv, Consumed, TypeOK, WorkerInv, Reading, Writing, InLen
<1>6. OutputInv'
  BY <1>1, Products DEF OutputInv, Sent, TypeOK, WorkerInv, ClientInv, Reading, Writing, OutLen, Over
<1>7. DoneInv' /\ OnlyLeaverKills'
  BY <1>1 DEF DoneInv, OnlyLeaverKills, TypeOK, ClientInv, WorkerInv, Reading, Writing, OutLen, Over
<1> QED
  BY <1>2, <1>3, <1>4, <1>5, <1>6, <1>7

LEMMA NoMemoryIInv == IInv /\ NoMemory => IInv'
<1> SUFFICES ASSUME IInv, NoMemory PROVE IInv'
  OBVIOUS
<1> USE SessionAssumption DEF IInv, NoMemory, file, clientVars, Goto, RestIsMissing
<1>1. /\ Request \in Nat /\ Expected \in Nat
      /\ Request' = Request /\ Expected' = Expected
  BY SizesType DEF Request, Expected
<1>2. TypeOK'
  <2>1. /\ kind' \in {"good", "badNet", "badFile"}
        /\ announced' \in 1 .. MaxEquations
        /\ contained' \in 0 .. MaxEquations
        /\ unsolvable' \subseteq 1 .. MaxEquations
    BY DEF TypeOK
  <2>2. /\ cpc' \in {"send", "recvHeader", "recvBody", "done"}
        /\ left' \in BOOLEAN /\ whole' \in BOOLEAN
        /\ clean' \in BOOLEAN /\ fault' \in BOOLEAN /\ undefined' \in BOOLEAN
    BY DEF TypeOK
  <2>3. /\ csent' \in 0 .. Request' /\ cgot' \in 0 .. Expected'
        /\ up' \in 0 .. CapIn /\ down' \in 0 .. CapOut
        /\ solved' \in 0 .. announced'
    BY <1>1 DEF TypeOK
  <2>4. /\ reply' \in {"none", "error", "file", "garbled"}
        /\ spc' \in Reading \cup Writing \cup {"close", "closed", "killed",
                                             "abandoned"}
    BY DEF TypeOK, Reading, Writing
  <2>5. spc' \in Reading => got' \in 0 .. InLen'
    BY DEF TypeOK, Reading, Writing, InLen
  <2>6. spc' \in Writing => put' \in 0 .. OutLen'
    BY DEF TypeOK, Reading, Writing, OutLen
  <2> QED
    BY <2>1, <2>2, <2>3, <2>4, <2>5, <2>6 DEF TypeOK
<1>3. ClientInv'
  BY <1>1 DEF ClientInv, TypeOK
<1>4. WorkerInv'
  BY <1>1 DEF WorkerInv, TypeOK, Reading, Writing, Over
<1>5. InputInv'
  BY <1>1, Products DEF InputInv, Consumed, TypeOK, WorkerInv, Reading, Writing, InLen
<1>6. OutputInv'
  <2>1. Sent' = Sent /\ Sent \in Nat
    BY <1>1 DEF Sent, TypeOK
  <2>2. spc \in Writing => put \in 0 .. OutLen
    BY DEF TypeOK
  <2>3. spc = "solution" => spc' = spc /\ put' = Solution /\ put = 0
    BY DEF OutLen
  <2>4. spc \in {"netHeader", "fileHeader", "error", "headers"} =>
          Sent <= NetHeader + FileHeader
    BY <2>1, <2>2 DEF OutputInv, Writing, OutLen
  <2> QED
    BY <2>1, <2>3, <2>4, CountsType DEF OutputInv, Over
<1>7. DoneInv' /\ OnlyLeaverKills'
  BY <1>1 DEF DoneInv, OnlyLeaverKills, TypeOK, ClientInv, WorkerInv, Reading, Writing, OutLen, Over
<1> QED
  BY <1>2, <1>3, <1>4, <1>5, <1>6, <1>7

LEMMA WrittenIInv == IInv /\ Written => IInv'
<1> SUFFICES ASSUME IInv, Written PROVE IInv'
  OBVIOUS
<1> USE SessionAssumption DEF IInv, Written, file, clientVars, history, Goto, MoreEquations
<1>1. /\ Request \in Nat /\ Expected \in Nat
      /\ Request' = Request /\ Expected' = Expected
  BY SizesType DEF Request, Expected
<1>2. TypeOK'
  BY <1>1 DEF TypeOK, InLen, OutLen, Reading, Writing
<1>3. ClientInv'
  BY <1>1 DEF ClientInv, TypeOK
<1>4. WorkerInv'
  BY <1>1 DEF WorkerInv, TypeOK, Reading, Writing, Over
<1>5. InputInv'
  BY <1>1, Products DEF InputInv, Consumed, TypeOK, WorkerInv, Reading, Writing, InLen
<1>6. OutputInv'
  <2>1. Sent' = Sent /\ Sent \in Nat
    BY <1>1 DEF Sent, TypeOK
  <2>2. Sent <= NetHeader + FileHeader + Solution * solved
    BY <2>1, CountsType DEF OutputInv, WorkerInv, Writing, OutLen
  <2>3. spc' \in {"equation", "close"} /\ solved' = solved
    OBVIOUS
  <2> QED
    BY <2>1, <2>2, <2>3 DEF OutputInv, Over
<1>7. DoneInv' /\ OnlyLeaverKills'
  BY <1>1 DEF DoneInv, OnlyLeaverKills, TypeOK, ClientInv, WorkerInv, Reading, Writing, OutLen, Over
<1> QED
  BY <1>2, <1>3, <1>4, <1>5, <1>6, <1>7

LEMMA CloseSocketIInv == IInv /\ CloseSocket => IInv'
<1> SUFFICES ASSUME IInv, CloseSocket PROVE IInv'
  OBVIOUS
<1> USE SessionAssumption DEF IInv, CloseSocket, file, clientVars, history
<1>1. /\ Request \in Nat /\ Expected \in Nat
      /\ Request' = Request /\ Expected' = Expected
  BY SizesType DEF Request, Expected
<1>2. TypeOK'
  BY <1>1 DEF TypeOK, InLen, OutLen, Reading, Writing
<1>3. ClientInv'
  BY <1>1 DEF ClientInv, TypeOK
<1>4. WorkerInv'
  BY <1>1 DEF WorkerInv, TypeOK, Reading, Writing, Over
<1>5. InputInv'
  BY <1>1, Products DEF InputInv, Consumed, TypeOK, WorkerInv, Reading, Writing, InLen
<1>6. OutputInv'
  BY <1>1, Products DEF OutputInv, Sent, TypeOK, WorkerInv, ClientInv, Reading, Writing, OutLen, Over
<1>7. DoneInv' /\ OnlyLeaverKills'
  BY <1>1 DEF DoneInv, OnlyLeaverKills, TypeOK, ClientInv, WorkerInv, Reading, Writing, OutLen, Over
<1> QED
  BY <1>2, <1>3, <1>4, <1>5, <1>6, <1>7

LEMMA StepIInv == IInv /\ [Next]_vars => IInv'
<1> SUFFICES ASSUME IInv, [Next]_vars PROVE IInv'
  OBVIOUS
<1>1. CASE ClientStep
  BY <1>1, ClientSendIInv, ClientSentIInv, ClientHeaderIInv, ClientBodyIInv,
     ClientDoneIInv, ClientCutOffIInv DEF ClientStep
<1>2. CASE ClientLeaves
  BY <1>2, ClientLeavesIInv
<1>3. ASSUME PiecewiseRefused PROVE IInv'
  <2>1. CASE spc = "netHeader"
    BY <1>3, <2>1, UndefinedHeaderIInv DEF PiecewiseRefused
  <2>2. CASE spc # "netHeader"
    BY <1>3, <2>2, GiveUpIInv DEF PiecewiseRefused
  <2> QED
    BY <2>1, <2>2
<1>4. ASSUME ItemFails PROVE IInv'
  <2>1. CASE spc = "netHeader" /\ got > 0
    BY <1>4, <2>1, UndefinedHeaderIInv DEF ItemFails
  <2>2. CASE ~(spc = "netHeader" /\ got > 0)
    BY <1>4, <2>2, GiveUpIInv DEF ItemFails, IInv, TypeOK
  <2> QED
    BY <2>1, <2>2
<1>5. CASE ServerStep
  BY <1>3, <1>4, <1>5, ReadPieceIInv, NetHeaderReadIInv, FileHeaderReadIInv,
     EquationReadIInv, WritePieceIInv, WriteToNobodyIInv, WrittenIInv,
     CloseSocketIInv DEF ServerStep, ReadEnds
<1>6. CASE ReadError \/ WriteError \/ NoMemory
  BY <1>4, <1>6, WriteErrorIInv, NoMemoryIInv DEF ReadError
<1>7. CASE UNCHANGED vars
  <2> USE <1>7 DEF vars, file, clientVars, serverVars, history, IInv
  <2>1. TypeOK'
    <3>1. /\ InLen' = InLen /\ OutLen' = OutLen
          /\ Request' = Request /\ Expected' = Expected
      BY DEF InLen, OutLen, Request, Expected
    <3> QED
      BY <3>1 DEF TypeOK
  <2>2. ClientInv' /\ WorkerInv'
    BY DEF ClientInv, WorkerInv, Request
  <2>3. InputInv' /\ OutputInv'
    BY DEF InputInv, Consumed, OutputInv, Sent
  <2>4. DoneInv' /\ OnlyLeaverKills'
    BY DEF DoneInv, OnlyLeaverKills
  <2> QED
    BY <2>1, <2>2, <2>3, <2>4
<1> QED
  BY <1>1, <1>2, <1>5, <1>6, <1>7 DEF Next, Ended

LEMMA SessionInvariant == Spec => []IInv
<1>1. Init => IInv
  BY InitIInv
<1>2. IInv /\ [Next]_vars => IInv'
  BY StepIInv
<1> QED
  BY <1>1, <1>2, PTL DEF Spec
-----------------------------------------------------------------------------
(* In every session each variable keeps its type: no more is sent than the *)
(* client has, no more read or written than an item is long, and no more   *)
(* solutions are begun than the file header announced.                     *)
THEOREM SessionTypeCorrect == Spec => []TypeOK
<1>1. IInv => TypeOK
  BY DEF IInv
<1> QED
  BY <1>1, SessionInvariant, PTL

(* However the stream is cut into pieces, the worker starts each item at   *)
(* its first byte, unless read_net_header has looked beyond its buffer.    *)
THEOREM SessionAligned == Spec => []Aligned
<1>1. IInv => Aligned
  BY DEF IInv, InputInv, Consumed, Aligned
<1> QED
  BY <1>1, SessionInvariant, PTL

(* Only a client that ended before it had its reply brings SIGPIPE upon    *)
(* the server: safe_write has nothing to say to one that has it.           *)
THEOREM SessionOnlyLeaverKills == Spec => []OnlyLeaverKills
<1>1. IInv => OnlyLeaverKills
  BY DEF IInv
<1> QED
  BY <1>1, SessionInvariant, PTL

(* The worker has room for all it writes when the reply fits into the      *)
(* stream.                                                                 *)
LEMMA RoomToWrite ==
  ASSUME IInv, Completable, spc \in Writing, put < OutLen
  PROVE  down < CapOut
<1> USE SessionAssumption DEF IInv
<1>1. down <= Sent /\ down \in Nat /\ Sent \in Nat
  BY SizesType DEF Sent, TypeOK
<1>2. put \in 0 .. OutLen /\ CapOut \in Nat
  BY DEF TypeOK
<1>3. Expected = FileHeader + Solution * announced
  BY DEF Expected
<1>4. CASE spc = "error"
  BY <1>1, <1>2, <1>3, <1>4, CountsType DEF Completable, OutputInv, OutLen
<1>5. CASE spc = "headers"
  BY <1>1, <1>2, <1>3, <1>5, CountsType DEF Completable, OutputInv, OutLen
<1>6. CASE spc = "solution"
  <2>1. put \in Nat /\ put < Solution
    BY <1>2, <1>6 DEF OutLen
  <2>2. Sent + Solution <= NetHeader + FileHeader + Solution * solved + put
    BY <1>6 DEF OutputInv
  <2> QED
    BY <1>1, <1>2, <1>3, <2>1, <2>2, CountsType DEF Completable
<1> QED
  BY <1>4, <1>5, <1>6 DEF Writing

(* Of a file as long as its header says there is more under way, or to     *)
(* come, as long as the worker reads.                                      *)
LEMMA MoreToRead ==
  ASSUME IInv, Completable, spc \in Reading, ~ReadComplete, up = 0
  PROVE  csent < Request
<1> USE SessionAssumption DEF IInv
<1>1. csent \in Nat /\ Request \in Nat
  BY SizesType DEF TypeOK
<1>2. got \in 0 .. InLen /\ got # InLen
  BY DEF TypeOK, ReadComplete
<1>3. Request = NetHeader + FileHeader + Equation * contained
  BY DEF Request
<1>4. Equation * contained \in Nat
  BY CountsType, Products
<1>5. CASE spc = "netHeader"
  BY <1>1, <1>2, <1>3, <1>4, <1>5 DEF InputInv, Consumed, InLen
<1>6. CASE spc = "fileHeader"
  BY <1>1, <1>2, <1>3, <1>4, <1>6 DEF InputInv, Consumed, InLen
<1>7. CASE spc = "equation"
  <2>1. got \in Nat /\ got < Equation
    BY <1>2, <1>7 DEF InLen
  <2>2. csent <= NetHeader + FileHeader + Equation * solved + got
    BY <1>1, <1>7 DEF InputInv, Consumed
  <2>3. solved < contained
    BY <1>7, CountsType DEF WorkerInv, Completable
  <2>4. Equation * solved + Equation <= Equation * contained
    BY <2>3, CountsType, ProductsGrow
  <2> QED
    BY <1>1, <1>3, <1>4, <2>1, <2>2, <2>4, CountsType
<1> QED
  BY <1>5, <1>6, <1>7 DEF Reading

(* Client and worker do not wait for each other when the reply fits into   *)
(* the stream and the file is as long as its header says.                  *)
THEOREM SessionNoStall == Spec => []NoStall
<1>1. ASSUME IInv PROVE NoStall
  <2> SUFFICES ASSUME Completable, ServerWaits, ClientWaits PROVE FALSE
    BY DEF NoStall
  <2>1. ~(spc \in Writing /\ put < OutLen /\ down = CapOut)
    BY <1>1, RoomToWrite, SessionAssumption
  <2>2. spc \in Reading /\ ~ReadComplete /\ up = 0
    BY <2>1 DEF ServerWaits
  <2>3. csent < Request
    BY <1>1, <2>2, MoreToRead
  <2>4. csent \in Nat /\ Request \in Nat
    BY <1>1, SizesType DEF IInv, TypeOK
  <2>5. cpc = "send"
    BY <1>1, <2>3, <2>4 DEF ClientWaits, IInv, ClientInv
  <2> QED
    BY <2>2, <2>5, SessionAssumption DEF ClientWaits
<1> QED
  BY <1>1, SessionInvariant, PTL
-----------------------------------------------------------------------------
LEMMA InitImplementsService == Init => Service!Init
BY SessionAssumption DEF Init, Service!Init, Stage

LEMMA StageOver == spc \in Over => Stage = "over"
BY DEF Over, Stage

(* A step that leaves the worker where it is, or moves it within a stage,  *)
(* is none of the service's.                                               *)
LEMMA ClientStepsStutter ==
  ClientStep \/ ClientLeaves => UNCHANGED <<Stage, announced, solved>>
BY DEF ClientStep, ClientSend, ClientSent, ClientHeader, ClientBody,
       ClientDone, ClientCutOff, ClientLeaves, serverVars, file, Stage

LEMMA GoesOver ==
  ASSUME spc \notin Over, spc' \in Over, UNCHANGED <<announced, solved>>,
         spc \in Reading \cup Writing
  PROVE  Service!End
BY DEF Over, Stage, Service!End, Reading, Writing

LEMMA FailuresImplementService ==
  ASSUME spc \in Reading, (UndefinedHeader /\ spc = "netHeader") \/ GiveUp
  PROVE  Service!Next \/ UNCHANGED <<Stage, announced, solved>>
<1>1. CASE spc' \in Over
  <2>1. spc \notin Over /\ spc \in Reading \cup Writing
    BY DEF Over, Reading
  <2>2. UNCHANGED <<announced, solved>>
    BY DEF UndefinedHeader, GiveUp, file
  <2> QED
    BY <1>1, <2>1, <2>2, GoesOver DEF Service!Next
<1>2. CASE spc' = "error"
  BY <1>2 DEF UndefinedHeader, GiveUp, file, Goto, AfterFailedRead, Reading,
     Service!Next, Service!Refuse, Stage
<1>3. CASE spc' = "fileHeader"
  BY <1>3 DEF UndefinedHeader, GiveUp, file, Goto, AfterFailedRead, Reading, Stage
<1> QED
  BY <1>1, <1>2, <1>3 DEF UndefinedHeader, GiveUp, Goto, AfterFailedRead, Over

LEMMA ReadsImplementService ==
  ASSUME IInv, ReadPiece \/ NetHeaderRead \/ FileHeaderRead \/ EquationRead
  PROVE  Service!Next \/ UNCHANGED <<Stage, announced, solved>>
<1>1. CASE ReadPiece
  BY <1>1 DEF ReadPiece, file, Stage
<1>2. CASE NetHeaderRead
  BY <1>2 DEF NetHeaderRead, ReadWhole, file, Goto, Stage, Service!Next,
     Service!Refuse
<1>3. CASE FileHeaderRead
  BY <1>3 DEF FileHeaderRead, ReadWhole, file, Goto, Stage, Service!Next,
     Service!Refuse, Service!Accept
<1>4. CASE EquationRead
  <2>1. CASE solved + 1 \in unsolvable
    BY <1>4, <2>1 DEF EquationRead, ReadWhole, file, Goto, Stage,
       AfterUnsolvable, Service!Next, Service!End
  <2>2. CASE solved + 1 \notin unsolvable
    BY <1>4, <2>2 DEF EquationRead, ReadWhole, file, Goto, Stage, AfterSolve,
       Service!Next, Service!Answer, IInv, WorkerInv
  <2> QED
    BY <2>1, <2>2
<1> QED
  BY <1>1, <1>2, <1>3, <1>4

LEMMA WritesImplementService ==
  ASSUME WritePiece \/ WriteToNobody \/ WriteError \/ Written \/ CloseSocket
  PROVE  Service!Next \/ UNCHANGED <<Stage, announced, solved>>
<1>1. CASE WritePiece \/ WriteError
  BY <1>1 DEF WritePiece, WriteError, file, Stage
<1>2. CASE WriteToNobody
  BY <1>2 DEF WriteToNobody, Goto, file, Stage, Writing, Service!Next, Service!End
<1>3. CASE Written
  BY <1>3 DEF Written, Goto, file, Stage, Writing, Service!Next, Service!End
<1>4. CASE CloseSocket
  BY <1>4 DEF CloseSocket, file, Stage
<1> QED
  BY <1>1, <1>2, <1>3, <1>4

LEMMA NoMemoryImplementsService ==
  ASSUME NoMemory
  PROVE  Service!Next \/ UNCHANGED <<Stage, announced, solved>>
<1>1. CASE spc' \in Over
  BY <1>1 DEF NoMemory, Goto, file, Stage, Over, Service!Next, Service!End
<1>2. CASE spc' = spc
  BY <1>2 DEF NoMemory, file, Stage
<1> QED
  BY <1>1, <1>2 DEF NoMemory, Goto, Over

(* The worker serves a connection as SessionService says: it refuses it    *)
(* with one error header, or answers at most what was announced, and       *)
(* writes nothing after the end.                                           *)
THEOREM SessionImplementsService == Spec => ImplementsSession
<1>1. ASSUME IInv, [Next]_vars
      PROVE  [Service!Next]_(Service!vars)
  <2>1. ClientStep \/ ClientLeaves => UNCHANGED Service!vars
    BY ClientStepsStutter DEF Service!vars
  <2>2. PiecewiseRefused \/ ItemFails => Service!Next \/ UNCHANGED Service!vars
    BY FailuresImplementService DEF PiecewiseRefused, ItemFails, Service!vars
  <2>3. ServerStep => Service!Next \/ UNCHANGED Service!vars
    BY <1>1, <2>2, ReadsImplementService, WritesImplementService
       DEF ServerStep, ReadEnds, Service!vars
  <2>4. ReadError \/ WriteError \/ NoMemory =>
          Service!Next \/ UNCHANGED Service!vars
    BY <2>2, WritesImplementService, NoMemoryImplementsService
       DEF ReadError, Service!vars
  <2>5. UNCHANGED vars => UNCHANGED Service!vars
    BY DEF vars, file, serverVars, Stage, Service!vars
  <2> QED
    BY <1>1, <2>1, <2>3, <2>4, <2>5 DEF Next, Ended
<1> QED
  BY <1>1, InitImplementsService, SessionInvariant, PTL
     DEF Spec, ImplementsSession, Service!Spec
=============================================================================
