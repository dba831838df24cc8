------------------------ MODULE ShortServer_proofs ------------------------
(***************************************************************************)
(* Theorems about the short-connection server, for any number of workers,  *)
(* clients and names, any kinds of messages, any faults and restarts.      *)
(***************************************************************************)
EXTENDS ShortServer, FiniteSetTheorems, TLAPS

(***************************************************************************)
(* A busy worker has a client; the message of a client is set once; a      *)
(* worker past recv, and a client told "Success", belong to a message.     *)
(***************************************************************************)
ClientInv ==
  /\ \A c \in Clients : sock[c] \in {"new", "connected"} => msg[c] = NoMsg
  /\ \A c \in Clients : answer[c] = "success" => msg[c] # NoMsg
  /\ \A w \in Workers :
       /\ pc[w] # "wait" => client[w] \in Clients
       /\ pc[w] # "respond" => text[w] = "none"
       /\ pc[w] \in {"select", "insert", "mkdir"} \/ text[w] = "success" =>
            msg[client[w]] # NoMsg

Inv == TypeOK /\ ClientInv

LEMMA InitInv == Init => Inv
BY ShortAssumption DEF Init, Inv, TypeOK, ClientInv, Answers, Places

\* The name a worker past recv works on.
LEMMA NameOf ==
  ASSUME Inv, NEW w \in Workers,
         pc[w] \in {"select", "insert", "mkdir"} \/ text[w] = "success"
  PROVE  /\ client[w] \in Clients
         /\ msg[client[w]] \in Message /\ name(w) \in Names
BY DEF Inv, TypeOK, ClientInv, Message, name

LEMMA DieInv ==
  ASSUME Inv, Die
  PROVE  Inv'
<1>1. backlog' \in Seq(Clients) /\ pipe' \in [Workers -> Seq(Clients)]
  BY DEF Die
<1>2. TypeOK'
  BY <1>1 DEF Inv, TypeOK, Die, storeVars, Places, Answers
<1>3. ClientInv'
  BY DEF Inv, TypeOK, ClientInv, Die
<1> QED
  BY <1>2, <1>3 DEF Inv

\* A step of a worker that leaves clients and pipes alone.
LEMMA WorkInv ==
  ASSUME Inv, NEW w \in Workers, NEW l, NEW t,
         UNCHANGED <<clientVars, backlog, pipe, client, procVars>>,
         pc[w] # "wait", l \in Places \ {"wait"}, t \in Answers,
         pc' = [pc EXCEPT ![w] = l], text' = [text EXCEPT ![w] = t],
         l # "respond" => t = "none",
         l \in {"select", "insert", "mkdir"} \/ t = "success" =>
           msg[client[w]] # NoMsg,
         rows' \subseteq Names, homes' \subseteq Names
  PROVE  Inv'
<1>1. TypeOK'
  BY DEF Inv, TypeOK, clientVars, procVars
<1>2. ClientInv'
  <2>1. ASSUME NEW v \in Workers
        PROVE  /\ pc'[v] # "wait" => client'[v] \in Clients
               /\ pc'[v] # "respond" => text'[v] = "none"
               /\ pc'[v] \in {"select", "insert", "mkdir"} \/ text'[v] = "success" =>
                    msg'[client'[v]] # NoMsg
    <3>1. CASE v = w
      BY <3>1 DEF Inv, TypeOK, ClientInv, clientVars
    <3>2. CASE v # w
      BY <3>2 DEF Inv, TypeOK, ClientInv, clientVars
    <3> QED
      BY <3>1, <3>2
  <2> QED
    BY <2>1 DEF Inv, ClientInv, clientVars
<1> QED
  BY <1>1, <1>2 DEF Inv

LEMMA GotoInv ==
  ASSUME Inv, NEW w \in Workers, NEW l \in {"select", "insert", "mkdir"}, Goto(w, l),
         UNCHANGED <<clientVars, backlog, pipe, procVars>>,
         pc[w] \notin {"wait", "respond"}, msg[client[w]] # NoMsg,
         rows' \subseteq Names, homes' \subseteq Names
  PROVE  Inv'
<1>1. text[w] = "none" /\ text' = [text EXCEPT ![w] = "none"]
  BY DEF Goto, Inv, TypeOK, ClientInv
<1> QED
  BY <1>1, WorkInv DEF Goto, Places, Answers

LEMMA AnswerInv ==
  ASSUME Inv, NEW w \in Workers, NEW t \in Answers, Answer(w, t),
         UNCHANGED <<clientVars, backlog, pipe, procVars>>,
         pc[w] # "wait", t = "success" => msg[client[w]] # NoMsg,
         rows' \subseteq Names, homes' \subseteq Names
  PROVE  Inv'
BY WorkInv DEF Answer, Places

LEMMA RecvInv ==
  ASSUME Inv, NEW w \in Workers, Recv(w)
  PROVE  Inv'
<1>1. pc[w] = "recv" /\ rows \subseteq Names /\ homes \subseteq Names
  BY DEF Recv, At, Inv, TypeOK
<1>2. CASE UNCHANGED <<clientVars, backlog, pipe, storeVars, procVars>>
  <2>1. CASE Received(w) = "register" /\ Goto(w, "select")
    <3>1. msg[client[w]] # NoMsg
      BY <2>1 DEF Received
    <3> QED
      BY <1>1, <1>2, <2>1, <3>1, GotoInv DEF storeVars
  <2>2. CASE Answer(w, "parseFailed") \/ Answer(w, "errorCommand")
    BY <1>1, <1>2, <2>2, AnswerInv DEF storeVars, Answers
  <2> QED
    BY <1>2, <2>1, <2>2, DieInv DEF Recv
<1> QED
  BY <1>2, DieInv DEF Recv

LEMMA UsrNotExistInv ==
  ASSUME Inv, NEW w \in Workers, UsrNotExist(w)
  PROVE  Inv'
<1>1. pc[w] = "select" /\ rows \subseteq Names /\ homes \subseteq Names
  BY DEF UsrNotExist, At, Inv, TypeOK
<1>2. msg[client[w]] # NoMsg
  BY <1>1 DEF Inv, ClientInv
<1>3. CASE UNCHANGED <<clientVars, backlog, pipe, storeVars, procVars>>
  <2>1. CASE Goto(w, "insert")
    BY <1>1, <1>2, <1>3, <2>1, GotoInv DEF storeVars
  <2>2. CASE Answer(w, "existed") \/ Answer(w, "queryFailed")
    BY <1>1, <1>3, <2>2, AnswerInv DEF storeVars, Answers
  <2> QED
    BY <2>1, <2>2, DieInv DEF UsrNotExist
<1> QED
  BY <1>3, DieInv DEF UsrNotExist

LEMMA InsertUsrInv ==
  ASSUME Inv, NEW w \in Workers, InsertUsr(w)
  PROVE  Inv'
<1>1. pc[w] = "insert" /\ UNCHANGED <<clientVars, backlog, pipe, homes, procVars>>
  BY DEF InsertUsr, At
<1>2. msg[client[w]] # NoMsg /\ name(w) \in Names
  BY <1>1, NameOf DEF Inv, ClientInv
<1>3. rows' \subseteq Names /\ homes' \subseteq Names
  BY <1>1, <1>2 DEF InsertUsr, Inv, TypeOK
<1>4. Goto(w, "mkdir") \/ Answer(w, "insertFailed")
  BY DEF InsertUsr
<1> QED
  BY <1>1, <1>2, <1>3, <1>4, GotoInv, AnswerInv DEF Answers

LEMMA CreateUsrDirInv ==
  ASSUME Inv, NEW w \in Workers, CreateUsrDir(w)
  PROVE  Inv'
<1>1. pc[w] = "mkdir" /\ UNCHANGED <<clientVars, backlog, pipe, rows, procVars>>
  BY DEF CreateUsrDir, At
<1>2. msg[client[w]] # NoMsg /\ name(w) \in Names
  BY <1>1, NameOf DEF Inv, ClientInv
<1>3. rows' \subseteq Names /\ homes' \subseteq Names
  BY <1>1, <1>2 DEF CreateUsrDir, Inv, TypeOK
<1>4. Answer(w, "success") \/ Answer(w, "mkdirFailed")
  BY DEF CreateUsrDir
<1> QED
  BY <1>1, <1>2, <1>3, <1>4, AnswerInv DEF Answers

LEMMA SendResponseInv ==
  ASSUME Inv, NEW w \in Workers, SendResponse(w)
  PROVE  Inv'
<1>1. pc[w] = "respond" /\ client[w] \in Clients
  BY DEF SendResponse, At, Inv, ClientInv
<1>2. /\ UNCHANGED <<sock, msg, backlog, pipe, storeVars, procVars>>
      /\ pc' = [pc EXCEPT ![w] = "wait"]
      /\ client' = [client EXCEPT ![w] = NoClient]
      /\ text' = [text EXCEPT ![w] = "none"]
      /\ answer' = [answer EXCEPT ![client[w]] =
                      IF sock[client[w]] = "closed" THEN @ ELSE text[w]]
  BY DEF SendResponse, AfterCallback
<1>3. text[w] \in Answers /\ (text[w] = "success" => msg[client[w]] # NoMsg)
  BY DEF Inv, TypeOK, ClientInv
<1>4. TypeOK'
  BY <1>1, <1>2, <1>3 DEF Inv, TypeOK, storeVars, procVars, Places, Answers
<1>5. \A c \in Clients : answer'[c] = "success" => msg'[c] # NoMsg
  BY <1>1, <1>2, <1>3 DEF Inv, TypeOK, ClientInv
<1>6. ClientInv'
  BY <1>2, <1>5 DEF Inv, TypeOK, ClientInv
<1> QED
  BY <1>4, <1>6 DEF Inv

\* The clients and the main thread.
LEMMA ClientStepInv ==
  ASSUME Inv, NEW c \in Clients, Connect(c) \/ Send(c) \/ HangUp(c)
  PROVE  Inv'
<1>1. CASE Connect(c)
  BY <1>1 DEF Connect, Inv, TypeOK, ClientInv, workerVars, storeVars, procVars
<1>2. CASE Send(c)
  <2>1. PICK m \in Message : msg' = [msg EXCEPT ![c] = m]
    BY <1>2, ShortAssumption DEF Send, Message
  <2>2. msg[c] = NoMsg /\ m # NoMsg
    BY <1>2, ShortAssumption DEF Send, Inv, ClientInv
  <2>3. /\ sock' = [sock EXCEPT ![c] = "sent"]
        /\ UNCHANGED <<answer, backlog, pipe, workerVars, storeVars, procVars>>
    BY <1>2 DEF Send
  <2>4. TypeOK'
    BY <2>1, <2>3 DEF Inv, TypeOK, workerVars, storeVars, procVars
  <2>5. \A d \in Clients : msg[d] # NoMsg => msg'[d] = msg[d]
    BY <2>1, <2>2 DEF Inv, TypeOK
  <2>6. \A d \in Clients : sock'[d] \in {"new", "connected"} => msg'[d] = NoMsg
    BY <2>1, <2>3 DEF Inv, TypeOK, ClientInv
  <2>7. ASSUME NEW w \in Workers,
               pc[w] \in {"select", "insert", "mkdir"} \/ text[w] = "success"
        PROVE  msg'[client[w]] # NoMsg
    BY <2>5, <2>7, NameOf DEF Inv, ClientInv
  <2>8. ClientInv'
    BY <2>3, <2>5, <2>6, <2>7 DEF Inv, ClientInv, workerVars
  <2> QED
    BY <2>4, <2>8 DEF Inv
<1>3. CASE HangUp(c)
  BY <1>3 DEF HangUp, Inv, TypeOK, ClientInv, workerVars, storeVars, procVars
<1> QED
  BY <1>1, <1>2, <1>3

LEMMA HandOverInv ==
  ASSUME Inv
  PROVE  /\ MainConnectByClient => Inv'
         /\ \A w \in Workers : ReadFd(w) => Inv'
<1>1. ASSUME MainConnectByClient PROVE Inv'
  <2>1. Head(backlog) \in Clients /\ Tail(backlog) \in Seq(Clients)
    BY <1>1 DEF MainConnectByClient, Inv, TypeOK
  <2>2. pipe' \in [Workers -> Seq(Clients)]
    <3>1. ASSUME NEW w \in Workers
          PROVE  Append(pipe[w], Head(backlog)) \in Seq(Clients)
      BY <2>1 DEF Inv, TypeOK
    <3> QED
      BY <1>1, <3>1 DEF MainConnectByClient, Inv, TypeOK
  <2> QED
    BY <1>1, <2>1, <2>2 DEF MainConnectByClient, Inv, TypeOK, ClientInv, clientVars,
       workerVars, storeVars, procVars
<1>2. ASSUME NEW w \in Workers, ReadFd(w) PROVE Inv'
  <2>1. pipe[w] \in Seq(Clients) /\ pipe[w] # <<>> /\ pc[w] = "wait"
    BY <1>2 DEF ReadFd, At, Inv, TypeOK
  <2>2. Head(pipe[w]) \in Clients /\ Tail(pipe[w]) \in Seq(Clients)
    BY <2>1
  <2>3. text[w] = "none"
    BY <2>1 DEF Inv, ClientInv
  <2>4. TypeOK'
    BY <1>2, <2>2 DEF ReadFd, Inv, TypeOK, clientVars, storeVars, procVars, Places
  <2>5. ClientInv'
    BY <1>2, <2>2, <2>3 DEF ReadFd, Inv, TypeOK, ClientInv, clientVars
  <2> QED
    BY <2>4, <2>5 DEF Inv
<1> QED
  BY <1>1, <1>2

LEMMA NextInv == Inv /\ [Next]_vars => Inv'
<1> SUFFICES ASSUME Inv, [Next]_vars PROVE Inv'
  OBVIOUS
<1>1. ASSUME NEW w \in Workers, Work(w) PROVE Inv'
  BY <1>1, HandOverInv, RecvInv, UsrNotExistInv, InsertUsrInv, CreateUsrDirInv,
     SendResponseInv DEF Work
<1>2. CASE Kill
  BY <1>2, DieInv DEF Kill
<1>3. CASE Restart
  BY <1>3 DEF Restart, Inv, TypeOK, ClientInv, clientVars, workerVars, storeVars
<1>4. CASE Drained \/ UNCHANGED vars
  BY <1>4 DEF Drained, vars, Inv, TypeOK, ClientInv
<1> QED
  BY <1>1, <1>2, <1>3, <1>4, ClientStepInv, HandOverInv DEF Next

LEMMA Invariance == Spec => []Inv
BY InitInv, NextInv, PTL DEF Spec

(***************************************************************************)
(* Every reachable state of the short-connection server is well typed.     *)
(***************************************************************************)
THEOREM ShortTypeCorrect == Spec => []TypeOK
<1>1. Inv => TypeOK
  BY DEF Inv
<1> QED
  BY <1>1, Invariance, PTL
-----------------------------------------------------------------------------
(***************************************************************************)
(* Registration.  A client wins a name when a worker has inserted the row  *)
(* for it, and stays a winner when it was told "Success".                  *)
(***************************************************************************)
Winners ==
  {c \in Clients :
     \/ answer[c] = "success"
     \/ \E w \in Workers : client[w] = c /\ (pc[w] = "mkdir" \/ text[w] = "success")}

NameInv ==
  /\ homes \subseteq rows
  /\ \A c \in Winners : msg[c].name \in rows
  /\ \A c, d \in Winners : msg[c].name = msg[d].name => c = d
  /\ \A w \in Workers : text[w] = "success" => name(w) \in homes
  /\ \A c \in Clients : answer[c] = "success" => msg[c].name \in homes

\* Steps that make no winner keep NameInv, when rows and homes only grow.
LEMMA NameFrame ==
  ASSUME NameInv, Winners' \subseteq Winners,
         \A c \in Winners : msg'[c] = msg[c],
         rows \subseteq rows', homes \subseteq homes', homes' \subseteq rows',
         \A w \in Workers : text'[w] = "success" => name(w)' \in homes',
         \A c \in Clients : answer'[c] = "success" => msg'[c].name \in homes'
  PROVE  NameInv'
<1>1. \A c \in Winners' : msg'[c].name \in rows'
  BY DEF NameInv
<1>2. \A c, d \in Winners' : msg'[c].name = msg'[d].name => c = d
  BY DEF NameInv
<1> QED
  BY <1>1, <1>2 DEF NameInv

LEMMA WinnersHaveSent ==
  ASSUME Inv
  PROVE  \A c \in Winners : msg[c] # NoMsg
BY DEF Inv, ClientInv, Winners

\* A step after which each worker is as before or serves no winner.
LEMMA NoNewWinner ==
  ASSUME Inv, NameInv, answer' = answer, homes' = homes, rows \subseteq rows',
         \A c \in Clients : msg[c] # NoMsg => msg'[c] = msg[c],
         \A w \in Workers :
           \/ pc'[w] # "mkdir" /\ text'[w] # "success"
           \/ pc'[w] = pc[w] /\ text'[w] = text[w] /\ client'[w] = client[w]
  PROVE  NameInv'
<1>1. Winners' \subseteq Winners
  BY DEF Winners
<1>2. \A c \in Winners : msg'[c] = msg[c]
  BY WinnersHaveSent DEF Winners
<1>3. ASSUME NEW w \in Workers, text'[w] = "success"
      PROVE  name(w)' \in homes'
  <2>1. text[w] = "success" /\ client'[w] = client[w]
    BY <1>3
  <2>2. client[w] \in Clients /\ msg[client[w]] # NoMsg
    BY <2>1, NameOf, ShortAssumption DEF Inv, ClientInv
  <2> QED
    BY <2>1, <2>2 DEF NameInv, name
<1>4. \A c \in Clients : answer'[c] = "success" => msg'[c].name \in homes'
  BY DEF NameInv, Inv, ClientInv
<1> QED
  BY <1>1, <1>2, <1>3, <1>4, NameFrame DEF NameInv

LEMMA InsertUsrName ==
  ASSUME Inv, NameInv, NEW w \in Workers, InsertUsr(w)
  PROVE  NameInv'
<1>1. pc[w] = "insert" /\ UNCHANGED <<clientVars, backlog, pipe, homes, procVars>>
  BY DEF InsertUsr, At
<1>2. text[w] = "none" /\ client[w] \in Clients
  BY <1>1 DEF Inv, ClientInv
<1>3. CASE name(w) \notin rows /\ rows' = rows \cup {name(w)} /\ Goto(w, "mkdir")
  <2>1. /\ pc' = [pc EXCEPT ![w] = "mkdir"]
        /\ client' = client /\ text' = text /\ msg' = msg /\ answer' = answer
    BY <1>1, <1>3 DEF Goto, clientVars
  <2>2. Winners' \subseteq Winners \cup {client[w]}
    BY <2>1 DEF Winners, Inv, TypeOK
  <2>3. \A c \in Winners : msg[c].name # msg[client[w]].name
    BY <1>3 DEF NameInv, name
  <2>4. \A c \in Winners' : msg'[c].name \in rows'
    BY <1>3, <2>1, <2>2 DEF NameInv, name
  <2>5. \A c, d \in Winners' : msg'[c].name = msg'[d].name => c = d
    BY <2>1, <2>2, <2>3 DEF NameInv
  <2> QED
    BY <1>1, <1>3, <2>1, <2>4, <2>5 DEF NameInv, name
<1>4. CASE rows \subseteq rows' /\ Answer(w, "insertFailed")
  BY <1>1, <1>4, NoNewWinner DEF Answer, Inv, TypeOK, clientVars
<1> QED
  BY <1>3, <1>4 DEF InsertUsr

LEMMA CreateUsrDirName ==
  ASSUME Inv, NameInv, NEW w \in Workers, CreateUsrDir(w)
  PROVE  NameInv'
<1>1. pc[w] = "mkdir" /\ UNCHANGED <<clientVars, backlog, pipe, rows, procVars>>
  BY DEF CreateUsrDir, At
<1>2. client[w] \in Clients /\ client[w] \in Winners
  BY <1>1 DEF Inv, ClientInv, Winners
<1>3. CASE homes' = homes \cup {name(w)} /\ Answer(w, "success")
  <2>1. /\ pc' = [pc EXCEPT ![w] = "respond"]
        /\ text' = [text EXCEPT ![w] = "success"]
        /\ client' = client /\ msg' = msg /\ answer' = answer
    BY <1>1, <1>3 DEF Answer, clientVars
  <2>2. Winners' \subseteq Winners
    BY <1>2, <2>1 DEF Winners, Inv, TypeOK
  <2>3. name(w) \in rows /\ homes' \subseteq rows
    BY <1>2, <1>3 DEF NameInv, name
  <2>4. \A v \in Workers : text'[v] = "success" => name(v)' \in homes'
    BY <1>3, <2>1 DEF NameInv, name, Inv, TypeOK
  <2>5. \A c \in Clients : answer'[c] = "success" => msg'[c].name \in homes'
    BY <1>3, <2>1 DEF NameInv
  <2> QED
    BY <1>1, <1>3, <2>1, <2>2, <2>3, <2>4, <2>5, NameFrame
<1>4. CASE homes' = homes /\ Answer(w, "mkdirFailed")
  BY <1>1, <1>4, NoNewWinner DEF Answer, Inv, TypeOK, clientVars
<1> QED
  BY <1>3, <1>4 DEF CreateUsrDir

LEMMA SendResponseName ==
  ASSUME Inv, NameInv, NEW w \in Workers, SendResponse(w)
  PROVE  NameInv'
<1>1. /\ client[w] \in Clients
      /\ UNCHANGED <<msg, rows, homes>>
      /\ pc' = [pc EXCEPT ![w] = "wait"]
      /\ client' = [client EXCEPT ![w] = NoClient]
      /\ text' = [text EXCEPT ![w] = "none"]
      /\ answer' = [answer EXCEPT ![client[w]] =
                      IF sock[client[w]] = "closed" THEN @ ELSE text[w]]
  BY DEF SendResponse, At, AfterCallback, Inv, ClientInv, storeVars
<1>2. \A c \in Clients : answer'[c] = "success" =>
        answer[c] = "success" \/ (c = client[w] /\ text[w] = "success")
  <2> SUFFICES ASSUME NEW c \in Clients, answer'[c] = "success", answer[c] # "success"
               PROVE  c = client[w] /\ text[w] = "success"
    OBVIOUS
  <2>1. answer \in [Clients -> Answers]
    BY DEF Inv, TypeOK
  <2>2. c = client[w]
    BY <1>1, <2>1
  <2> QED
    BY <1>1, <2>1, <2>2
<1>3. Winners' \subseteq Winners
  BY <1>1, <1>2 DEF Winners, Inv, TypeOK
<1>4. \A c \in Clients : answer'[c] = "success" => msg'[c].name \in homes'
  BY <1>1, <1>2 DEF NameInv, name
<1>5. \A v \in Workers : text'[v] = "success" => name(v)' \in homes'
  BY <1>1 DEF NameInv, name, Inv, TypeOK
<1> QED
  BY <1>1, <1>3, <1>4, <1>5, NameFrame DEF NameInv

\* The steps that make no winner.
LEMMA OtherStepsName ==
  ASSUME Inv, NameInv
  PROVE  /\ \A c \in Clients : Connect(c) \/ Send(c) \/ HangUp(c) => NameInv'
         /\ MainConnectByClient \/ Die \/ Restart \/ UNCHANGED vars => NameInv'
         /\ \A w \in Workers : ReadFd(w) \/ Recv(w) \/ UsrNotExist(w) => NameInv'
<1>1. ASSUME NEW c \in Clients, Connect(c) \/ Send(c) \/ HangUp(c)
      PROVE  NameInv'
  <2>1. \A d \in Clients : msg[d] # NoMsg => msg'[d] = msg[d]
    <3>1. CASE Send(c)
      BY <3>1 DEF Send, Inv, TypeOK, ClientInv
    <3> QED
      BY <1>1, <3>1 DEF Connect, HangUp
  <2> QED
    BY <1>1, <2>1, NoNewWinner DEF Connect, Send, HangUp, workerVars, storeVars
<1>2. ASSUME MainConnectByClient \/ Restart \/ UNCHANGED vars
      PROVE  NameInv'
  BY <1>2, NoNewWinner DEF MainConnectByClient, Restart, vars, clientVars, workerVars,
     storeVars
<1>3. ASSUME Die PROVE NameInv'
  BY <1>3, NoNewWinner DEF Die, storeVars
<1>4. ASSUME NEW w \in Workers, ReadFd(w) \/ Recv(w) \/ UsrNotExist(w), ~Die
      PROVE  NameInv'
  <2>1. UNCHANGED <<clientVars, storeVars>>
    BY <1>4 DEF ReadFd, Recv, UsrNotExist
  <2>2. CASE ReadFd(w)
    <3>1. text[w] = "none"
      BY <2>2 DEF ReadFd, At, Inv, ClientInv
    <3> QED
      BY <2>1, <2>2, <3>1, NoNewWinner DEF ReadFd, Inv, TypeOK, clientVars, storeVars
  <2>3. CASE Goto(w, "select") \/ Goto(w, "insert")
    <3>1. text[w] = "none"
      BY <1>4, <2>2, <2>3 DEF Recv, UsrNotExist, At, Inv, ClientInv, ReadFd
    <3> QED
      BY <2>1, <2>3, <3>1, NoNewWinner DEF Goto, Inv, TypeOK, clientVars, storeVars
  <2>4. ASSUME NEW t \in Answers \ {"success"}, Answer(w, t)
        PROVE  NameInv'
    BY <2>1, <2>4, NoNewWinner DEF Answer, Inv, TypeOK, clientVars, storeVars
  <2> QED
    BY <1>4, <2>2, <2>3, <2>4 DEF Recv, UsrNotExist, Answers
<1> QED
  BY <1>1, <1>2, <1>3, <1>4

LEMMA NextName == Inv /\ NameInv /\ [Next]_vars => NameInv'
<1> SUFFICES ASSUME Inv, NameInv, [Next]_vars PROVE NameInv'
  OBVIOUS
<1>1. ASSUME NEW w \in Workers, Work(w) PROVE NameInv'
  BY <1>1, OtherStepsName, InsertUsrName, CreateUsrDirName, SendResponseName DEF Work
<1> QED
  BY <1>1, OtherStepsName DEF Next, Kill, Drained

LEMMA NameInvariant == Spec => []NameInv
<1>1. Init => NameInv
  BY DEF Init, NameInv, Winners
<1> QED
  BY <1>1, NextName, Invariance, PTL DEF Spec

(***************************************************************************)
(* However many clients ask for a name on however many workers, whatever   *)
(* fails and however often the process dies, at most one of them is told   *)
(* "Success".                                                              *)
(***************************************************************************)
THEOREM NameGivenOnce == Spec => []NameIsGivenOnce
<1>1. NameInv => NameIsGivenOnce
  <2> SUFFICES ASSUME NameInv, NEW n \in Names
               PROVE  Cardinality(Told("success", n)) <= 1
    BY DEF NameIsGivenOnce
  <2>1. \A c, d \in Told("success", n) : c = d
    BY DEF NameInv, Told, Winners
  <2>2. CASE Told("success", n) = {}
    BY <2>2, FS_EmptySet
  <2>3. CASE \E c : Told("success", n) = {c}
    BY <2>3, FS_Singleton
  <2> QED
    BY <2>1, <2>2, <2>3
<1> QED
  BY <1>1, NameInvariant, PTL

(***************************************************************************)
(* Who was told "Success" has an account and the home directory that the   *)
(* upload service needs.                                                   *)
(***************************************************************************)
THEOREM SuccessUsable == Spec => []SuccessIsUsable
<1>1. NameInv => SuccessIsUsable
  BY DEF NameInv, SuccessIsUsable, Told
<1> QED
  BY <1>1, NameInvariant, PTL

(***************************************************************************)
(* No home directory without an account.                                   *)
(***************************************************************************)
THEOREM HomesRegistered == Spec => []HomesAreRegistered
<1>1. NameInv => HomesAreRegistered
  BY DEF NameInv, HomesAreRegistered
<1> QED
  BY <1>1, NameInvariant, PTL
-----------------------------------------------------------------------------
(***************************************************************************)
(* Registration implements Accounts.  What a client was told is never      *)
(* replaced by another answer, because a descriptor is in one place only:  *)
(* in the backlog, in one pipe or with one worker, and nowhere before the  *)
(* client connects and after it was answered.                              *)
(***************************************************************************)
Fresh(c) == sock[c] # "new" /\ answer[c] = "none"

PlaceInv ==
  /\ \A i \in DOMAIN backlog : Fresh(backlog[i])
  /\ \A i, j \in DOMAIN backlog : backlog[i] = backlog[j] => i = j
  /\ \A w \in Workers : \A i \in DOMAIN pipe[w] : Fresh(pipe[w][i])
  /\ \A w \in Workers : \A i \in DOMAIN pipe[w], j \in DOMAIN backlog :
       pipe[w][i] # backlog[j]
  /\ \A v, w \in Workers : \A i \in DOMAIN pipe[v], j \in DOMAIN pipe[w] :
       pipe[v][i] = pipe[w][j] => v = w /\ i = j
  /\ \A w \in Workers : pc[w] = "wait" <=> client[w] = NoClient
  /\ \A w \in Workers : client[w] # NoClient =>
       /\ Fresh(client[w])
       /\ \A j \in DOMAIN backlog : client[w] # backlog[j]
       /\ \A v \in Workers : \A i \in DOMAIN pipe[v] : client[w] # pipe[v][i]
       /\ \A v \in Workers : client[v] = client[w] => v = w
  /\ \A c \in Clients : answer[c] # "none" => sock[c] # "new"

\* Steps that move no descriptor.
LEMMA StayPlace ==
  ASSUME PlaceInv, UNCHANGED <<answer, backlog, pipe, client>>,
         \A c \in Clients : sock[c] # "new" => sock'[c] # "new",
         \A w \in Workers : pc'[w] = "wait" <=> pc[w] = "wait",
         TypeOK
  PROVE  PlaceInv'
<1>1. \A c \in Clients : Fresh(c) => Fresh(c)'
  BY DEF Fresh
<1>2. \A i \in DOMAIN backlog : backlog[i] \in Clients
  BY DEF TypeOK
<1>3. \A w \in Workers : \A i \in DOMAIN pipe[w] : pipe[w][i] \in Clients
  BY DEF TypeOK
<1>4. \A w \in Workers : client[w] # NoClient => client[w] \in Clients
  BY DEF TypeOK
<1> QED
  BY <1>1, <1>2, <1>3, <1>4 DEF PlaceInv

LEMMA DiePlace ==
  ASSUME Inv, PlaceInv, Die
  PROVE  PlaceInv'
<1>1. /\ DOMAIN backlog' = {} /\ \A w \in Workers : DOMAIN pipe'[w] = {}
      /\ \A w \in Workers : pc'[w] = "wait" /\ client'[w] = NoClient
  BY DEF Die
<1>2. \A c \in Clients : answer'[c] # "none" => sock'[c] # "new"
  BY DEF Die, PlaceInv
<1> QED
  BY <1>1, <1>2 DEF PlaceInv

LEMMA ConnectPlace ==
  ASSUME Inv, PlaceInv, NEW c \in Clients, Connect(c)
  PROVE  PlaceInv'
<1>1. /\ sock[c] = "new" /\ backlog' = Append(backlog, c)
      /\ sock' = [sock EXCEPT ![c] = "connected"]
      /\ UNCHANGED <<answer, pipe, pc, client>>
  BY DEF Connect, workerVars
<1>2. sock \in [Clients -> {"new", "connected", "sent", "closed"}] /\ backlog \in Seq(Clients)
  BY DEF Inv, TypeOK
<1>3. Fresh(c)' /\ ~Fresh(c) /\ \A d \in Clients : Fresh(d) => Fresh(d)'
  BY <1>1, <1>2 DEF PlaceInv, Fresh
<1>4. /\ Len(backlog') = Len(backlog) + 1 /\ backlog'[Len(backlog) + 1] = c
      /\ DOMAIN backlog = 1 .. Len(backlog) /\ DOMAIN backlog' = 1 .. Len(backlog')
      /\ \A i \in DOMAIN backlog : backlog'[i] = backlog[i] /\ backlog[i] \in Clients
  BY <1>1, <1>2
<1>5. /\ \A w \in Workers : \A i \in DOMAIN pipe[w] : pipe[w][i] \in Clients
      /\ \A w \in Workers : client[w] # NoClient => client[w] \in Clients
  BY DEF Inv, TypeOK
<1>6. \A j \in DOMAIN backlog' : j \in DOMAIN backlog \/ backlog'[j] = c
  BY <1>2, <1>4
<1>7. \A i, j \in DOMAIN backlog' : backlog'[i] = backlog'[j] => i = j
  <2>1. \A i \in DOMAIN backlog : backlog[i] # c
    BY <1>3 DEF PlaceInv
  <2> QED
    BY <1>2, <1>4, <2>1 DEF PlaceInv
<1>8. \A w \in Workers : \A i \in DOMAIN pipe'[w], j \in DOMAIN backlog' :
        pipe'[w][i] # backlog'[j]
  BY <1>1, <1>3, <1>4, <1>6 DEF PlaceInv
<1>9. \A w \in Workers : client'[w] # NoClient =>
        \A j \in DOMAIN backlog' : client'[w] # backlog'[j]
  BY <1>1, <1>3, <1>4, <1>6 DEF PlaceInv
<1>10. \A d \in Clients : answer'[d] # "none" => sock'[d] # "new"
  BY <1>1, <1>2 DEF PlaceInv
<1>11. \A i \in DOMAIN backlog' :
         sock'[backlog'[i]] # "new" /\ answer'[backlog'[i]] = "none"
  BY <1>3, <1>4, <1>6 DEF PlaceInv, Fresh
<1> QED
  BY <1>1, <1>3, <1>5, <1>7, <1>8, <1>9, <1>10, <1>11 DEF PlaceInv, Fresh

LEMMA HandOverPlace ==
  ASSUME Inv, PlaceInv, MainConnectByClient
  PROVE  PlaceInv'
<1>1. PICK u \in Workers : pipe' = [pipe EXCEPT ![u] = Append(@, Head(backlog))]
  BY DEF MainConnectByClient
<1>2. /\ backlog # <<>> /\ backlog' = Tail(backlog)
      /\ UNCHANGED <<sock, answer, pc, client>>
  BY DEF MainConnectByClient, clientVars, workerVars
<1>3. backlog \in Seq(Clients) /\ pipe \in [Workers -> Seq(Clients)]
  BY DEF Inv, TypeOK
<1> DEFINE c == Head(backlog)
<1>4. /\ Len(backlog) \in Nat /\ Len(backlog) > 0
      /\ DOMAIN backlog = 1 .. Len(backlog) /\ DOMAIN backlog' = 1 .. Len(backlog) - 1
      /\ c = backlog[1] /\ \A j \in DOMAIN backlog' : backlog'[j] = backlog[j + 1]
  BY <1>2, <1>3
<1>5. /\ Len(pipe[u]) \in Nat /\ DOMAIN pipe[u] = 1 .. Len(pipe[u])
      /\ DOMAIN pipe'[u] = 1 .. Len(pipe[u]) + 1
      /\ pipe'[u][Len(pipe[u]) + 1] = c
      /\ \A i \in DOMAIN pipe[u] : pipe'[u][i] = pipe[u][i]
      /\ \A w \in Workers \ {u} : pipe'[w] = pipe[w]
  BY <1>1, <1>3, <1>4
<1>6. \A w \in Workers : \A i \in DOMAIN pipe'[w] :
        \/ i \in DOMAIN pipe[w] /\ pipe'[w][i] = pipe[w][i]
        \/ w = u /\ i = Len(pipe[u]) + 1 /\ pipe'[w][i] = c
  BY <1>5
<1>7. /\ Fresh(c) /\ \A j \in DOMAIN backlog' : backlog'[j] # c
      /\ \A w \in Workers : client[w] # c
      /\ \A w \in Workers : \A i \in DOMAIN pipe[w] : pipe[w][i] # c
  <2>1. c \in Clients /\ c # NoClient
    BY <1>3, <1>4, ShortAssumption
  <2> QED
    BY <1>4, <2>1 DEF PlaceInv
<1>8. \A j \in DOMAIN backlog' : j + 1 \in DOMAIN backlog
  BY <1>4
<1>9. /\ \A i \in DOMAIN backlog' : Fresh(backlog'[i])
      /\ \A i, j \in DOMAIN backlog' : backlog'[i] = backlog'[j] => i = j
  <2>1. \A i, j \in DOMAIN backlog' : i + 1 = j + 1 => i = j
    BY <1>4
  <2> QED
    BY <1>4, <1>8, <2>1 DEF PlaceInv
<1>10. \A w \in Workers : \A i \in DOMAIN pipe'[w] :
         /\ Fresh(pipe'[w][i])
         /\ \A j \in DOMAIN backlog' : pipe'[w][i] # backlog'[j]
  BY <1>4, <1>6, <1>7, <1>8 DEF PlaceInv
<1>11. \A v, w \in Workers : \A i \in DOMAIN pipe'[v], j \in DOMAIN pipe'[w] :
         pipe'[v][i] = pipe'[w][j] => v = w /\ i = j
  BY <1>6, <1>7 DEF PlaceInv
<1>12. \A w \in Workers : client[w] # NoClient =>
         /\ \A j \in DOMAIN backlog' : client[w] # backlog'[j]
         /\ \A v \in Workers : \A i \in DOMAIN pipe'[v] : client[w] # pipe'[v][i]
  BY <1>4, <1>6, <1>7, <1>8 DEF PlaceInv
<1>13. \A d : Fresh(d)' <=> Fresh(d)
  BY <1>2 DEF Fresh
<1> QED
  BY <1>2, <1>9, <1>10, <1>11, <1>12, <1>13 DEF PlaceInv

LEMMA ReadFdPlace ==
  ASSUME Inv, PlaceInv, NEW u \in Workers, ReadFd(u)
  PROVE  PlaceInv'
<1>1. /\ pc[u] = "wait" /\ pipe[u] # <<>>
      /\ client' = [client EXCEPT ![u] = Head(pipe[u])]
      /\ pipe' = [pipe EXCEPT ![u] = Tail(pipe[u])]
      /\ pc' = [pc EXCEPT ![u] = "recv"]
      /\ UNCHANGED <<sock, answer, backlog>>
  BY DEF ReadFd, At, clientVars
<1>2. /\ pipe \in [Workers -> Seq(Clients)] /\ pc \in [Workers -> Places]
      /\ client \in [Workers -> Clients \cup {NoClient}]
  BY DEF Inv, TypeOK
<1> DEFINE c == Head(pipe[u])
<1>3. /\ pipe[u] \in Seq(Clients) /\ Len(pipe[u]) \in Nat /\ Len(pipe[u]) > 0
      /\ DOMAIN pipe[u] = 1 .. Len(pipe[u]) /\ DOMAIN Tail(pipe[u]) = 1 .. Len(pipe[u]) - 1
      /\ c = pipe[u][1] /\ \A i \in DOMAIN Tail(pipe[u]) : Tail(pipe[u])[i] = pipe[u][i + 1]
  BY <1>1, <1>2
<1>4. /\ \A i \in DOMAIN pipe'[u] : i + 1 \in DOMAIN pipe[u] /\ pipe'[u][i] = pipe[u][i + 1]
      /\ \A i, j \in DOMAIN pipe'[u] : i + 1 = j + 1 => i = j
      /\ \A w \in Workers \ {u} : pipe'[w] = pipe[w]
  BY <1>1, <1>2, <1>3
<1>5. /\ c \in Clients /\ c # NoClient /\ 1 \in DOMAIN pipe[u]
      /\ \A i \in DOMAIN pipe'[u] : i + 1 # 1
  BY <1>1, <1>2, <1>3, ShortAssumption
<1>6. /\ Fresh(c) /\ \A j \in DOMAIN backlog : backlog[j] # c
      /\ \A w \in Workers : client[w] # c
  BY <1>3, <1>5 DEF PlaceInv
<1>7. \A w \in Workers : \A i \in DOMAIN pipe'[w] : pipe'[w][i] # c
  BY <1>3, <1>4, <1>5 DEF PlaceInv
<1>8. client'[u] = c /\ pc'[u] = "recv"
      /\ \A w \in Workers \ {u} : client'[w] = client[w] /\ pc'[w] = pc[w]
  BY <1>1, <1>2
<1>9. \A w \in Workers : \A i \in DOMAIN pipe'[w] :
        /\ Fresh(pipe'[w][i])
        /\ \A j \in DOMAIN backlog : pipe'[w][i] # backlog[j]
        /\ \A v \in Workers : client[v] # NoClient => client[v] # pipe'[w][i]
  <2> SUFFICES ASSUME NEW w \in Workers, NEW i \in DOMAIN pipe'[w]
               PROVE  \E k \in DOMAIN pipe[w] : pipe'[w][i] = pipe[w][k]
    BY DEF PlaceInv
  <2> QED
    BY <1>4
<1>10. \A v, w \in Workers : \A i \in DOMAIN pipe'[v], j \in DOMAIN pipe'[w] :
         pipe'[v][i] = pipe'[w][j] => v = w /\ i = j
  <2> SUFFICES ASSUME NEW v \in Workers, NEW w \in Workers,
                      NEW i \in DOMAIN pipe'[v], NEW j \in DOMAIN pipe'[w],
                      pipe'[v][i] = pipe'[w][j]
               PROVE  v = w /\ i = j
    OBVIOUS
  <2>1. CASE v = u /\ w = u
    BY <1>4, <2>1 DEF PlaceInv
  <2>2. CASE v = u /\ w # u
    BY <1>4, <2>2 DEF PlaceInv
  <2>3. CASE v # u /\ w = u
    BY <1>4, <2>3 DEF PlaceInv
  <2>4. CASE v # u /\ w # u
    BY <1>4, <2>4 DEF PlaceInv
  <2> QED
    BY <2>1, <2>2, <2>3, <2>4
<1>11. \A d : Fresh(d)' <=> Fresh(d)
  BY <1>1 DEF Fresh
<1>12. \A w \in Workers : pc'[w] = "wait" <=> client'[w] = NoClient
  BY <1>5, <1>8 DEF PlaceInv
<1>13. \A w \in Workers : client'[w] # NoClient =>
         /\ Fresh(client'[w])
         /\ \A j \in DOMAIN backlog : client'[w] # backlog[j]
         /\ \A v \in Workers : \A i \in DOMAIN pipe'[v] : client'[w] # pipe'[v][i]
         /\ \A v \in Workers : client'[v] = client'[w] => v = w
  BY <1>6, <1>7, <1>8, <1>9 DEF PlaceInv
<1> QED
  BY <1>1, <1>9, <1>10, <1>11, <1>12, <1>13 DEF PlaceInv

LEMMA SendResponsePlace ==
  ASSUME Inv, PlaceInv, NEW u \in Workers, SendResponse(u)
  PROVE  PlaceInv'
<1> DEFINE c == client[u]
<1>1. /\ pc[u] = "respond" /\ c \in Clients /\ c # NoClient
      /\ answer' = [answer EXCEPT ![c] = IF sock[c] = "closed" THEN @ ELSE text[u]]
      /\ pc' = [pc EXCEPT ![u] = "wait"]
      /\ client' = [client EXCEPT ![u] = NoClient]
      /\ UNCHANGED <<sock, backlog, pipe>>
  BY ShortAssumption DEF SendResponse, At, AfterCallback, Inv, ClientInv
<1>2. /\ answer \in [Clients -> Answers] /\ pc \in [Workers -> Places]
      /\ client \in [Workers -> Clients \cup {NoClient}]
  BY DEF Inv, TypeOK
<1>3. \A d : d \in Clients \ {c} => (Fresh(d)' <=> Fresh(d))
  BY <1>1, <1>2 DEF Fresh
<1>4. /\ \A j \in DOMAIN backlog : backlog[j] \in Clients \ {c}
      /\ \A w \in Workers : \A i \in DOMAIN pipe[w] : pipe[w][i] \in Clients \ {c}
      /\ \A w \in Workers : client'[w] # NoClient =>
           w # u /\ client'[w] = client[w] /\ client[w] \in Clients \ {c}
  BY <1>1, <1>2 DEF PlaceInv, Inv, TypeOK
<1>5. \A d \in Clients : answer'[d] # "none" => sock'[d] # "new"
  BY <1>1, <1>2 DEF PlaceInv, Fresh
<1>6. \A w \in Workers : pc'[w] = "wait" <=> client'[w] = NoClient
  BY <1>1, <1>2 DEF PlaceInv
<1>7. \A w \in Workers : client'[w] # NoClient =>
        \A v \in Workers : client'[v] = client'[w] => v = w
  BY <1>1, <1>2, <1>4 DEF PlaceInv
<1> QED
  BY <1>1, <1>3, <1>4, <1>5, <1>6, <1>7 DEF PlaceInv

LEMMA NextPlace == Inv /\ PlaceInv /\ [Next]_vars => PlaceInv'
<1> SUFFICES ASSUME Inv, PlaceInv, [Next]_vars PROVE PlaceInv'
  OBVIOUS
<1>0. TypeOK
  BY DEF Inv
<1>1. ASSUME NEW c \in Clients, Connect(c) \/ Send(c) \/ HangUp(c)
      PROVE  PlaceInv'
  <2>1. CASE Send(c) \/ HangUp(c)
    <3>1. /\ \A d \in Clients : sock[d] # "new" => sock'[d] # "new"
          /\ UNCHANGED <<answer, backlog, pipe, pc, client>>
      BY <2>1, <1>0 DEF Send, HangUp, workerVars, TypeOK
    <3> QED
      BY <1>0, <3>1, StayPlace
  <2> QED
    BY <1>1, <2>1, ConnectPlace
<1>2. ASSUME NEW w \in Workers,
             Recv(w) \/ UsrNotExist(w) \/ InsertUsr(w) \/ CreateUsrDir(w), ~Die
      PROVE  PlaceInv'
  <2>1. UNCHANGED <<sock, answer, backlog, pipe, client>>
    BY <1>2 DEF Recv, UsrNotExist, InsertUsr, CreateUsrDir, Goto, Answer, clientVars
  <2>2. pc[w] # "wait" /\ \E l \in Places \ {"wait"} : pc' = [pc EXCEPT ![w] = l]
    BY <1>2 DEF Recv, UsrNotExist, InsertUsr, CreateUsrDir, Goto, Answer, At, Places
  <2> QED
    BY <1>0, <2>1, <2>2, StayPlace DEF TypeOK
<1>3. ASSUME NEW w \in Workers, Work(w), ~Die PROVE PlaceInv'
  BY <1>2, <1>3, ReadFdPlace, SendResponsePlace DEF Work
<1>4. CASE Restart \/ UNCHANGED vars
  <2>1. UNCHANGED <<sock, answer, backlog, pipe, pc, client>>
    BY <1>4 DEF Restart, vars, clientVars, workerVars
  <2> QED
    BY <1>0, <2>1, StayPlace
<1> QED
  BY <1>1, <1>3, <1>4, DiePlace, HandOverPlace DEF Next, Kill, Drained

LEMMA PlaceInvariant == Spec => []PlaceInv
<1>1. Init => PlaceInv
  BY DEF Init, PlaceInv
<1> QED
  BY <1>1, NextPlace, Invariance, PTL DEF Spec

\* account and told, as the refinement maps them.
accountOf == [n \in Names |-> IF n \notin rows THEN "free"
                              ELSE IF n \in homes THEN "ready" ELSE "claimed"]
toldTo == {t \in Clients \X Names : t[1] \in Told("success", t[2])}

LEMMA ToldMeans ==
  /\ \A c \in Clients, n \in Names :
       <<c, n>> \in toldTo <=> answer[c] = "success" /\ msg[c].name = n
  /\ \A t \in toldTo : t \in Clients \X Names
BY DEF toldTo, Told

\* Steps that tell nobody keep told.
LEMMA NothingTold ==
  ASSUME Inv, answer' = answer, \A c \in Clients : msg[c] # NoMsg => msg'[c] = msg[c]
  PROVE  toldTo' = toldTo
<1>1. \A c \in Clients : answer[c] = "success" => msg'[c] = msg[c]
  BY DEF Inv, ClientInv
<1> QED
  BY <1>1 DEF toldTo, Told

LEMMA InsertClaims ==
  ASSUME Inv, NameInv, NEW w \in Workers, InsertUsr(w)
  PROVE  [Promised!Next]_<<accountOf, toldTo>>
<1>1. pc[w] = "insert" /\ UNCHANGED <<msg, answer, homes>>
  BY DEF InsertUsr, At, clientVars
<1>2. name(w) \in Names
  BY <1>1, NameOf
<1>3. toldTo' = toldTo
  BY <1>1, NothingTold
<1>4. CASE rows' = rows
  BY <1>1, <1>3, <1>4 DEF accountOf
<1>5. CASE name(w) \notin rows /\ rows' = rows \cup {name(w)}
  <2>1. name(w) \notin homes
    BY <1>5 DEF NameInv
  <2>2. accountOf' = [accountOf EXCEPT ![name(w)] = "claimed"]
    BY <1>1, <1>2, <1>5, <2>1 DEF accountOf
  <2>3. accountOf[name(w)] = "free"
    BY <1>2, <1>5 DEF accountOf
  <2> QED
    BY <1>2, <1>3, <2>2, <2>3 DEF Promised!Next, Promised!Claim, accountOf, toldTo
<1> QED
  BY <1>4, <1>5 DEF InsertUsr

LEMMA MkdirMakesHome ==
  ASSUME Inv, NameInv, NEW w \in Workers, CreateUsrDir(w)
  PROVE  [Promised!Next]_<<accountOf, toldTo>>
<1>1. pc[w] = "mkdir" /\ UNCHANGED <<msg, answer, rows>>
  BY DEF CreateUsrDir, At, clientVars
<1>2. name(w) \in Names /\ client[w] \in Winners
  BY <1>1, NameOf DEF Winners
<1>3. toldTo' = toldTo
  BY <1>1, NothingTold
<1>4. CASE homes' = homes
  BY <1>1, <1>3, <1>4 DEF accountOf
<1>5. CASE name(w) \notin homes /\ homes' = homes \cup {name(w)}
  <2>1. name(w) \in rows
    BY <1>2 DEF NameInv, name
  <2>2. accountOf' = [accountOf EXCEPT ![name(w)] = "ready"]
    BY <1>1, <1>2, <1>5, <2>1 DEF accountOf
  <2>3. accountOf[name(w)] = "claimed"
    BY <1>2, <1>5, <2>1 DEF accountOf
  <2> QED
    BY <1>2, <1>3, <2>2, <2>3 DEF Promised!Next, Promised!MakeHome, accountOf, toldTo
<1> QED
  BY <1>4, <1>5 DEF CreateUsrDir

LEMMA ResponseTells ==
  ASSUME Inv, NameInv, PlaceInv, NEW w \in Workers, SendResponse(w)
  PROVE  [Promised!Next]_<<accountOf, toldTo>>
<1> DEFINE c == client[w]
<1>1. /\ pc[w] = "respond" /\ c \in Clients /\ c # NoClient
      /\ answer' = [answer EXCEPT ![c] = IF sock[c] = "closed" THEN @ ELSE text[w]]
      /\ UNCHANGED <<msg, rows, homes>>
  BY ShortAssumption DEF SendResponse, At, Inv, ClientInv, storeVars
<1>2. answer[c] = "none" /\ answer \in [Clients -> Answers]
  BY <1>1 DEF PlaceInv, Fresh, Inv, TypeOK
<1>3. accountOf' = accountOf
  BY <1>1 DEF accountOf
<1>4. CASE answer'[c] # "success"
  <2>1. \A d \in Clients : answer'[d] = "success" <=> answer[d] = "success"
    BY <1>1, <1>2, <1>4
  <2>2. toldTo' = toldTo
    BY <1>1, <2>1 DEF toldTo, Told
  <2> QED
    BY <1>3, <2>2
<1>5. CASE answer'[c] = "success"
  <2> DEFINE n == name(w)
  <2>1. text[w] = "success"
    BY <1>1, <1>2, <1>5
  <2>2. n \in Names /\ n \in homes /\ n \in rows /\ c \in Winners
    BY <1>1, <2>1, NameOf DEF NameInv, Winners
  <2>3. accountOf[n] = "ready"
    BY <2>2 DEF accountOf
  <2>4. \A d \in Clients : <<d, n>> \notin toldTo
    <3> SUFFICES ASSUME NEW d \in Clients, answer[d] = "success", msg[d].name = n
                 PROVE  FALSE
      BY <2>2, ToldMeans
    <3>1. d \in Winners /\ d # c
      BY <1>2 DEF Winners
    <3> QED
      BY <2>2, <3>1 DEF NameInv, name
  <2>5. \A d \in Clients : answer'[d] = "success" <=> answer[d] = "success" \/ d = c
    BY <1>1, <1>2, <1>5
  <2>6. toldTo' = toldTo \cup {<<c, n>>}
    BY <1>1, <2>2, <2>5 DEF toldTo, Told, name
  <2> QED
    BY <1>1, <1>3, <2>2, <2>3, <2>4, <2>6
       DEF Promised!Next, Promised!Tell, accountOf, toldTo
<1> QED
  BY <1>4, <1>5

LEMMA OtherStepsPromise ==
  ASSUME Inv, NameInv
  PROVE  /\ \A c \in Clients :
              Connect(c) \/ Send(c) \/ HangUp(c) => UNCHANGED <<accountOf, toldTo>>
         /\ MainConnectByClient \/ Die \/ Restart \/ UNCHANGED vars =>
              UNCHANGED <<accountOf, toldTo>>
         /\ \A w \in Workers : ReadFd(w) \/ Recv(w) \/ UsrNotExist(w) =>
              UNCHANGED <<accountOf, toldTo>>
<1>1. ASSUME NEW c \in Clients, Connect(c) \/ Send(c) \/ HangUp(c)
      PROVE  UNCHANGED <<accountOf, toldTo>>
  <2>1. UNCHANGED <<rows, homes, answer>>
    BY <1>1 DEF Connect, Send, HangUp, storeVars
  <2>2. \A d \in Clients : msg[d] # NoMsg => msg'[d] = msg[d]
    BY <1>1 DEF Connect, Send, HangUp, Inv, TypeOK, ClientInv
  <2> QED
    BY <2>1, <2>2, NothingTold DEF accountOf
<1>2. ASSUME UNCHANGED <<rows, homes, msg, answer>>
      PROVE  UNCHANGED <<accountOf, toldTo>>
  BY <1>2, NothingTold DEF accountOf
<1>3. MainConnectByClient \/ Die \/ Restart \/ UNCHANGED vars =>
        UNCHANGED <<rows, homes, msg, answer>>
  BY DEF MainConnectByClient, Die, Restart, vars, clientVars, storeVars
<1>4. \A w \in Workers : ReadFd(w) \/ Recv(w) \/ UsrNotExist(w) =>
        UNCHANGED <<rows, homes, msg, answer>>
  BY DEF ReadFd, Recv, UsrNotExist, Die, clientVars, storeVars
<1> QED
  BY <1>1, <1>2, <1>3, <1>4

LEMMA NextPromise ==
  Inv /\ NameInv /\ PlaceInv /\ [Next]_vars => [Promised!Next]_<<accountOf, toldTo>>
<1> SUFFICES ASSUME Inv, NameInv, PlaceInv, [Next]_vars
             PROVE  [Promised!Next]_<<accountOf, toldTo>>
  OBVIOUS
<1>1. ASSUME NEW w \in Workers, Work(w)
      PROVE  [Promised!Next]_<<accountOf, toldTo>>
  BY <1>1, OtherStepsPromise, InsertClaims, MkdirMakesHome, ResponseTells DEF Work
<1> QED
  BY <1>1, OtherStepsPromise DEF Next, Kill, Drained

(***************************************************************************)
(* The short-connection server implements Accounts for any number of       *)
(* workers, clients and names, any faults and any number of crashes: it    *)
(* claims a name, makes its home and tells one client, in this order, and  *)
(* takes nothing back.                                                     *)
(***************************************************************************)
THEOREM AccountsImplemented == Spec => ImplementsAccounts
<1>1. Init => Promised!Init
  <2>1. Init => accountOf = [n \in Names |-> "free"]
    BY DEF Init, accountOf
  <2>2. Init => toldTo = {}
    BY DEF Init, toldTo, Told
  <2> QED
    BY <2>1, <2>2 DEF Promised!Init, accountOf, toldTo
<1>2. Inv /\ NameInv /\ PlaceInv /\ [Next]_vars => [Promised!Next]_(Promised!vars)
  BY NextPromise DEF Promised!vars, accountOf, toldTo
<1> QED
  BY <1>1, <1>2, Invariance, NameInvariant, PlaceInvariant, PTL
     DEF Spec, ImplementsAccounts, Promised!Spec
=============================================================================
