---------------------------- MODULE ShortServer ----------------------------
(***************************************************************************)
(* The short-connection server: the main thread accepts clients and hands  *)
(* each descriptor to a random worker through a pipe (short_connection.cpp, *)
(* mpthread.cpp); the worker receives one message, dispatches it           *)
(* (control.cpp), registers the user (register_view.cpp) in table Usr and  *)
(* in the directory tree, answers and closes the descriptor.               *)
(*                                                                         *)
(* Workers are threads with a MySQL connection each; between two system    *)
(* calls or statements of one the others and the clients may run.          *)
(***************************************************************************)
EXTENDS Naturals, Sequences, FiniteSets

CONSTANTS Workers,      \* FLAGS_mpthread_num threads
          Clients,      \* one connection each
          Names,        \* user names
          Kinds,        \* kinds of messages clients send
          MaxRestarts,  \* bound: restarts of the server process
          Faults,       \* which calls of the environment may fail
          NoClient,     \* client of an idle worker
          NoMsg         \* nothing sent

\* "register" is a message with TYPE 0 or without TYPE, as clientMain sends it
\* under the key Type; "login" one with the TYPE of LOGIN or EXIT; "other" any
\* other TYPE; "illtyped" parses, but is no object or has a TYPE that does not
\* convert to a number or a Name that does not convert to a string; "garbage"
\* does not parse.
MessageKinds == {"register", "login", "other", "illtyped", "garbage"}
Message == [kind : MessageKinds, name : Names]

ASSUME ShortAssumption ==
  /\ Workers # {}
  /\ Kinds \subseteq MessageKinds
  /\ MaxRestarts \in Nat
  /\ Faults \subseteq {"sql", "mkdir", "kill"}
  /\ NoClient \notin Clients
  /\ NoMsg \notin Message

Places  == {"wait", "recv", "select", "insert", "mkdir", "respond"}
Answers == {"none", "success", "existed", "queryFailed", "insertFailed",
            "mkdirFailed", "parseFailed", "errorCommand"}

VARIABLES
  \* the clients
  sock,       \* "new", "connected", "sent" or "closed" by the client
  msg,        \* what the client sent
  answer,     \* what it was told
  \* the main thread
  backlog,    \* connections not accepted yet, in order
  pipe,       \* descriptors on their way to each worker
  \* each worker
  pc, client, \* where it is, and the client_fd it serves
  text,       \* the response it is about to send
  \* what survives the process
  rows,       \* names in table Usr
  homes,      \* existing home directories
  \* the process
  up, restarts

clientVars == <<sock, msg, answer>>
workerVars == <<pc, client, text>>
storeVars  == <<rows, homes>>
procVars   == <<up, restarts>>

vars == <<sock, msg, answer, backlog, pipe, pc, client, text, rows, homes,
          up, restarts>>

Init ==
  /\ sock = [c \in Clients |-> "new"]
  /\ msg = [c \in Clients |-> NoMsg]
  /\ answer = [c \in Clients |-> "none"]
  /\ backlog = <<>> /\ pipe = [w \in Workers |-> <<>>]
  /\ pc = [w \in Workers |-> "wait"]
  /\ client = [w \in Workers |-> NoClient]
  /\ text = [w \in Workers |-> "none"]
  /\ rows = {} /\ homes = {}
  /\ up = TRUE /\ restarts = 0

May(fault) == fault \in Faults
name(w) == msg[client[w]].name
-----------------------------------------------------------------------------
(***************************************************************************)
(* Clients: sendShortReq, or a peer that connects and stays silent.        *)
(***************************************************************************)
Connect(c) ==
  /\ up /\ sock[c] = "new"
  /\ sock' = [sock EXCEPT ![c] = "connected"]
  /\ backlog' = Append(backlog, c)
  /\ UNCHANGED <<msg, answer, pipe, workerVars, storeVars, procVars>>

Send(c) ==
  /\ sock[c] = "connected"
  /\ \E k \in Kinds, n \in Names : msg' = [msg EXCEPT ![c] = [kind |-> k, name |-> n]]
  /\ sock' = [sock EXCEPT ![c] = "sent"]
  /\ UNCHANGED <<answer, backlog, pipe, workerVars, storeVars, procVars>>

HangUp(c) ==
  /\ sock[c] \in {"connected", "sent"}
  /\ sock' = [sock EXCEPT ![c] = "closed"]
  /\ UNCHANGED <<msg, answer, backlog, pipe, workerVars, storeVars, procVars>>

(***************************************************************************)
(* The main thread.                                                        *)
(***************************************************************************)

\* mainConnectByClient: accept, then write to the pipe of rand() % thread_num.
\* The pipe blocks when it is full and has a reader as long as the process
\* lives, so the write, whose result is not looked at, succeeds.
MainConnectByClient ==
  /\ backlog # <<>>
  /\ \E w \in Workers : pipe' = [pipe EXCEPT ![w] = Append(@, Head(backlog))]
  /\ backlog' = Tail(backlog)
  /\ UNCHANGED <<clientVars, workerVars, storeVars, procVars>>

(***************************************************************************)
(* A worker.                                                               *)
(***************************************************************************)
At(w, l) == pc[w] = l

Goto(w, l) ==
  /\ pc' = [pc EXCEPT ![w] = l]
  /\ UNCHANGED <<client, text>>

Answer(w, t) ==
  /\ pc' = [pc EXCEPT ![w] = "respond"]
  /\ text' = [text EXCEPT ![w] = t]
  /\ UNCHANGED client

\* The process dies, and with it both servers: the peers see their
\* connections closed.
Die ==
  /\ up' = FALSE
  /\ sock' = [c \in Clients |-> IF sock[c] = "new" THEN "new" ELSE "closed"]
  /\ backlog' = <<>> /\ pipe' = [w \in Workers |-> <<>>]
  /\ pc' = [w \in Workers |-> "wait"]
  /\ client' = [w \in Workers |-> NoClient]
  /\ text' = [w \in Workers |-> "none"]
  /\ UNCHANGED <<msg, answer, storeVars, restarts>>

\* recvClientMsg: read the descriptor from the pipe.
ReadFd(w) ==
  /\ At(w, "wait") /\ pipe[w] # <<>>
  /\ client' = [client EXCEPT ![w] = Head(pipe[w])]
  /\ pipe' = [pipe EXCEPT ![w] = Tail(@)]
  /\ pc' = [pc EXCEPT ![w] = "recv"]
  /\ UNCHANGED <<clientVars, backlog, text, storeVars, procVars>>

\* recv blocks until the client sends or hangs up; after a hang-up the empty
\* buffer goes to Process, where it does not parse.
Received(w) ==
  IF msg[client[w]] # NoMsg THEN msg[client[w]].kind ELSE "garbage"

\* Control::Process.  _view_map holds REGISTER only: for LOGIN and EXIT it
\* yields a null View and calls it.  What jsoncpp throws at a value of the wrong
\* type is caught nowhere.
Recv(w) ==
  /\ At(w, "recv") /\ sock[client[w]] \in {"sent", "closed"}
  /\ \/ /\ \/ Received(w) = "register" /\ Goto(w, "select")
           \/ Received(w) = "garbage" /\ Answer(w, "parseFailed")
           \/ Received(w) = "other" /\ Answer(w, "errorCommand")
        /\ UNCHANGED <<clientVars, backlog, pipe, storeVars, procVars>>
     \/ Received(w) \in {"login", "illtyped"} /\ Die

UsrNotExist_Resumes(w) ==
  /\ At(w, "select")
  /\ Goto(w, IF name(w) \in rows THEN "mkdir" ELSE "insert")
  /\ UNCHANGED <<clientVars, backlog, pipe, storeVars, procVars>>

\* usrNotExist: rows of the SELECT that do not arrive are a NULL result, which
\* mysql_fetch_row dereferences.
UsrNotExist(w) ==
  /\ At(w, "select")
  /\ \/ /\ \/ name(w) \notin rows /\ Goto(w, "insert")
           \/ name(w) \in rows /\ Answer(w, "existed")
           \/ May("sql") /\ Answer(w, "queryFailed")
        /\ UNCHANGED <<clientVars, backlog, pipe, storeVars, procVars>>
     \/ May("sql") /\ Die

InsertUsr_ErrorIgnored(w) ==
  /\ At(w, "insert")
  /\ rows' \in {rows \cup {name(w)}} \cup IF May("sql") THEN {rows} ELSE {}
  /\ Goto(w, "mkdir")
  /\ UNCHANGED <<clientVars, backlog, pipe, homes, procVars>>

\* insertUsr: name is unique in table Usr.  A statement whose answer is lost
\* may have been executed.
InsertUsr(w) ==
  /\ At(w, "insert")
  /\ \/ /\ name(w) \notin rows
        /\ rows' = rows \cup {name(w)}
        /\ Goto(w, "mkdir")
     \/ /\ name(w) \in rows
        /\ UNCHANGED rows
        /\ Answer(w, "insertFailed")
     \/ /\ May("sql")
        /\ rows' \in {rows, rows \cup {name(w)}}
        /\ Answer(w, "insertFailed")
  /\ UNCHANGED <<clientVars, backlog, pipe, homes, procVars>>

CreateUsrDir_ErrorIgnored(w) ==
  /\ At(w, "mkdir")
  /\ homes' \in {homes \cup {name(w)}} \cup IF May("mkdir") THEN {homes} ELSE {}
  /\ Answer(w, "success")
  /\ UNCHANGED <<clientVars, backlog, pipe, rows, procVars>>

\* createUsrDir; the row stays when it fails.
CreateUsrDir(w) ==
  /\ At(w, "mkdir")
  /\ \/ homes' = homes \cup {name(w)} /\ Answer(w, "success")
     \/ May("mkdir") /\ UNCHANGED homes /\ Answer(w, "mkdirFailed")
  /\ UNCHANGED <<clientVars, backlog, pipe, rows, procVars>>

\* EV_PERSIST: the event stays in the loop after its callback.
AfterCallback_Once == "off"
AfterCallback == "wait"

\* SendResponse and close(client_fd).
SendResponse(w) ==
  /\ At(w, "respond")
  /\ answer' = [answer EXCEPT ![client[w]] =
                  IF sock[client[w]] = "closed" THEN @ ELSE text[w]]
  /\ pc' = [pc EXCEPT ![w] = AfterCallback]
  /\ client' = [client EXCEPT ![w] = NoClient]
  /\ text' = [text EXCEPT ![w] = "none"]
  /\ UNCHANGED <<sock, msg, backlog, pipe, storeVars, procVars>>

Work(w) ==
  \/ ReadFd(w) \/ Recv(w) \/ UsrNotExist(w) \/ InsertUsr(w) \/ CreateUsrDir(w)
  \/ SendResponse(w)
-----------------------------------------------------------------------------
Kill == May("kill") /\ up /\ Die

Restart ==
  /\ ~up /\ restarts < MaxRestarts
  /\ up' = TRUE /\ restarts' = restarts + 1
  /\ UNCHANGED <<clientVars, backlog, pipe, workerVars, storeVars>>

\* Every client has come and gone.
Drained ==
  /\ \A w \in Workers : pc[w] = "wait" /\ pipe[w] = <<>>
  /\ backlog = <<>>
  /\ \/ \A c \in Clients : sock[c] = "closed"
     \/ ~up /\ restarts = MaxRestarts
  /\ UNCHANGED vars

Next ==
  \/ \E c \in Clients : Connect(c) \/ Send(c) \/ HangUp(c)
  \/ MainConnectByClient
  \/ \E w \in Workers : Work(w)
  \/ Kill \/ Restart \/ Drained

Spec == Init /\ [][Next]_vars

\* The event loops of the main thread and of the workers run; clients may do
\* nothing for ever.
FairSpec ==
  Spec /\ WF_vars(MainConnectByClient) /\ \A w \in Workers : WF_vars(Work(w))
-----------------------------------------------------------------------------
(***************************************************************************)
(* Type correctness.                                                       *)
(***************************************************************************)
TypeOK ==
  /\ sock \in [Clients -> {"new", "connected", "sent", "closed"}]
  /\ msg \in [Clients -> Message \cup {NoMsg}]
  /\ answer \in [Clients -> Answers]
  /\ backlog \in Seq(Clients) /\ pipe \in [Workers -> Seq(Clients)]
  /\ pc \in [Workers -> Places]
  /\ client \in [Workers -> Clients \cup {NoClient}]
  /\ text \in [Workers -> Answers]
  /\ rows \subseteq Names /\ homes \subseteq Names
  /\ up \in BOOLEAN /\ restarts \in Nat

(***************************************************************************)
(* A name is registered once: of all clients that asked for it, on whatever *)
(* workers and across restarts, at most one is told "Success", although    *)
(* the check and the insertion are separate statements.                    *)
(***************************************************************************)
Told(t, n) == {c \in Clients : answer[c] = t /\ msg[c].name = n}

NameIsGivenOnce == \A n \in Names : Cardinality(Told("success", n)) <= 1

(***************************************************************************)
(* Who is told "Success" has a row in Usr and the home directory that the  *)
(* upload service needs, also after a crash.                               *)
(***************************************************************************)
SuccessIsUsable ==
  \A n \in Names : Told("success", n) # {} => n \in rows /\ n \in homes

(***************************************************************************)
(* There is never a home without an account: whatever fails, the upload    *)
(* service serves registered names only.                                   *)
(***************************************************************************)
HomesAreRegistered == homes \subseteq rows

(***************************************************************************)
(* Registration implements Accounts: however the workers interleave and    *)
(* whatever fails or dies, the statements on table Usr, the mkdir and the  *)
(* answers amount to claiming a name, making its home and telling one      *)
(* client, in this order, with nothing undone.                             *)
(***************************************************************************)
Promised == INSTANCE Accounts
  WITH account <- [n \in Names |-> IF n \notin rows THEN "free"
                                   ELSE IF n \in homes THEN "ready" ELSE "claimed"],
       told <- {t \in Clients \X Names : t[1] \in Told("success", t[2])}

ImplementsAccounts == Promised!Spec

(***************************************************************************)
(* Every client that sent its message is answered, unless it hangs up or   *)
(* the process dies, provided that no connected client stays silent: a     *)
(* worker waits in recv for the client it took from its pipe.              *)
(***************************************************************************)
NobodyIsSilent == \A c \in Clients : sock[c] = "connected" ~> sock[c] # "connected"

SendersAreAnswered ==
  NobodyIsSilent =>
    \A c \in Clients :
      sock[c] = "sent" ~> (answer[c] # "none" \/ sock[c] = "closed")

(***************************************************************************)
(* "The control layer dispatches the types of messages to their views"     *)
(* (design document 6.3): no documented type of message stops the server.  *)
(***************************************************************************)
ServerStaysUp == up
=============================================================================
