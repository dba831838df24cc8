----------------------------- MODULE UploadRpc -----------------------------
(***************************************************************************)
(* The upload service of the long-connection server: concurrent executions *)
(* of UploadRpc::Do (code/src/long_connect/upload_rpc.cpp) over the file   *)
(* system, the SignMap table and the one MySQL connection they share.      *)
(*                                                                         *)
(* A handler is one brpc worker executing Do for one request.  Between any *)
(* two system calls, shell commands or SQL statements of a handler the     *)
(* other handlers may run, so each of those is one action; what a handler  *)
(* computes in between is part of the action in front of it.               *)
(***************************************************************************)
EXTENDS FileSys

CONSTANTS Handlers,     \* concurrent executions of Do
          Users,        \* usr of a request
          Signs,        \* file_sign: md5 of a whole file
          Shards,       \* shard: number of parts of a file
          Bodies,       \* part contents clients send
          MaxDeliver,   \* bound: deliveries of one part of one user
          MaxRestarts,  \* bound: restarts of the server process
          Faults,       \* which calls of the environment may fail
          Absent,       \* content of a path that does not exist
          NoReq,        \* request of an idle handler
          NoHandler     \* owner of a free mutex

FaultKinds == {"mkdir", "opendir", "open", "write", "remove", "symlink",
               "popen", "mv", "sql", "kill"}

ASSUME UploadAssumption ==
  /\ Shards \in Nat \ {0}
  /\ Bodies \subseteq Seq(Byte)
  /\ MaxDeliver \in Nat /\ MaxRestarts \in Nat
  /\ Faults \subseteq FaultKinds
  /\ Absent \notin Seq(Byte)
  /\ NoHandler \notin Handlers
  /\ IsFiniteSet(Users) /\ IsFiniteSet(Signs) /\ IsFiniteSet(Handlers)

ASSUME NoReqAssumption ==
  NoReq \notin [usr : Users, sign : Signs, part : 1 .. Shards, body : Bodies]

Parts   == 1 .. Shards                     \* part_index, counted from 1 here
Request == [usr : Users, sign : Signs, part : Parts, body : Bodies]
Keys    == Users \X Signs \X Parts         \* usr/tmp/sign/part_index
Slots   == Signs \X Parts                  \* files/sign/part_index
Owners  == Users \X Signs                  \* usr/tmp/sign and usr/files/sign
Writes  == {"insert", "update"} \X Signs   \* statements that change SignMap
Orphan  == Nat \X Handlers \X Owners       \* an mv: when, by whom, of what
Content == Seq(Byte) \cup {Absent}

Locations == {"idle", "mkFiles", "existDir", "mkTmp", "existFile", "md5Old",
              "delete", "open", "write", "md5New", "ls", "mv", "link",
              "query", "await", "fetch", "lock"}
Statements == {"none", "select", "insert", "update"}
Results    == {"none", "row", "empty"}     \* result set pending on the connection
Descriptors == {"none", "tmp", "pub", "gone"}

VARIABLES
  \* one execution of Do per handler
  pc,         \* where it is
  req,        \* the request it serves
  cmd,        \* the SQL statement it is at
  fd,         \* what the descriptor of Write refers to: none open, a file
              \* under tmp, a file since moved under files, a removed file
  \* the file system
  homes,      \* users whose home directory exists
  dirs,       \* existing directories usr/tmp/sign
  tmp,        \* parts under usr/tmp/sign
  pub,        \* existing directories files/sign
  stored,     \* parts under files/sign
  links,      \* existing symlinks usr/files/sign -> files/sign
  \* the database
  ref,        \* SignMap.reference per sign, 0 when there is no row
  late,       \* statements sent that MySQL has yet to execute, although their
              \* thread does not wait for the answer any more
  \* the connection
  mutex,      \* _sql_mutex
  result,     \* unread result set: the connection is not ready for a command
  mixed,      \* the exchanges of two threads overlapped on it
  \* the process and its clients
  up,         \* the server process runs
  orphans,    \* mv commands that outlived the process that ran them
  restarts,   \* how often it was started again
  delivered,  \* deliveries per part
  acked       \* parts answered with res = true

handlerVars == <<pc, req, cmd, fd>>
fsVars      == <<homes, dirs, tmp, pub, stored, links>>
connVars    == <<mutex, result, mixed>>
worldVars   == <<late, up, orphans, restarts, delivered>>

vars == <<pc, req, cmd, fd, homes, dirs, tmp, pub, stored, links, ref, late,
          mutex, result, mixed, up, orphans, restarts, delivered, acked>>

\* The paths of handler h's request.
owner(h) == <<req[h].usr, req[h].sign>>
key(h)   == <<req[h].usr, req[h].sign, req[h].part>>
slot(h)  == <<req[h].sign, req[h].part>>
-----------------------------------------------------------------------------
Init ==
  /\ pc = [h \in Handlers |-> "idle"]
  /\ req = [h \in Handlers |-> NoReq]
  /\ cmd = [h \in Handlers |-> "none"]
  /\ fd = [h \in Handlers |-> "none"]
  /\ homes = {} /\ dirs = {} /\ pub = {} /\ links = {}
  /\ tmp = [k \in Keys |-> Absent]
  /\ stored = [s \in Slots |-> Absent]
  /\ ref = [s \in Signs |-> 0]
  /\ late = [w \in Writes |-> 0]
  /\ mutex = NoHandler /\ result = "none" /\ mixed = FALSE
  /\ up = TRUE /\ orphans = {} /\ restarts = 0
  /\ delivered = [k \in Keys |-> 0]
  /\ acked = {}

(***************************************************************************)
(* Control flow of Do.                                                     *)
(***************************************************************************)
At(h, l) == pc[h] = l

Goto(h, l) ==
  /\ pc' = [pc EXCEPT ![h] = l]
  /\ UNCHANGED <<req, cmd, acked>>

\* Go on to the statement c, to be sent on the connection.
Run(h, c, l) ==
  /\ pc' = [pc EXCEPT ![h] = l]
  /\ cmd' = [cmd EXCEPT ![h] = c]
  /\ UNCHANGED <<req, acked>>

\* return from Do with response->res() = res; Send's ClosureGuard replies.
Return(h, res) ==
  /\ pc' = [pc EXCEPT ![h] = "idle"]
  /\ req' = [req EXCEPT ![h] = NoReq]
  /\ cmd' = [cmd EXCEPT ![h] = "none"]
  /\ acked' = IF res THEN acked \cup {key(h)} ELSE acked

May(fault) == fault \in Faults

\* A UPLOAD request arrives; MaxDeliver > 1 stands for brpc's retries and for
\* a client that runs the upload again.
Receive(h) ==
  /\ At(h, "idle") /\ up
  /\ \E k \in Keys, b \in Bodies :
       /\ delivered[k] < MaxDeliver
       /\ delivered' = [delivered EXCEPT ![k] = @ + 1]
       /\ req' = [req EXCEPT ![h] =
                    [usr |-> k[1], sign |-> k[2], part |-> k[3], body |-> b]]
  /\ pc' = [pc EXCEPT ![h] = "mkFiles"]
  /\ UNCHANGED <<cmd, fd, fsVars, ref, connVars, late, up, orphans, restarts, acked>>

\* Mkdir(usr/files): ENOENT when the user was never registered.
MkFilesDir(h) ==
  /\ At(h, "mkFiles")
  /\ \/ req[h].usr \in homes /\ Goto(h, "existDir")
     \/ (req[h].usr \notin homes \/ May("mkdir")) /\ Return(h, FALSE)
  /\ UNCHANGED <<fd, fsVars, ref, connVars, worldVars>>

\* opendir(files/sign)
FileIsStored_WrongDir(h) == owner(h) \in dirs
FileIsStored(h) == req[h].sign \in pub

\* ExistDir(files/sign): true starts the speed upload.  opendir also fails
\* when the process has no descriptor left.
ExistDir(h) ==
  /\ At(h, "existDir")
  /\ \/ FileIsStored(h) /\ Goto(h, "link")
     \/ (~FileIsStored(h) \/ May("opendir")) /\ Goto(h, "mkTmp")
  /\ UNCHANGED <<fd, fsVars, ref, connVars, worldVars>>

\* Mkdir of usr, usr/tmp/ and usr/tmp/sign/
MkTmpDir(h) ==
  /\ At(h, "mkTmp")
  /\ \/ dirs' = dirs \cup {owner(h)} /\ Goto(h, "existFile")
     \/ May("mkdir") /\ UNCHANGED dirs /\ Return(h, FALSE)
  /\ UNCHANGED <<fd, homes, tmp, pub, stored, links, ref, connVars, worldVars>>

ExistFile(h) ==
  /\ At(h, "existFile")
  /\ Goto(h, IF tmp[key(h)] # Absent THEN "md5Old" ELSE "open")
  /\ UNCHANGED <<fd, fsVars, ref, connVars, worldVars>>

Md5(content) == <<"md5", content>>         \* distinct contents, distinct sums

\* The possible outcomes of comparing Md5Sum(part) with part_sign, the sum
\* of the body.  For a path that is gone md5sum prints nothing to stdout and
\* the sum is what the uninitialised buffer of ShellOut holds, which may be
\* the sum a previous call left there.
Md5Matches(h) ==
  IF tmp[key(h)] = Absent THEN BOOLEAN
  ELSE {Md5(tmp[key(h)]) = Md5(req[h].body)}

\* Sum of the existing part.  A match only sets the body of the response:
\* the part is opened and written again all the same.
Md5Old(h) ==
  /\ At(h, "md5Old")
  /\ \/ \E same \in Md5Matches(h) : Goto(h, IF same THEN "open" ELSE "delete")
     \/ May("popen") /\ Return(h, FALSE)
  /\ UNCHANGED <<fd, fsVars, ref, connVars, worldVars>>

Removed_Kept(h) == tmp
Removed(h) == [tmp EXCEPT ![key(h)] = Absent]

\* DeleteFile(part), result ignored.  A descriptor another handler has on the
\* file lives on, its writes reach nobody.
DeletePart(h) ==
  /\ At(h, "delete")
  /\ \/ /\ tmp' = Removed(h)
        /\ fd' = [g \in Handlers |->
                    IF fd[g] = "tmp" /\ key(g) = key(h) THEN "gone" ELSE fd[g]]
     \/ May("remove") /\ UNCHANGED <<tmp, fd>>
  /\ Goto(h, "open")
  /\ UNCHANGED <<homes, dirs, pub, stored, links, ref, connVars, worldVars>>

\* open(part, O_RDWR | O_CREAT): creates an empty file or opens the old one.
OpenPart(h) ==
  /\ At(h, "open")
  /\ \/ /\ owner(h) \in dirs
        /\ tmp' = [tmp EXCEPT ![key(h)] = IF @ = Absent THEN Empty ELSE @]
        /\ fd' = [fd EXCEPT ![h] = "tmp"]
        /\ Goto(h, "write")
     \/ /\ owner(h) \notin dirs \/ May("open")
        /\ UNCHANGED <<tmp, fd>>
        /\ Return(h, FALSE)
  /\ UNCHANGED <<homes, dirs, pub, stored, links, ref, connVars, worldVars>>

\* The bytes write() takes: the body, or a prefix of it when the disk is full.
Taken(h) ==
  {req[h].body} \cup
  {SubSeq(req[h].body, 1, n) : n \in IF May("write") THEN 0 .. Len(req[h].body)
                                                     ELSE {}}

\* write() and close(), results ignored.  The descriptor follows the file
\* wherever it went since open.
WritePart(h) ==
  /\ At(h, "write")
  /\ \E bytes \in Taken(h) :
       /\ tmp' = IF fd[h] = "tmp"
                 THEN [tmp EXCEPT ![key(h)] = Written(bytes, @)] ELSE tmp
       /\ stored' = IF fd[h] = "pub"
                    THEN [stored EXCEPT ![slot(h)] = Written(bytes, @)] ELSE stored
  /\ fd' = [fd EXCEPT ![h] = "none"]
  /\ Goto(h, "md5New")
  /\ UNCHANGED <<homes, dirs, pub, links, ref, connVars, worldVars>>

\* Sum of the part just written; a part that fails the check stays on disk.
Md5New(h) ==
  /\ At(h, "md5New")
  /\ \/ \E same \in Md5Matches(h) : IF same THEN Goto(h, "ls") ELSE Return(h, FALSE)
     \/ May("popen") /\ Return(h, FALSE)
  /\ UNCHANGED <<fd, fsVars, ref, connVars, worldVars>>

\* Names LsDir finds in usr/tmp/sign.
PartsIn(o) == {p \in Parts : tmp[<<o[1], o[2], p>>] # Absent}

AllNames_OneShort(h) == Cardinality(PartsIn(owner(h))) >= Shards - 1
AllNames(h) == Cardinality(PartsIn(owner(h))) = Shards

\* allPartArrived: compares the number of names, not the contents.  A failing
\* LsDir counts as no names, and then the request succeeds as it is.
AllPartArrived(h) ==
  /\ At(h, "ls")
  /\ \/ AllNames(h) /\ Goto(h, "mv")
     \/ (~AllNames(h) \/ May("opendir")) /\ Return(h, TRUE)
  /\ UNCHANGED <<fd, fsVars, ref, connVars, worldVars>>

\* What a descriptor refers to once its directory was renamed: the file keeps
\* its identity.
AfterRename_Copied == "gone"
AfterRename == "pub"

\* rename(usr/tmp/sign, files/sign)
MoveToFiles(o) ==
  /\ dirs' = dirs \ {o}
  /\ pub' = pub \cup {o[2]}
  /\ stored' = [s \in Slots |->
                  IF s[1] = o[2] THEN tmp[<<o[1], s[1], s[2]>>] ELSE stored[s]]
  /\ tmp' = [k \in Keys |-> IF <<k[1], k[2]>> = o THEN Absent ELSE tmp[k]]
  /\ fd' = [g \in Handlers |->
              IF fd[g] = "tmp" /\ owner(g) = o THEN AfterRename ELSE fd[g]]

\* mv refuses to replace a directory that has files in it.
HasFiles(s) == \E p \in Parts : stored[<<s, p>>] # Absent

CanMove_Replacing(o) == o \in dirs
CanMove(o) == o \in dirs /\ ~HasFiles(o[2])

\* mv prints nothing to stdout whether it succeeds or fails, so shell_res is
\* the string the uninitialised buffer of ShellOut happens to hold: garbage
\* decides between "mv failed" and going on.
AfterMv_Return(h) == \E garbage \in BOOLEAN : Return(h, ~garbage)
AfterMv(h) ==
  \E garbage \in BOOLEAN : IF garbage THEN Return(h, FALSE) ELSE Goto(h, "link")

\* ShellOut("mv usr/tmp/sign files").  When popen fails shell_res stays empty
\* and mv never ran.
MvDir(h) ==
  /\ At(h, "mv")
  /\ \/ CanMove(owner(h)) /\ MoveToFiles(owner(h)) /\ AfterMv(h)
     \/ /\ ~CanMove(owner(h)) \/ May("mv")
        /\ UNCHANGED <<dirs, pub, stored, tmp, fd>>
        /\ AfterMv(h)
     \/ /\ May("popen")
        /\ UNCHANGED <<dirs, pub, stored, tmp, fd>>
        /\ Goto(h, "link")
  /\ UNCHANGED <<homes, links, ref, connVars, worldVars>>

(***************************************************************************)
(* linkToUsr: symlink, then look the sign up and count the reference.      *)
(***************************************************************************)

LinkToUsr_ErrorIgnored(h) ==
  /\ At(h, "link")
  /\ links' \in {links, links \cup {owner(h)}} /\ Run(h, "select", "query")
  /\ UNCHANGED <<fd, homes, dirs, tmp, pub, stored, ref, connVars, worldVars>>

\* Link(files/sign, usr/files/sign); symlink does not look at its target.
LinkToUsr(h) ==
  /\ At(h, "link")
  /\ \/ links' = links \cup {owner(h)} /\ Run(h, "select", "query")
     \/ May("symlink") /\ UNCHANGED links /\ Return(h, FALSE)
  /\ UNCHANGED <<fd, homes, dirs, tmp, pub, stored, ref, connVars, worldVars>>

Awaiting == {h \in Handlers : pc[h] = "await"}
Busy     == {h \in Handlers : pc[h] \in {"await", "fetch"}}

\* pthread_mutex_unlock on every way out of the two locked statements; the
\* SELECT holds no lock.
Unlocked_NotOnError(h) == mutex
Unlocked(h) == IF mutex = h THEN NoHandler ELSE mutex

\* The command leaves in mysql_real_query.  The client library refuses it
\* ("commands out of sync") while a result set is unread, but not while another
\* thread waits for its answer or is at reading its rows.  Two threads that
\* use one MYSQL object at a time leave it in any state: from then on every
\* call may do anything.
SendQuery(h) ==
  /\ At(h, "query")
  /\ \/ /\ result = "none" \/ Busy # {} \/ mixed
        /\ Goto(h, "await")
        /\ mixed' = (mixed \/ Busy # {})
        /\ UNCHANGED mutex
     \/ /\ result # "none" \/ mixed \/ May("sql")
        /\ mutex' = Unlocked(h)
        /\ Return(h, FALSE)
        /\ UNCHANGED mixed
  /\ UNCHANGED <<fd, fsVars, ref, result, worldVars>>

\* What the database does with statement c for sign s: the new reference.
Executed_Minus(c, s) ==
  IF c = "insert" THEN 1 ELSE IF c = "update" THEN ref[s] - 1 ELSE ref[s]
Executed(c, s) ==
  CASE c = "insert" /\ ref[s] = 0 -> 1          \* sign is the primary key
    [] c = "update" /\ ref[s] > 0 -> ref[s] + 1
    [] OTHER -> ref[s]

\* ... and whether it reports success.
Succeeds(c, s) == c = "insert" => ref[s] = 0

\* Handler h leaves its statement to MySQL, which may still execute it.
Left(h) ==
  IF cmd[h] = "select" THEN late
  ELSE [late EXCEPT ![<<cmd[h], req[h].sign>>] = @ + 1]

\* The rest of mysql_real_query: an answer is read.  Nobody else can tell
\* whether MySQL executed the statement just now or before; one that it has not
\* executed yet is left.
Ran(h, executed) ==
  IF executed
  THEN /\ ref' = [ref EXCEPT ![req[h].sign] = Executed(cmd[h], req[h].sign)]
       /\ UNCHANGED late
  ELSE late' = Left(h) /\ UNCHANGED ref

Answered_TriesAgain(h, executed, ok) ==
  /\ Ran(h, executed)
  /\ IF ok THEN IF cmd[h] = "select" THEN Goto(h, "fetch") /\ UNCHANGED mutex
                                     ELSE Return(h, TRUE) /\ mutex' = Unlocked(h)
           ELSE Goto(h, "query") /\ UNCHANGED mutex
Answered_ErrorIgnored(h, executed, ok) ==
  /\ Ran(h, executed)
  /\ IF cmd[h] = "select"
     THEN IF ok THEN Goto(h, "fetch") /\ UNCHANGED mutex
                ELSE Return(h, FALSE) /\ UNCHANGED mutex
     ELSE Return(h, TRUE) /\ mutex' = Unlocked(h)
Answered(h, executed, ok) ==
  /\ Ran(h, executed)
  /\ IF ok /\ cmd[h] = "select"
     THEN Goto(h, "fetch") /\ UNCHANGED mutex
     ELSE Return(h, ok) /\ mutex' = Unlocked(h)

\* An exchange nobody else interfered with; when the connection breaks in the
\* middle of it the statement may be executed or not.
CleanReply(h) ==
  /\ At(h, "await") /\ ~mixed
  /\ \/ /\ Answered(h, TRUE, Succeeds(cmd[h], req[h].sign))
        /\ result' = IF cmd[h] # "select" THEN result
                     ELSE IF ref[req[h].sign] > 0 THEN "row" ELSE "empty"
     \/ /\ May("sql")
        /\ \E executed \in BOOLEAN : Answered(h, executed, FALSE)
        /\ UNCHANGED result
  /\ UNCHANGED <<fd, fsVars, up, orphans, restarts, delivered, mixed>>

\* Once exchanges have overlapped the thread may read the answer to another
\* statement, or an error, while its own is still to be executed.
RacedReply(h) ==
  /\ At(h, "await") /\ mixed
  /\ \E executed, ok \in BOOLEAN : Answered(h, executed, ok)
  /\ UNCHANGED <<fd, fsVars, result, up, orphans, restarts, delivered, mixed>>

\* The process dies: threads, descriptors, the connection and the mutex go,
\* files and tables stay.  MySQL still executes a statement it has received
\* (of several threads that wait at most one has sent a write: they hold the
\* mutex), and an mv is a process of its own.
Die ==
  /\ up' = FALSE
  /\ pc' = [h \in Handlers |-> "idle"]
  /\ req' = [h \in Handlers |-> NoReq]
  /\ cmd' = [h \in Handlers |-> "none"]
  /\ fd' = [h \in Handlers |-> "none"]
  /\ mutex' = NoHandler /\ result' = "none" /\ mixed' = FALSE
  /\ late' \in {late} \cup {Left(h) : h \in Awaiting}
  /\ \E alive \in SUBSET {h \in Handlers : pc[h] = "mv"} :
       orphans' = orphans \cup {<<restarts, h, owner(h)>> : h \in alive}
  /\ UNCHANGED <<fsVars, ref, restarts, delivered, acked>>

\* What mysql_store_result yields: the pending result set, or anything when
\* another thread has used the connection.
Fetchable == IF mixed THEN Results ELSE {result}

\* FetchRes: NULL means a new file.  Without a pending result set, or when the
\* rows do not arrive, mysql_store_result returns NULL and mysql_fetch_row
\* dereferences it.
FetchRes(h) ==
  /\ At(h, "fetch")
  /\ \/ /\ \E r \in Fetchable \ {"none"} :
             Run(h, IF r = "row" THEN "update" ELSE "insert", "lock")
        /\ result' = "none"
        /\ UNCHANGED <<fd, fsVars, ref, mutex, mixed, worldVars>>
     \/ ("none" \in Fetchable \/ May("sql")) /\ Die

\* Every handler of the service locks the same _sql_mutex.
MutexFree_OwnCopy(h) == mutex # h
MutexFree(h) == mutex = NoHandler
Locked(h) == h

\* pthread_mutex_lock(&_sql_mutex)
Lock(h) ==
  /\ At(h, "lock") /\ MutexFree(h)
  /\ mutex' = Locked(h)
  /\ Goto(h, "query")
  /\ UNCHANGED <<fd, fsVars, ref, result, mixed, worldVars>>

Step(h) ==
  \/ MkFilesDir(h) \/ ExistDir(h) \/ MkTmpDir(h) \/ ExistFile(h) \/ Md5Old(h)
  \/ DeletePart(h) \/ OpenPart(h) \/ WritePart(h) \/ Md5New(h)
  \/ AllPartArrived(h) \/ MvDir(h) \/ LinkToUsr(h)
  \/ SendQuery(h) \/ CleanReply(h) \/ RacedReply(h) \/ FetchRes(h) \/ Lock(h)

(***************************************************************************)
(* Around the handlers.                                                    *)
(***************************************************************************)

\* RegisterView::createUsrDir, in the short-connection server.
CreateUsrDir(u) ==
  /\ homes' = homes \cup {u}
  /\ u \notin homes
  /\ UNCHANGED <<handlerVars, dirs, tmp, pub, stored, links, ref, connVars,
                 worldVars, acked>>

\* MySQL comes to a statement whose thread, or process, has gone on: no
\* handler holds the mutex for it.  A late statement may also never run.
ExecuteLate(w) ==
  /\ late[w] > 0
  /\ late' = [late EXCEPT ![w] = @ - 1]
  /\ ref' = [ref EXCEPT ![w[2]] = Executed(w[1], w[2])]
  /\ UNCHANGED <<handlerVars, fsVars, connVars, up, orphans, restarts, delivered, acked>>

\* An mv that outlived its process ends, with the directory moved or refused.
OrphanEnds(x) ==
  /\ x \in orphans
  /\ orphans' = orphans \ {x}
  /\ \/ CanMove(x[3]) /\ MoveToFiles(x[3])
     \/ (~CanMove(x[3]) \/ May("mv")) /\ UNCHANGED <<dirs, pub, stored, tmp, fd>>
  /\ UNCHANGED <<pc, req, cmd, homes, links, ref, connVars, late, up, restarts,
                 delivered, acked>>

Kill == May("kill") /\ up /\ Die

\* serverMain starts again: a new connection, an initialised mutex.
Restart ==
  /\ ~up /\ restarts < MaxRestarts
  /\ up' = TRUE
  /\ restarts' = restarts + 1
  /\ UNCHANGED <<handlerVars, fsVars, ref, connVars, late, orphans, delivered, acked>>

\* Nothing left to deliver within the bounds.
Drained ==
  /\ \A h \in Handlers : pc[h] = "idle"
  /\ homes = Users
  /\ \/ up /\ \A k \in Keys : delivered[k] = MaxDeliver
     \/ ~up /\ restarts = MaxRestarts
  /\ UNCHANGED vars

Next ==
  \/ \E h \in Handlers : Receive(h) \/ Step(h)
  \/ \E u \in Users : CreateUsrDir(u)
  \/ \E w \in Writes : ExecuteLate(w)
  \/ \E x \in orphans : OrphanEnds(x)
  \/ Kill \/ Restart \/ Drained

Spec == Init /\ [][Next]_vars

\* brpc keeps scheduling a worker that can take a step, and MySQL answers a
\* statement.  Once exchanges have overlapped, a thread may wait for ever for an
\* answer another one has read, so RacedReply is not fair.
Progress(h) == Step(h) /\ ~(At(h, "await") /\ mixed)

FairSpec == Spec /\ \A h \in Handlers : WF_vars(Progress(h))
-----------------------------------------------------------------------------
(***************************************************************************)
(* Properties.                                                             *)
(***************************************************************************)

(***************************************************************************)
(* Every variable stays in its domain; in particular Write is never applied *)
(* to a file that does not exist.                                          *)
(***************************************************************************)
TypeOK ==
  /\ pc \in [Handlers -> Locations]
  /\ req \in [Handlers -> Request \cup {NoReq}]
  /\ cmd \in [Handlers -> Statements]
  /\ fd \in [Handlers -> Descriptors]
  /\ homes \subseteq Users /\ dirs \subseteq Owners
  /\ pub \subseteq Signs /\ links \subseteq Owners
  /\ tmp \in [Keys -> Content]
  /\ stored \in [Slots -> Content]
  /\ ref \in [Signs -> Nat] /\ late \in [Writes -> Nat]
  /\ mutex \in Handlers \cup {NoHandler}
  /\ result \in Results /\ mixed \in BOOLEAN
  /\ up \in BOOLEAN /\ restarts \in Nat /\ orphans \subseteq Orphan
  /\ delivered \in [Keys -> Nat] /\ acked \subseteq Keys

Quiet == up /\ \A h \in Handlers : pc[h] = "idle"
NeverDied == up /\ restarts = 0

(***************************************************************************)
(* linkToUsr runs only after the directory of the file is in place (the mv *)
(* branch, or ExistDir): no user ever gets a symlink to a file the server  *)
(* does not have.  Needs a working mv and popen, whose failures Do cannot  *)
(* see.                                                                    *)
(***************************************************************************)
NoDanglingLink == \A o \in links : o[2] \in pub

(***************************************************************************)
(* addSignMap runs after Link: the table never counts a file no user has a *)
(* link to, whatever fails or dies in between.                             *)
(***************************************************************************)
CountedFilesAreLinked ==
  \A s \in Signs : ref[s] > 0 => \E u \in Users : <<u, s>> \in links

(***************************************************************************)
(* _sql_mutex keeps the two writing statements apart: no two handlers are  *)
(* at one at a time, so every overlap involves the unlocked SELECT, and a  *)
(* handler that went back to idle left the mutex free.                     *)
(***************************************************************************)
WritesAreSerial ==
  /\ Cardinality({h \in Awaiting : cmd[h] # "select"}) <= 1
  /\ \A h \in Handlers : mutex = h => pc[h] \in {"query", "await"}

(***************************************************************************)
(* Every name that AllPartArrived counted is still there when the          *)
(* directory is published, as long as no part is delivered twice: a        *)
(* published file has all its parts, even after a crash.                   *)
(***************************************************************************)
PublishedHasAllParts ==
  \A s \in pub : \A p \in Parts : stored[<<s, p>>] # Absent

(***************************************************************************)
(* A file may be published while another handler still writes its part,    *)
(* but once all requests are answered every published part is, byte for    *)
(* byte, a body that a client sent: nothing empty, torn or mixed, and no   *)
(* part that failed its md5 check ("part sign check error").  Needs a      *)
(* write() that stores all it is given: a rejected part stays under tmp,   *)
(* where AllPartArrived counts it.                                         *)
(***************************************************************************)
PublishedPartsAreWhole ==
  Quiet /\ NeverDied =>
    \A s \in pub : \A p \in Parts : stored[<<s, p>>] \in Bodies

(***************************************************************************)
(* The last part to arrive publishes the file: when every part of an       *)
(* upload was answered with success and nothing is in progress, the file   *)
(* is in the store and linked to the user, whatever the interleaving of    *)
(* the handlers and whatever mv reported.                                  *)
(***************************************************************************)
AckedUploadIsLinked ==
  Quiet /\ NeverDied =>
    \A o \in Owners :
      (\A p \in Parts : <<o[1], o[2], p>> \in acked) => o[2] \in pub /\ o \in links

(***************************************************************************)
(* When two first uploads of a file meet between the SELECT and the INSERT *)
(* the second INSERT hits the primary key and its user has a link nobody   *)
(* counted.  It costs that user an answer, never a wrong one: whoever was  *)
(* told success for every part is counted, whatever the interleaving, as   *)
(* long as exchanges never overlapped and no part is delivered twice.      *)
(***************************************************************************)
HasUploaded(s) == {u \in Users : \A p \in Parts : <<u, s, p>> \in acked}

AckedUsersAreCounted ==
  NeverDied /\ ~mixed => \A s \in Signs : ref[s] >= Cardinality(HasUploaded(s))

(***************************************************************************)
(* A request counts at most once, whatever fails, dies or is executed late: *)
(* the reference, with the statements that are still to be executed, never *)
(* exceeds the number of requests that came in for the file.               *)
(***************************************************************************)
Deliveries(s) ==
  {d \in Keys \X (1 .. MaxDeliver) : d[1][2] = s /\ d[2] <= delivered[d[1]]}

RequestsCountOnce ==
  \A s \in Signs :
    ref[s] + late[<<"insert", s>>] + late[<<"update", s>>] <= Cardinality(Deliveries(s))

(***************************************************************************)
(* "reference" is the reference count of the file (design document 6.4.2): *)
(* it is never below the number of users that have the file, so that       *)
(* deleting it for one could never take it from another.  True while       *)
(* requests come one at a time, statements work and the process is not     *)
(* killed; two first uploads at a time refute it.                          *)
(***************************************************************************)
Linking(s) == {u \in Users : <<u, s>> \in links}

ReferenceCoversLinks ==
  Quiet => \A s \in Signs : ref[s] >= Cardinality(Linking(s))

(***************************************************************************)
(* "Executing statements is thread safe" (mmsql.cpp:19): a handler is the  *)
(* only one between sending a statement and having read its answer.        *)
(***************************************************************************)
ConnectionIsExclusive == Cardinality(Busy) <= 1

(***************************************************************************)
(* A published file never loses its directory or a part, and a part of it  *)
(* changes only while a handler that had the part open before the move     *)
(* still has to write it.                                                  *)
(***************************************************************************)
PublicationIsStable ==
  [][\A s \in pub :
       /\ s \in pub'
       /\ \A p \in Parts :
            stored[<<s, p>>] \notin {Absent, stored'[<<s, p>>]} =>
              /\ stored'[<<s, p>>] # Absent
              /\ \E h \in Handlers : fd[h] = "pub" /\ slot(h) = <<s, p>>]_vars

(***************************************************************************)
(* The service implements DedupStore: whatever the handlers do, and whatever *)
(* fails or dies, the moves, symlinks and statements amount to publishing a *)
(* file, giving it to a user, and counting it, in this order.  Needs a     *)
(* working mv and popen.                                                   *)
(***************************************************************************)
Store == INSTANCE DedupStore WITH published <- pub, owned <- links, count <- ref

ImplementsStore == Store!Spec

(***************************************************************************)
(* Every request is answered, or the process dies, unless two exchanges on *)
(* the connection overlapped: no handler waits for ever for the mutex, and *)
(* an error path never keeps it.                                           *)
(***************************************************************************)
EveryRequestIsAnswered ==
  []~mixed => \A h \in Handlers : pc[h] = "mkFiles" ~> pc[h] = "idle"
=============================================================================
