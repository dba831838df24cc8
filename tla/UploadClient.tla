---------------------------- MODULE UploadClient ----------------------------
(***************************************************************************)
(* Clients over the upload service: the menu and uploadOp of the client    *)
(* program (cmd/clientMain.cpp), BrpcClient::DoRequest and doUploadFile     *)
(* (long_connect/brpc_client.cpp), the brpc channel between client and     *)
(* server, and the descriptors of the server process, of which ExistDir    *)
(* and LsDir lose one per call (file_sys.cpp).                             *)
(*                                                                         *)
(* UploadRpc is the server.  Here its requests come from clients, one per  *)
(* part, in sequence, with a time-out for every call and retries when the  *)
(* connection is lost, with the server or without; the end of Do is the    *)
(* answer to the client.                                                   *)
(***************************************************************************)
EXTENDS UploadRpc

CONSTANTS Clients,      \* running client programs
          UsrOf,        \* g_usr of each
          File,         \* the bytes of the file they upload
          FileSign,     \* its md5 sum
          MAX_SIZE_PER_SHARD,
          Behind,       \* what may lie in memory behind the bytes of a part
          MaxUploads,   \* bound: uploads per client
          MaxRetry,     \* max_retry of the channel
          MaxBreaks,    \* bound: connections the network breaks
          MaxFds,       \* descriptors the server may hold
          ClientFaults, \* what may go wrong on the client's side
          NoCall        \* call of an idle handler

ASSUME ClientAssumption ==
  /\ UsrOf \in [Clients -> Users]
  /\ File \in Seq(Byte) /\ FileSign \in Signs
  /\ MAX_SIZE_PER_SHARD \in Nat \ {0}
  /\ Behind \subseteq Seq(Byte)
  /\ MaxUploads \in Nat /\ MaxRetry \in Nat
  /\ MaxBreaks \in Nat /\ MaxFds \in Nat
  /\ ClientFaults \subseteq {"channel", "popen", "file"}

VARIABLES
  \* each client
  cpc,        \* "menu", "send" the next part, "wait" for its answer, "dead"
  part,       \* part_index + 1
  buffer,     \* body of the part
  tries,      \* retries of the call
  uploads,    \* uploads started
  shown,      \* what the user was told of the last one
  \* between client and server
  wire,       \* requests on their way
  serving,    \* the call each handler will answer
  breaks,     \* connections broken by the network
  \* the server process
  leaked,     \* descriptors lost
  \* history
  serial,     \* never two handlers at work, or one and an mv left behind
  smooth,     \* no call failed, nobody uploaded without an account
  failed      \* a system call of the server that needs a descriptor failed

clientVars == <<cpc, part, buffer, tries, uploads, shown>>
histVars   == <<serial, smooth, failed>>
rpcVars    == <<wire, serving, breaks, leaked>>
allVars    == <<vars, clientVars, rpcVars, histVars>>
-----------------------------------------------------------------------------
(***************************************************************************)
(* Cutting the file.                                                       *)
(***************************************************************************)

\* shard of the requests; a size that is a multiple gives an empty last part.
shard == Len(File) \div MAX_SIZE_PER_SHARD + 1

ASSUME ShardAssumption == Shards = shard

\* The bytes fread puts into the buffer of part p.
Slice(p) ==
  LET first == (p - 1) * MAX_SIZE_PER_SHARD
      last  == IF p = shard THEN Len(File) ELSE first + MAX_SIZE_PER_SHARD
  IN  SubSeq(File, first + 1, last)

\* md5 and set_body take the buffer as a C string, which ends at the first
\* zero byte, behind the buffer if it has none.
BodiesOf(p) == {CStr(Slice(p) \o behind) : behind \in Behind}

\* What the clients send is among what the server may receive.
ASSUME BodiesAssumption == \A p \in Parts : BodiesOf(p) \subseteq Bodies

\* A call: one attempt of brpc to get one part answered.
Call == [client : Clients, upload : 0 .. MaxUploads, part : Parts,
         try : 0 .. MaxRetry, body : Bodies]

callOf(c) == [client |-> c, upload |-> uploads[c], part |-> part[c],
              try |-> tries[c], body |-> buffer[c]]

\* The client still waits for the answer to call k.
Live(k) == k # NoCall /\ cpc[k.client] = "wait" /\ callOf(k.client) = k

SysInit ==
  /\ Init
  /\ cpc = [c \in Clients |-> "menu"]
  /\ part = [c \in Clients |-> 1]
  /\ buffer = [c \in Clients |-> <<>>]
  /\ tries = [c \in Clients |-> 0]
  /\ uploads = [c \in Clients |-> 0]
  /\ shown = [c \in Clients |-> "none"]
  /\ wire = {} /\ serving = [h \in Handlers |-> NoCall]
  /\ breaks = 0 /\ leaked = 0
  /\ serial = TRUE /\ smooth = TRUE /\ failed = FALSE

Breaks(fault) == fault \in ClientFaults
-----------------------------------------------------------------------------
(***************************************************************************)
(* A client.                                                               *)
(***************************************************************************)

\* registOp, served by the short-connection server.
Register(c) ==
  /\ cpc[c] = "menu" /\ up
  /\ CreateUsrDir(UsrOf[c])
  /\ UNCHANGED <<clientVars, rpcVars, histVars>>

Show(c, text) ==
  /\ cpc' = [cpc EXCEPT ![c] = "menu"]
  /\ shown' = [shown EXCEPT ![c] = text]
  /\ UNCHANGED <<part, buffer, tries>>

\* uploadOp, up to the loop.  "not login" is printed and has no effect.  A
\* file without a sum counts as uploaded; a file that does not open is closed.
UploadOp(c) ==
  /\ cpc[c] = "menu" /\ uploads[c] < MaxUploads
  /\ uploads' = [uploads EXCEPT ![c] = @ + 1]
  /\ \/ /\ cpc' = [cpc EXCEPT ![c] = "send"]
        /\ part' = [part EXCEPT ![c] = 1]
        /\ smooth' = (smooth /\ UsrOf[c] \in homes)
        /\ UNCHANGED <<buffer, tries, shown>>
     \/ Breaks("channel") /\ Show(c, "error") /\ smooth' = FALSE
     \/ Breaks("popen") /\ Show(c, "success") /\ smooth' = FALSE
     \/ /\ Breaks("file")
        /\ cpc' = [cpc EXCEPT ![c] = "dead"]
        /\ UNCHANGED <<part, buffer, tries, shown, smooth>>
  /\ UNCHANGED <<vars, rpcVars, serial, failed>>

\* A request leaves; there is nobody to take it while the server is down.
Sent(k) == IF up THEN wire \cup {k} ELSE wire

\* _stub->Send: the buffer is filled, and the client waits.
SendPart(c) ==
  /\ cpc[c] = "send"
  /\ \E b \in BodiesOf(part[c]) : buffer' = [buffer EXCEPT ![c] = b]
  /\ tries' = [tries EXCEPT ![c] = 0]
  /\ cpc' = [cpc EXCEPT ![c] = "wait"]
  /\ UNCHANGED <<vars, part, uploads, shown, serving, breaks, leaked, histVars>>
  /\ wire' = Sent(callOf(c)')

Proceed_OneShort(c) ==
  /\ IF part[c] < Shards - 1
     THEN /\ part' = [part EXCEPT ![c] = @ + 1]
          /\ cpc' = [cpc EXCEPT ![c] = "send"]
          /\ UNCHANGED shown
     ELSE /\ cpc' = [cpc EXCEPT ![c] = "menu"]
          /\ shown' = [shown EXCEPT ![c] = "success"]
          /\ UNCHANGED part
  /\ UNCHANGED <<buffer, tries, uploads>>

Proceed_OneMore(c) ==
  /\ IF part[c] <= Shards
     THEN /\ part' = [part EXCEPT ![c] = @ + 1]
          /\ cpc' = [cpc EXCEPT ![c] = "send"]
          /\ UNCHANGED shown
     ELSE /\ cpc' = [cpc EXCEPT ![c] = "menu"]
          /\ shown' = [shown EXCEPT ![c] = "success"]
          /\ UNCHANGED part
  /\ UNCHANGED <<buffer, tries, uploads>>

\* The call is over, answered or not, with whatever res: the next part, or the
\* end of the loop and DoRequest's 0.
Proceed(c) ==
  /\ IF part[c] < Shards
     THEN /\ part' = [part EXCEPT ![c] = @ + 1]
          /\ cpc' = [cpc EXCEPT ![c] = "send"]
          /\ UNCHANGED shown
     ELSE /\ cpc' = [cpc EXCEPT ![c] = "menu"]
          /\ shown' = [shown EXCEPT ![c] = "success"]
          /\ UNCHANGED part
  /\ UNCHANGED <<buffer, tries, uploads>>

TimeOut_SendsAgain(c) ==
  /\ cpc[c] = "wait"
  /\ cpc' = [cpc EXCEPT ![c] = "send"]
  /\ smooth' = FALSE
  /\ UNCHANGED <<vars, part, buffer, tries, uploads, shown, rpcVars, serial, failed>>

\* timeout_ms has passed: the call fails and is not tried again; the request
\* and its handler go on.
TimeOut(c) ==
  /\ cpc[c] = "wait"
  /\ Proceed(c)
  /\ smooth' = FALSE
  /\ UNCHANGED <<vars, rpcVars, serial, failed>>

\* The server died, or there was none, and neither a request nor a handler
\* stands for the call any more.
Lost(c) ==
  up => callOf(c) \notin wire /\ \A h \in Handlers : serving[h] # callOf(c)

\* The connection is gone, with the server or by the network: then the request
\* is still on its way or at work.
Broken(c) ==
  \/ Lost(c) /\ UNCHANGED breaks
  \/ breaks < MaxBreaks /\ breaks' = breaks + 1

\* The channel sends the request again max_retry times, then the call fails.
Reconnect(c) ==
  /\ cpc[c] = "wait" /\ Broken(c)
  /\ smooth' = FALSE
  /\ \/ /\ tries[c] < MaxRetry
        /\ tries' = [tries EXCEPT ![c] = @ + 1]
        /\ UNCHANGED <<cpc, part, buffer, uploads, shown>>
        /\ wire' = Sent(callOf(c)')
     \/ /\ tries[c] = MaxRetry
        /\ Proceed(c)
        /\ UNCHANGED wire
  /\ UNCHANGED <<vars, serving, leaked, serial, failed>>
-----------------------------------------------------------------------------
(***************************************************************************)
(* The server with its descriptors.                                        *)
(***************************************************************************)

\* A handler takes a request off the wire.
Deliver(h) ==
  /\ Receive(h)
  /\ \E k \in wire :
       /\ req'[h] = [usr |-> UsrOf[k.client], sign |-> FileSign,
                     part |-> k.part, body |-> k.body]
       /\ wire' = wire \ {k}
       /\ serving' = [serving EXCEPT ![h] = k]
  /\ serial' = (serial /\ orphans = {} /\ \A g \in Handlers : At(g, "idle"))
  /\ UNCHANGED <<clientVars, breaks, leaked, smooth, failed>>

\* Descriptors the process holds: the streams lost so far and the files open in
\* Write.
Holds == leaked + Cardinality({h \in Handlers : fd[h] # "none"})

\* popen makes a pipe, of which it keeps one end until the command is done.
Shell == {"md5Old", "md5New", "mv"}
Needing == {"existDir", "open", "ls"} \cup Shell

Needs(h) == IF pc[h] \in Shell THEN 2 ELSE 1

\* Whether handler h finds its descriptors; others that are at a command may
\* hold an end or two of a pipe at that moment.
Finds(h) ==
  LET atShell == Cardinality({g \in Handlers \ {h} : pc[g] \in Shell})
  IN  {free \in BOOLEAN :
         IF free THEN Holds + Needs(h) <= MaxFds
                 ELSE Holds + 2 * atShell + Needs(h) > MaxFds}

\* opendir, open, popen and mv do what they do on what exists.
Works(h) ==
  CASE At(h, "existDir") -> FileIsStored(h) => pc'[h] = "link"
    [] At(h, "md5Old") -> pc'[h] # "idle"
    [] At(h, "open") -> owner(h) \in dirs => pc'[h] = "write"
    [] At(h, "md5New") -> pc'[h] = "idle" => FALSE \in Md5Matches(h)
    [] At(h, "ls") -> AllNames(h) => pc'[h] = "mv"
    [] At(h, "mv") -> CanMove(owner(h)) => owner(h) \notin dirs'
    [] OTHER -> TRUE

\* Without a descriptor they fail; a popen that fails leaves shell_res empty,
\* which Do takes for a mv that worked.
Fails(h) ==
  CASE At(h, "existDir") -> pc'[h] = "mkTmp"
    [] pc[h] \in {"md5Old", "open", "md5New", "ls"} -> pc'[h] = "idle"
    [] At(h, "mv") -> pc'[h] = "link" /\ UNCHANGED dirs
    [] OTHER -> TRUE

\* ExistDir and LsDir never close the stream they open.  When names are missing
\* nothing else shows whether LsDir could open the directory.
Leaks(h) ==
  CASE At(h, "existDir") /\ pc'[h] = "link" -> {1}
    [] At(h, "ls") /\ pc'[h] = "mv" -> {1}
    [] At(h, "ls") /\ owner(h) \in dirs /\ ~AllNames(h) ->
         {1} \cup IF May("opendir") THEN {0} ELSE {}
    [] OTHER -> {0}

\* The answer of handler h, taken by its client unless that has gone on.
Reply(h) ==
  /\ serving' = [serving EXCEPT ![h] = NoCall]
  /\ IF Live(serving[h]) THEN Proceed(serving[h].client) ELSE UNCHANGED clientVars

\* The process takes its connections and descriptors with it.
Disconnect ==
  /\ wire' = {} /\ serving' = [h \in Handlers |-> NoCall] /\ leaked' = 0
  /\ UNCHANGED <<clientVars, breaks>>

\* A step of a handler, and the answer if it is the last one.  The calls of
\* Faults may fail with descriptors left as well.
Serve(h) ==
  /\ Step(h)
  /\ \E free \in Finds(h) :
       /\ ~free => Fails(h)
       /\ failed' = (failed \/ ~Works(h) \/ (~free /\ pc[h] \in Needing))
       /\ IF up' THEN \E n \in IF free THEN Leaks(h) ELSE {0} : leaked' = leaked + n
                 ELSE Disconnect
  /\ up' => IF pc'[h] = "idle" THEN Reply(h) /\ UNCHANGED wire
                               ELSE UNCHANGED <<clientVars, wire, serving>>
  /\ UNCHANGED <<breaks, serial, smooth>>

ServerDies == Kill /\ Disconnect /\ UNCHANGED histVars

ServerStarts == Restart /\ UNCHANGED <<clientVars, rpcVars, histVars>>

\* What a server that died has left behind goes on.
Aftermath ==
  /\ (\E w \in Writes : ExecuteLate(w)) \/ \E x \in orphans : OrphanEnds(x)
  /\ UNCHANGED <<clientVars, rpcVars, histVars>>

\* All clients have used up their uploads and the server has nothing to do.
Finished ==
  /\ \A c \in Clients : (cpc[c] = "menu" /\ uploads[c] = MaxUploads) \/ cpc[c] = "dead"
  /\ \A h \in Handlers : At(h, "idle")
  /\ wire = {}
  /\ \/ up /\ \A c \in Clients : cpc[c] = "menu" => UsrOf[c] \in homes
     \/ ~up /\ restarts = MaxRestarts
  /\ UNCHANGED allVars

Client(c) == SendPart(c) \/ TimeOut(c) \/ Reconnect(c)

SysNext ==
  \/ \E c \in Clients : Register(c) \/ UploadOp(c) \/ Client(c)
  \/ \E h \in Handlers : Deliver(h) \/ Serve(h)
  \/ ServerDies \/ ServerStarts \/ Aftermath \/ Finished

\* The client program runs and its timer fires; nothing is asked of the
\* server, the network or the user.
SysSpec ==
  SysInit /\ [][SysNext]_allVars
    /\ \A c \in Clients : WF_allVars(SendPart(c)) /\ WF_allVars(TimeOut(c))
-----------------------------------------------------------------------------
(***************************************************************************)
(* Every variable stays in its domain, and the server never loses more     *)
(* descriptors than it can have.                                           *)
(***************************************************************************)
SysTypeOK ==
  /\ TypeOK
  /\ cpc \in [Clients -> {"menu", "send", "wait", "dead"}]
  /\ part \in [Clients -> Parts]
  /\ buffer \in [Clients -> Bodies \cup {<<>>}]
  /\ tries \in [Clients -> 0 .. MaxRetry]
  /\ uploads \in [Clients -> 0 .. MaxUploads]
  /\ shown \in [Clients -> {"none", "success", "error"}]
  /\ wire \subseteq Call
  /\ serving \in [Handlers -> Call \cup {NoCall}]
  /\ breaks \in 0 .. MaxBreaks /\ leaked \in 0 .. MaxFds
  /\ serial \in BOOLEAN /\ smooth \in BOOLEAN /\ failed \in BOOLEAN

(***************************************************************************)
(* The client's time-out makes even one client concurrent with itself: the *)
(* next part is sent while the server works on the last one.  That alone   *)
(* does no harm, nor does sending parts again alone: only a part that is   *)
(* sent again while another one is being handled may go missing from what  *)
(* is published.                                                           *)
(***************************************************************************)
Orderly == ~failed /\ (serial \/ \A k \in Keys : delivered[k] <= 1)

OrderlyUploadHasAllParts == Orderly => PublishedHasAllParts

(***************************************************************************)
(* From the disk of the client to the store: once nothing is in progress,  *)
(* byte i of the file is where the arithmetic of the parts puts it,        *)
(* whatever fread left behind the last bytes, for sizes that are a         *)
(* multiple of MAX_SIZE_PER_SHARD as well.  Files with a zero byte are cut *)
(* there.                                                                  *)
(***************************************************************************)
EveryByteIsStored ==
  Orderly /\ Quiet /\ NeverDied /\ FileSign \in pub
    /\ (\A i \in 1 .. Len(File) : File[i] # Nul) =>
      \A i \in 1 .. Len(File) :
        LET content == stored[<<FileSign, ((i - 1) \div MAX_SIZE_PER_SHARD) + 1>>]
            j == ((i - 1) % MAX_SIZE_PER_SHARD) + 1
        IN  j <= Len(content) /\ content[j] = File[i]

(***************************************************************************)
(* However calls time out, break and are sent again: when every part was   *)
(* answered with success the user has the file.  When LsDir or mv fail the *)
(* last part succeeds and nothing is published.                            *)
(***************************************************************************)
OrderlyAckedUploadIsLinked == Orderly => AckedUploadIsLinked

(***************************************************************************)
(* "success" on the screen is true when no call of client or server failed *)
(* on the way: the file is then in the store, and linked unless the handler *)
(* that moved it took what it read as the output of mv for an error.       *)
(***************************************************************************)
SmoothUploadIsStored ==
  smooth /\ serial /\ ~failed /\ NeverDied =>
    \A c \in Clients : shown[c] = "success" =>
      /\ FileSign \in pub
      /\ (\A p \in Parts : <<UsrOf[c], FileSign, p>> \in acked) =>
           <<UsrOf[c], FileSign>> \in links /\ ref[FileSign] > 0

(***************************************************************************)
(* No user gets a symlink to a file the server does not have as long as no *)
(* opendir, open, popen or mv failed, for want of a descriptor or without. *)
(***************************************************************************)
DanglingLinkNeedsFailure == ~failed => NoDanglingLink

(***************************************************************************)
(* An upload ends, or the client does, whatever becomes of the server: no  *)
(* lost answer, stuck handler or dead server holds the user for ever.      *)
(***************************************************************************)
UploadEnds ==
  \A c \in Clients : cpc[c] = "send" ~> cpc[c] \in {"menu", "dead"}
=============================================================================
