------------------------ MODULE UploadClient_proofs ------------------------
(***************************************************************************)
(* Theorems about clients over the upload service, for any number of       *)
(* clients, uploads, retries and descriptors, any file, and any size of a  *)
(* part.  What UploadRpc_proofs shows of the service under every client    *)
(* carries over, because the composed system is the service with some of   *)
(* its steps left out.                                                     *)
(***************************************************************************)
EXTENDS UploadClient, UploadRpc_proofs, Arithmetic

\* What a step of the system is for the service and for the history.
LEMMA SystemSteps ==
  ASSUME [SysNext]_allVars
  PROVE  \/ UNCHANGED <<vars, serial, failed>>
         \/ \E h \in Handlers : Deliver(h) \/ Serve(h)
         \/ /\ \/ \E u \in Users : CreateUsrDir(u)
               \/ \E w \in Writes : ExecuteLate(w)
               \/ \E x \in orphans : OrphanEnds(x)
               \/ Kill \/ Restart
            /\ UNCHANGED <<serial, failed>>
<1>1. ASSUME NEW c \in Clients, Register(c)
      PROVE  (\E u \in Users : CreateUsrDir(u)) /\ UNCHANGED <<serial, failed>>
  <2>1. UsrOf[c] \in Users
    BY ClientAssumption
  <2> QED
    BY <1>1, <2>1 DEF Register, histVars
<1>2. ASSUME NEW c \in Clients, UploadOp(c) \/ Client(c)
      PROVE  UNCHANGED <<vars, serial, failed>>
  BY <1>2 DEF UploadOp, Client, SendPart, TimeOut, Reconnect, histVars
<1>3. ServerDies => Kill /\ UNCHANGED <<serial, failed>>
  BY DEF ServerDies, histVars
<1>4. ServerStarts => Restart /\ UNCHANGED <<serial, failed>>
  BY DEF ServerStarts, histVars
<1>5. Finished \/ UNCHANGED allVars => UNCHANGED <<vars, serial, failed>>
  BY DEF Finished, allVars, histVars
<1>6. Aftermath => /\ (\E w \in Writes : ExecuteLate(w)) \/ \E x \in orphans : OrphanEnds(x)
                   /\ UNCHANGED <<serial, failed>>
  BY DEF Aftermath, histVars
<1> QED
  BY <1>1, <1>2, <1>3, <1>4, <1>5, <1>6 DEF SysNext

LEMMA SystemStepsService ==
  ASSUME [SysNext]_allVars
  PROVE  [Next]_vars
BY SystemSteps DEF Deliver, Serve, Next

(***************************************************************************)
(* The composed system is the service: whatever holds of the service with  *)
(* any requests, holds of it with these clients.                           *)
(***************************************************************************)
THEOREM SystemIsService == SysSpec => Spec
<1>1. SysInit => Init
  BY DEF SysInit
<1>2. [SysNext]_allVars => [Next]_vars
  BY SystemStepsService
<1> QED
  BY <1>1, <1>2, PTL DEF SysSpec, Spec
-----------------------------------------------------------------------------
(***************************************************************************)
(* Type correctness.  A client that waits has sent a body.                 *)
(***************************************************************************)
ClientOK ==
  /\ cpc \in [Clients -> {"menu", "send", "wait", "dead"}]
  /\ part \in [Clients -> Parts]
  /\ buffer \in [Clients -> Bodies \cup {<<>>}]
  /\ tries \in [Clients -> 0 .. MaxRetry]
  /\ uploads \in [Clients -> 0 .. MaxUploads]
  /\ shown \in [Clients -> {"none", "success", "error"}]

WireOK ==
  /\ wire \subseteq Call
  /\ serving \in [Handlers -> Call \cup {NoCall}]
  /\ breaks \in 0 .. MaxBreaks

HistOK == serial \in BOOLEAN /\ smooth \in BOOLEAN /\ failed \in BOOLEAN

SentInv == \A c \in Clients : cpc[c] = "wait" => buffer[c] \in Bodies

SysTypeInv == ClientOK /\ WireOK /\ leaked \in 0 .. MaxFds /\ HistOK /\ SentInv

LEMMA ProceedType ==
  ASSUME ClientOK, SentInv, NEW c \in Clients, Proceed(c)
  PROVE  ClientOK' /\ SentInv'
<1>1. part[c] < Shards => part[c] + 1 \in Parts
  BY UploadAssumption DEF ClientOK, Parts
<1>2. /\ UNCHANGED <<buffer, tries, uploads>>
      /\ cpc' \in [Clients -> {"menu", "send", "wait", "dead"}]
      /\ part' \in [Clients -> Parts]
      /\ shown' \in [Clients -> {"none", "success", "error"}]
  BY <1>1 DEF Proceed, ClientOK
<1>3. \A d \in Clients : cpc'[d] = "wait" => cpc[d] = "wait"
  BY DEF Proceed, ClientOK
<1> QED
  BY <1>2, <1>3 DEF ClientOK, SentInv

LEMMA CallType ==
  ASSUME ClientOK, NEW c \in Clients, buffer[c] \in Bodies
  PROVE  callOf(c) \in Call
BY DEF ClientOK, callOf, Call

LEMMA ClientStepType ==
  ASSUME SysTypeInv, NEW c \in Clients, UploadOp(c) \/ Client(c)
  PROVE  SysTypeInv'
<1>1. CASE UploadOp(c)
  <2>1. uploads[c] + 1 \in 0 .. MaxUploads /\ 1 \in Parts
    BY <1>1, ClientAssumption, UploadAssumption DEF UploadOp, SysTypeInv, ClientOK, Parts
  <2>2. ClientOK'
    BY <1>1, <2>1 DEF UploadOp, Show, SysTypeInv, ClientOK
  <2>3. SentInv'
    BY <1>1 DEF UploadOp, Show, SysTypeInv, ClientOK, SentInv
  <2>4. HistOK' /\ UNCHANGED rpcVars
    BY <1>1 DEF UploadOp, SysTypeInv, HistOK
  <2> QED
    BY <2>2, <2>3, <2>4 DEF SysTypeInv, WireOK, rpcVars
<1>2. CASE SendPart(c)
  <2>1. PICK b \in BodiesOf(part[c]) : buffer' = [buffer EXCEPT ![c] = b]
    BY <1>2 DEF SendPart
  <2>2. b \in Bodies /\ 0 \in 0 .. MaxRetry
    BY BodiesAssumption, ClientAssumption DEF SysTypeInv, ClientOK
  <2>3. ClientOK' /\ SentInv' /\ buffer'[c] = b
    BY <1>2, <2>1, <2>2 DEF SendPart, SysTypeInv, ClientOK, SentInv
  <2>4. callOf(c)' \in Call
    BY <2>2, <2>3 DEF ClientOK, callOf, Call
  <2> QED
    BY <1>2, <2>3, <2>4 DEF SendPart, Sent, SysTypeInv, WireOK, HistOK, histVars
<1>3. CASE TimeOut(c)
  <2>1. ClientOK' /\ SentInv'
    BY <1>3, ProceedType DEF TimeOut, SysTypeInv
  <2> QED
    BY <1>3, <2>1 DEF TimeOut, SysTypeInv, WireOK, HistOK, rpcVars
<1>4. CASE Reconnect(c)
  <2>3. breaks' \in 0 .. MaxBreaks
    BY <1>4, ClientAssumption DEF Reconnect, Broken, SysTypeInv, WireOK
  <2>1. CASE tries[c] = MaxRetry /\ Proceed(c) /\ UNCHANGED wire
    <3>1. ClientOK' /\ SentInv'
      BY <2>1, ProceedType DEF SysTypeInv
    <3> QED
      BY <1>4, <2>1, <2>3, <3>1 DEF Reconnect, SysTypeInv, WireOK, HistOK
  <2>2. CASE /\ tries[c] < MaxRetry
             /\ tries' = [tries EXCEPT ![c] = @ + 1]
             /\ UNCHANGED <<cpc, part, buffer, uploads, shown>>
             /\ wire' = Sent(callOf(c)')
    <3>1. tries[c] + 1 \in 0 .. MaxRetry
      BY <2>2, ClientAssumption DEF SysTypeInv, ClientOK
    <3>2. ClientOK' /\ SentInv' /\ buffer'[c] \in Bodies
      BY <1>4, <2>2, <3>1 DEF Reconnect, SysTypeInv, ClientOK, SentInv
    <3>3. callOf(c)' \in Call
      BY <3>2 DEF ClientOK, callOf, Call
    <3> QED
      BY <1>4, <2>2, <2>3, <3>2, <3>3 DEF Reconnect, Sent, SysTypeInv, WireOK, HistOK
  <2> QED
    BY <1>4, <2>1, <2>2 DEF Reconnect
<1> QED
  BY <1>1, <1>2, <1>3, <1>4 DEF Client

LEMMA DeliverType ==
  ASSUME SysTypeInv, NEW h \in Handlers, Deliver(h)
  PROVE  SysTypeInv'
<1>1. PICK k \in wire : wire' = wire \ {k} /\ serving' = [serving EXCEPT ![h] = k]
  BY DEF Deliver
<1>2. WireOK'
  BY <1>1 DEF Deliver, SysTypeInv, WireOK
<1> QED
  BY <1>2 DEF Deliver, SysTypeInv, ClientOK, SentInv, HistOK, clientVars

\* A descriptor is lost only when one is left.
LEMMA LeaksFit ==
  ASSUME leaked \in 0 .. MaxFds, NEW h \in Handlers, NEW free \in Finds(h),
         NEW n \in IF free THEN Leaks(h) ELSE {0}
  PROVE  leaked + n \in 0 .. MaxFds
<1>1. Cardinality({g \in Handlers : fd[g] # "none"}) \in Nat
  <2>1. IsFiniteSet({g \in Handlers : fd[g] # "none"})
    BY UploadAssumption, FS_Subset
  <2> QED
    BY <2>1, FS_CardinalityType
<1>2. n \in {0, 1}
  BY DEF Leaks
<1>3. free => leaked < MaxFds
  BY <1>1, ClientAssumption DEF Finds, Needs, Holds
<1> QED
  BY <1>2, <1>3, ClientAssumption

LEMMA ServeType ==
  ASSUME SysTypeInv, NEW h \in Handlers, Serve(h)
  PROVE  SysTypeInv'
<1>1. HistOK'
  BY DEF Serve, SysTypeInv, HistOK
<1>5. leaked' \in 0 .. MaxFds
  BY LeaksFit, ClientAssumption DEF Serve, Disconnect, SysTypeInv
<1>6. UNCHANGED breaks
  BY DEF Serve
<1>2. CASE UNCHANGED <<clientVars, wire, serving>>
  BY <1>1, <1>2, <1>5, <1>6 DEF SysTypeInv, WireOK, ClientOK, SentInv, clientVars
<1>3. CASE Reply(h) /\ UNCHANGED wire
  <2>1. WireOK'
    BY <1>3, <1>6 DEF Reply, SysTypeInv, WireOK
  <2>2. ClientOK' /\ SentInv'
    <3>1. CASE UNCHANGED clientVars
      BY <3>1 DEF SysTypeInv, ClientOK, SentInv, clientVars
    <3>2. CASE Live(serving[h]) /\ Proceed(serving[h].client)
      <4>1. serving[h].client \in Clients
        BY <3>2 DEF Live, SysTypeInv, WireOK, Call
      <4> QED
        BY <3>2, <4>1, ProceedType DEF SysTypeInv
    <3> QED
      BY <1>3, <3>1, <3>2 DEF Reply
  <2> QED
    BY <1>1, <1>5, <2>1, <2>2 DEF SysTypeInv
<1>4. CASE Disconnect
  BY <1>1, <1>4, ClientAssumption
     DEF Disconnect, SysTypeInv, WireOK, ClientOK, SentInv, clientVars
<1> QED
  BY <1>2, <1>3, <1>4 DEF Serve

LEMMA SysNextType ==
  ASSUME SysTypeInv, [SysNext]_allVars
  PROVE  SysTypeInv'
<1>1. ASSUME NEW c \in Clients, Register(c)
      PROVE  SysTypeInv'
  BY <1>1 DEF Register, SysTypeInv, ClientOK, WireOK, HistOK, SentInv, clientVars, rpcVars,
              histVars
<1>2. CASE ServerDies
  BY <1>2, ClientAssumption DEF ServerDies, Disconnect, SysTypeInv, ClientOK, WireOK, HistOK,
              SentInv, clientVars, histVars
<1>3. CASE ServerStarts \/ Aftermath \/ Finished \/ UNCHANGED allVars
  BY <1>3 DEF ServerStarts, Aftermath, Finished, allVars, SysTypeInv, ClientOK, WireOK,
              HistOK, SentInv, clientVars, rpcVars, histVars
<1> QED
  BY <1>1, <1>2, <1>3, ClientStepType, DeliverType, ServeType DEF SysNext

LEMMA SysTypeInvariant == SysSpec => []SysTypeInv
<1>1. SysInit => SysTypeInv
  <2>1. 1 \in Parts /\ 0 \in 0 .. MaxRetry /\ 0 \in 0 .. MaxUploads
    BY UploadAssumption, ClientAssumption DEF Parts
  <2> SUFFICES ASSUME SysInit PROVE SysTypeInv
    OBVIOUS
  <2>2. ClientOK /\ SentInv
    BY <2>1 DEF SysInit, ClientOK, SentInv
  <2>3. 0 \in 0 .. MaxBreaks /\ 0 \in 0 .. MaxFds
    BY ClientAssumption
  <2>4. WireOK /\ HistOK /\ leaked \in 0 .. MaxFds
    BY <2>3 DEF SysInit, WireOK, HistOK
  <2> QED
    BY <2>2, <2>4 DEF SysTypeInv
<1>2. SysTypeInv /\ [SysNext]_allVars => SysTypeInv'
  BY SysNextType
<1> QED
  BY <1>1, <1>2, PTL DEF SysSpec

(***************************************************************************)
(* Every variable of clients, channel and server stays in its domain, and  *)
(* the server never loses more descriptors than it may hold.               *)
(***************************************************************************)
THEOREM SysTypeCorrect == SysSpec => []SysTypeOK
<1>1. SysTypeInv /\ TypeOK => SysTypeOK
  BY DEF SysTypeInv, ClientOK, WireOK, HistOK, SysTypeOK
<1> QED
  BY <1>1, SysTypeInvariant, SystemIsService, TypeCorrect, PTL
-----------------------------------------------------------------------------
(***************************************************************************)
(* As long as no opendir, open, popen or mv failed, with a descriptor or   *)
(* for the lack of one, mv moved what can be moved and LsDir found what is *)
(* there.                                                                  *)
(***************************************************************************)
LEMMA OnlyServeSteps ==
  ASSUME TypeInv, [SysNext]_allVars, NEW h \in Handlers, MvDir(h) \/ AllPartArrived(h)
  PROVE  Serve(h)
<1>1. /\ pc[h] \in {"mv", "ls"} /\ pc'[h] # pc[h] /\ UNCHANGED up
      /\ \A g \in Handlers \ {h} : pc'[g] = pc[g]
  <2>1. MvDir(h) \/ AllPartArrived(h) => pc[h] \in {"mv", "ls"} /\ UNCHANGED up
    BY DEF MvDir, AllPartArrived, At, worldVars
  <2>2. \/ \E res \in BOOLEAN : Return(h, res)
        \/ pc[h] = "ls" /\ Goto(h, "mv")
        \/ pc[h] = "mv" /\ Goto(h, "link")
    BY DEF MvDir, AllPartArrived, AfterMv, At
  <2>3. "mv" \in Locations /\ "link" \in Locations /\ TypeOK
    BY DEF Locations, TypeInv
  <2> QED
    BY <2>1, <2>2, <2>3, GotoTo, ReturnTo DEF OthersKeep
<1>2. ~UNCHANGED pc
  BY <1>1
<1>3. ASSUME NEW g \in Handlers, Deliver(g)
      PROVE  FALSE
  BY <1>1, <1>3, ReceiveArrives DEF Deliver, Arrives
<1>4. ASSUME NEW g \in Handlers, Serve(g), g # h
      PROVE  FALSE
  <2>1. CASE PartStep(g)
    BY <1>1, <1>4, <2>1, PartStepOthers DEF OthersKeep
  <2>2. CASE pc[g] = "fetch" /\ Die
    BY <1>1, <1>4, <2>2, DieDies DEF Dies
  <2> QED
    BY <1>4, <2>1, <2>2, StepIsPartStep DEF Serve
<1>5. ~Kill
  BY <1>1 DEF Kill, Die
<1>6. /\ ~Restart /\ ~\E u \in Users : CreateUsrDir(u)
      /\ ~\E w \in Writes : ExecuteLate(w)
      /\ ~\E x \in orphans : OrphanEnds(x)
  BY <1>2 DEF Restart, CreateUsrDir, ExecuteLate, OrphanEnds, handlerVars
<1> QED
  BY <1>2, <1>3, <1>4, <1>5, <1>6, SystemSteps DEF vars

LEMMA NothingFailed ==
  ASSUME TypeInv, [SysNext]_allVars, ~failed'
  PROVE  /\ ~failed
         /\ MoveWorks
         /\ \A h \in Handlers : AllPartArrived(h) /\ AllNames(h) => acked' = acked
<1>1. ~failed
  BY SystemSteps DEF Deliver, Serve
<1>2. ASSUME NEW h \in Handlers, MvDir(h) \/ AllPartArrived(h)
      PROVE  Works(h)
  BY <1>2, OnlyServeSteps DEF Serve
<1>3. MoveWorks
  BY <1>2 DEF MoveWorks, MvDir, At, Works
<1>4. ASSUME NEW h \in Handlers, AllPartArrived(h), AllNames(h)
      PROVE  acked' = acked
  <2>1. pc'[h] = "mv"
    BY <1>2, <1>4 DEF AllPartArrived, At, Works
  <2>2. ~Return(h, TRUE)
    BY <2>1, ReturnTo DEF TypeInv
  <2> QED
    BY <1>4, <2>2 DEF AllPartArrived, Goto
<1> QED
  BY <1>1, <1>3, <1>4

PlacedUnlessFailed == ~failed => PlaceInv

LEMMA PlacedUnlessFailedInvariant == SysSpec => []PlacedUnlessFailed
<1>1. SysInit => PlacedUnlessFailed
  BY DEF SysInit, Init, PlacedUnlessFailed, PlaceInv, NoDanglingLink, Uploading
<1>2. TypeInv /\ StoreInv /\ PlacedUnlessFailed /\ [SysNext]_allVars => PlacedUnlessFailed'
  BY NothingFailed, SystemStepsService, NextPlace DEF PlacedUnlessFailed
<1> QED
  BY <1>1, <1>2, SystemIsService, TypeInvariant, StoreInvariant, PTL DEF SysSpec

(***************************************************************************)
(* As long as no opendir, open, popen or mv failed, no user gets a link to *)
(* a file that is not there, whatever else fails and whatever becomes of   *)
(* clients, channel and server.                                            *)
(***************************************************************************)
THEOREM LinkHasFile == SysSpec => []DanglingLinkNeedsFailure
<1>1. PlacedUnlessFailed => DanglingLinkNeedsFailure
  BY DEF PlacedUnlessFailed, PlaceInv, DanglingLinkNeedsFailure
<1> QED
  BY <1>1, PlacedUnlessFailedInvariant, PTL

(***************************************************************************)
(* As long as no opendir, open, popen or mv failed, clients, channel and   *)
(* server together implement DedupStore: a file is published once and for  *)
(* ever, owned only when published, and counted one by one, although the   *)
(* server may die, its last mv and statement outlive it, and whatever is   *)
(* sent again or given up.                                                 *)
(***************************************************************************)
THEOREM SystemImplementsStore == SysSpec /\ []~failed => ImplementsStore
<1>1. SysInit => Store!Init
  BY DEF SysInit, Init, Store!Init
<1>2. TypeInv /\ CountInv /\ PlacedUnlessFailed /\ ~failed /\ [SysNext]_allVars =>
        [Store!Next]_(Store!vars)
  BY SystemStepsService, NextStoreStep DEF PlacedUnlessFailed, seen, Store!vars
<1> QED
  BY <1>1, <1>2, SystemIsService, TypeInvariant, CountInvariant, PlacedUnlessFailedInvariant, PTL
     DEF SysSpec, ImplementsStore, Store!Spec
-----------------------------------------------------------------------------
(***************************************************************************)
(* One request at a time.  serial says that no request came in while       *)
(* another one was at work.                                                *)
(***************************************************************************)
\* An mv that outlived its process is alone: the next request ends serial.
LeftAlone == orphans # {} => \A h \in Handlers : pc[h] = "idle"

Serial == OneAtATime /\ LeftAlone

LEMMA SerialStep ==
  ASSUME TypeInv, [SysNext]_allVars, serial', serial => Serial
  PROVE  /\ serial /\ Serial /\ Serial'
         /\ orphans # {} => \A h \in Handlers : pc'[h] = "idle"
<1>1. serial /\ Serial
  BY SystemSteps DEF Deliver, Serve
<1>2. ASSUME NEW h \in Handlers, Deliver(h)
      PROVE  OneAtATime' /\ orphans = {}
  <2>1. orphans = {} /\ \A g \in Handlers : pc[g] = "idle"
    BY <1>2 DEF Deliver, At
  <2>2. \A g \in Handlers \ {h} : pc'[g] = pc[g]
    BY <1>2, ReceiveArrives DEF Deliver, Arrives
  <2> QED
    BY <2>1, <2>2 DEF OneAtATime
<1>3. ASSUME ~\E h \in Handlers : Deliver(h)
      PROVE  \A g \in Handlers : pc'[g] # "idle" => pc[g] # "idle"
  <2>1. ASSUME NEW h \in Handlers, Serve(h)
        PROVE  \A g \in Handlers : pc'[g] # "idle" => pc[g] # "idle"
    <3>1. CASE PartStep(h)
      BY <3>1, PartStepOthers DEF OthersKeep
    <3>2. CASE Die
      BY <3>2, DieDies DEF Dies
    <3> QED
      BY <2>1, <3>1, <3>2, StepIsPartStep DEF Serve
  <2>2. Kill => \A g \in Handlers : pc'[g] = "idle"
    BY DieDies DEF Kill, Dies
  <2>3. \/ UNCHANGED vars \/ Restart \/ \E u \in Users : CreateUsrDir(u)
        \/ \E w \in Writes : ExecuteLate(w)
        \/ \E x \in orphans : OrphanEnds(x)
        => pc' = pc
    BY DEF vars, Restart, CreateUsrDir, ExecuteLate, OrphanEnds, handlerVars
  <2> QED
    BY <1>3, <2>1, <2>2, <2>3, SystemSteps
<1>4. OneAtATime'
  BY <1>1, <1>2, <1>3 DEF Serial, OneAtATime
<1>5. orphans # {} => \A h \in Handlers : pc'[h] = "idle"
  BY <1>1, <1>2, <1>3 DEF Serial, LeftAlone
<1>6. LeftAlone'
  <2> SUFFICES ASSUME NEW x \in orphans' PROVE \A h \in Handlers : pc'[h] = "idle"
    BY DEF LeftAlone
  <2>1. CASE x \in orphans
    BY <1>5, <2>1
  <2>2. CASE x \notin orphans
    BY <2>2, SystemStepsService, OrphansCome DEF Dies
  <2> QED
    BY <2>1, <2>2
<1> QED
  BY <1>1, <1>4, <1>5, <1>6 DEF Serial

\* What an mv alone with the files publishes is complete.
LEMMA LeftAloneMove ==
  ASSUME TypeInv, [Next]_vars, MoveInv,
         \A h \in Handlers : pc[h] = "idle" /\ pc'[h] = "idle"
  PROVE  MoveInv'
<1> SUFFICES ASSUME NEW o \in Owners, Moving(o)', o \in dirs'
             PROVE  Complete(o)'
  BY DEF MoveInv
<1>1. Moving(o)
  BY MovingBefore
<1>2. Elsewhere \/ Dies \/ \E x \in orphans : OrphanMoves(x)
  BY NextPartStep, PartStepOthers DEF Arrives
<1>3. CASE UNCHANGED <<dirs, tmp>>
  BY <1>1, <1>3 DEF MoveInv, Complete
<1>4. ASSUME NEW x \in orphans, OrphanMoves(x)
      PROVE  Complete(o)'
  <2>1. o # x[3] /\ o \in dirs
    BY <1>4 DEF OrphanMoves, MoveToFiles
  <2>2. Complete(o)
    BY <1>1, <2>1 DEF MoveInv
  <2>3. ASSUME NEW p \in Parts PROVE tmp'[<<o[1], o[2], p>>] # Absent
    <3>1. <<o[1], o[2], p>> \in Keys /\ <<o[1], o[2]>> = o
      BY DEF Keys, Owners
    <3> QED
      BY <1>4, <2>1, <2>2, <3>1 DEF OrphanMoves, MoveToFiles, Complete
  <2> QED
    BY <2>3 DEF Complete
<1> QED
  BY <1>2, <1>3, <1>4 DEF Elsewhere, Dies, files

SerialPublished == serial => Serial /\ MoveInv /\ PublishedHasAllParts

LEMMA SerialPublishedInvariant == SysSpec => []SerialPublished
<1>1. SysInit => SerialPublished
  BY InitOnce DEF SysInit, Init, SerialPublished, Serial, LeftAlone, OneAtATime
<1>2. TypeInv /\ SerialPublished /\ [SysNext]_allVars => SerialPublished'
  <2> SUFFICES ASSUME TypeInv, SerialPublished, [SysNext]_allVars, serial'
               PROVE  (Serial /\ MoveInv /\ PublishedHasAllParts)'
    BY DEF SerialPublished
  <2>1. [Next]_vars
    BY SystemStepsService
  <2>2. /\ serial /\ Serial /\ Serial'
        /\ orphans # {} => \A h \in Handlers : pc'[h] = "idle"
    BY SerialStep DEF SerialPublished
  <2>3. MoveInv'
    <3>1. CASE orphans = {}
      BY <2>1, <2>2, <3>1, AloneMove DEF SerialPublished, Serial
    <3>2. CASE orphans # {}
      BY <2>1, <2>2, <3>2, LeftAloneMove DEF SerialPublished, Serial, LeftAlone
    <3> QED
      BY <3>1, <3>2
  <2> QED
    BY <2>1, <2>2, <2>3, PublishStep DEF SerialPublished
<1> QED
  BY <1>1, <1>2, SystemIsService, TypeInvariant, PTL DEF SysSpec

\* As long as the process lives nothing outlives it.
NoOrphans == NeverDied => orphans = {}

LEMMA NoOrphansInvariant == SysSpec => []NoOrphans
<1>1. SysInit => NoOrphans
  BY DEF SysInit, Init, NoOrphans
<1>2. TypeInv /\ NoOrphans /\ [SysNext]_allVars => NoOrphans'
  BY SystemStepsService, NeverDiedBefore, NeverDiedOrphans DEF NoOrphans
<1> QED
  BY <1>1, <1>2, SystemIsService, TypeInvariant, PTL DEF SysSpec

(***************************************************************************)
(* Time-outs alone, which put several requests of one client to work at    *)
(* once, and repeated deliveries alone do no harm: unless both happen, a   *)
(* published file has all its parts, whatever fails and dies.              *)
(***************************************************************************)
THEOREM OrderlyUploadComplete == SysSpec => []OrderlyUploadHasAllParts
<1>1. SerialPublished /\ OncePublished => OrderlyUploadHasAllParts
  BY DEF SerialPublished, OncePublished, Once, Orderly,
         OrderlyUploadHasAllParts
<1> QED
  BY <1>1, SerialPublishedInvariant, SystemIsService, OncePublishedInvariant, PTL
-----------------------------------------------------------------------------
(***************************************************************************)
(* An upload whose parts were all answered with success is linked.  When   *)
(* no part is delivered twice that is AckInv of the service.  When parts   *)
(* are delivered again, one request at a time, an answered part may go for *)
(* a moment: from the delete to the open of its next delivery.             *)
(***************************************************************************)
AckedUnlessFailed == Once /\ ~failed => AckInv

LEMMA AckedUnlessFailedInvariant == SysSpec => []AckedUnlessFailed
<1>1. SysInit => AckedUnlessFailed
  BY InitAcked DEF SysInit, AckedUnlessFailed
<1>2. TypeInv /\ OncePublished /\ CountInv /\ AckedUnlessFailed /\ [SysNext]_allVars =>
        AckedUnlessFailed'
  <2> SUFFICES ASSUME TypeInv, OncePublished, CountInv, AckedUnlessFailed, [SysNext]_allVars,
                      Once', ~failed'
               PROVE  AckInv'
    BY DEF AckedUnlessFailed
  <2>1. [Next]_vars
    BY SystemStepsService
  <2>2. ~failed /\ \A h \in Handlers : AllPartArrived(h) /\ AllNames(h) => acked' = acked
    BY NothingFailed
  <2>3. OnceInv /\ AckInv
    BY <2>1, <2>2, OnceBefore DEF OncePublished, AckedUnlessFailed
  <2> QED
    BY <2>1, <2>2, <2>3, AckedIsLinkedStep
<1> QED
  BY <1>1, <1>2, SystemIsService, TypeInvariant, CountInvariant, OncePublishedInvariant, PTL
     DEF SysSpec

\* A handler that did not find the file in the store.
Beyond == {"mkTmp"} \cup Uploading

Held(o) ==
  \A k \in PartsOf(o) :
    \/ k \in acked /\ \A h \in Handlers : pc[h] = "open" => key(h) # k
    \/ \E h \in Handlers : pc[h] \in Opening /\ key(h) = k
    => tmp[k] # Absent

HeldOrStored ==
  \A o \in Owners :
    \/ o \in links
    \/ /\ \E k \in PartsOf(o) : k \notin acked
       /\ o[2] \in pub \/ Held(o)

SerialAckInv ==
  /\ \A h \in Handlers : pc[h] \in Beyond => req[h].sign \notin pub
  /\ HeldOrStored

\* What calls that work mean for the one handler at work.
Served(h) ==
  /\ pc[h] = "existDir" /\ FileIsStored(h) => pc'[h] = "link"
  /\ pc[h] = "open" /\ owner(h) \in dirs => pc'[h] = "write"
  /\ AllPartArrived(h) /\ AllNames(h) => acked' = acked

LEMMA BeyondStep ==
  ASSUME TypeInv, OneAtATime, NEW h \in Handlers, PartStep(h), Served(h),
         \A g \in Handlers : pc[g] \in Beyond => req[g].sign \notin pub,
         NEW g \in Handlers, pc'[g] \in Beyond
  PROVE  req'[g].sign \notin pub'
<1>1. pc[h] # "idle" /\ OthersKeep(h)
  BY PartStepOthers
<1>2. g = h
  BY <1>1 DEF OthersKeep, OneAtATime, Beyond, Uploading
<1>3. pub' = pub /\ req'[h] = req[h]
  BY <1>2, PartStepOthers DEF PartStep, Looks, Makes, Removes, Opens, Stores, Moves, files,
     Beyond, Uploading
<1>4. pc[h] \in Beyond \/ (pc[h] = "existDir" /\ pc'[h] = "mkTmp")
  BY <1>2 DEF PartStep, Looks, Makes, Removes, Opens, Stores, Moves, Idles, GoesOn, MovesOn,
     Beyond, Uploading, AtDatabase
<1>5. pc[h] = "existDir" /\ pc'[h] = "mkTmp" => req[h].sign \notin pub
  BY DEF Served, FileIsStored
<1> QED
  BY <1>2, <1>3, <1>4, <1>5

\* The names of an upload outlast a step that answers nothing, or the file is
\* published.
LEMMA HeldStep ==
  ASSUME TypeInv, PlaceInv, OneAtATime, orphans = {}, [Next]_vars, acked' = acked,
         NEW h \in Handlers, PartStep(h), Served(h),
         pc[h] \in Beyond => req[h].sign \notin pub,
         NEW o \in Owners, Held(o)
  PROVE  o[2] \in pub' \/ Held(o)'
<1>1. pc[h] # "idle" /\ OthersKeep(h) /\ key(h) \in Keys
  BY PartStepOthers, Paths DEF TypeInv
<1>2. \A g \in Handlers \ {h} : pc[g] = "idle" /\ pc'[g] = "idle"
  BY <1>1 DEF OneAtATime, OthersKeep
<1> SUFFICES ASSUME o[2] \notin pub', NEW k \in PartsOf(o), tmp'[k] = Absent,
                    \/ k \in acked /\ \A g \in Handlers : pc'[g] = "open" => key(g)' # k
                    \/ \E g \in Handlers : pc'[g] \in Opening /\ key(g)' = k
             PROVE  FALSE
  BY DEF Held, PartsOf
<1>3. k \in Keys /\ o = <<k[1], k[2]>>
  BY DEF PartsOf
<1>4. pc'[h] # "idle" => req'[h] = req[h] /\ key(h)' = key(h)
  BY PartStepOthers DEF key
<1>5. CASE tmp[k] = Absent
  <2>1. CASE pc[h] = "open" /\ key(h) = k
    <3>1. ~Opens(h)
      <4>1. Empty # Absent
        BY EmptySeq, UploadAssumption DEF Empty
      <4> QED
        BY <1>3, <2>1, <4>1 DEF Opens, TypeInv, TypeOK
    <3>2. owner(h) \in dirs
      BY <2>1 DEF PlaceInv, Beyond, Uploading
    <3>3. pc'[h] = "write"
      BY <2>1, <3>2 DEF Served
    <3> QED
      BY <2>1, <3>1, <3>3 DEF PartStep, Looks, Makes, Removes, Stores, Moves, Idles, GoesOn,
         MovesOn, AtDatabase
  <2>2. CASE ~(pc[h] = "open" /\ key(h) = k)
    <3>1. \A g \in Handlers : pc[g] = "open" => key(g) # k
      BY <1>2, <2>2
    <3>2. \A g \in Handlers : ~(pc[g] \in Opening /\ key(g) = k)
      BY <1>5 DEF Held
    <3>3. k \notin acked
      BY <1>5, <3>1 DEF Held
    <3>4. PICK g \in Handlers : pc'[g] \in Opening /\ key(g)' = k
      BY <3>3
    <3>5. g = h /\ key(h) = k
      BY <1>2, <1>4, <3>4 DEF Opening
    <3>6. pc[h] \in Opening \cup {"open"}
      BY <3>4, <3>5 DEF PartStep, Looks, Makes, Removes, Opens, Stores, Moves, Idles, GoesOn,
         MovesOn, AtDatabase, Opening
    <3> QED
      BY <2>2, <3>2, <3>5, <3>6
  <2> QED
    BY <2>1, <2>2
<1>6. CASE tmp[k] # Absent
  <2>1. PICK f \in Handlers : (Removes(f) /\ key(f) = k) \/ (Moves(f) /\ owner(f) = o)
    BY <1>3, <1>6, TmpGoes
  <2>2. ~Moves(f) \/ owner(f) # o
    BY DEF Moves, MoveToFiles
  <2>3. f = h /\ pc'[h] = "open" /\ key(h) = k
    BY <1>2, <2>1, <2>2 DEF Removes
  <2> QED
    BY <1>2, <1>4, <2>3 DEF Opening
<1> QED
  BY <1>5, <1>6

\* An answer at the count of the names leaves a part that is missing.
LEMMA SerialAnswer ==
  ASSUME TypeInv, CountInv, OneAtATime, SerialAckInv, [Next]_vars, acked' # acked,
         \A h \in Handlers : AllPartArrived(h) /\ AllNames(h) => acked' = acked,
         NEW o \in Owners, o \notin links
  PROVE  /\ \E k \in PartsOf(o) : k \notin acked'
         /\ o[2] \in pub' \/ Held(o)'
<1> PICK h \in Handlers :
      /\ Looks(h) /\ pc'[h] = "idle" /\ acked' = acked \cup {key(h)}
      /\ \/ pc[h] = "ls" /\ AllPartArrived(h)
         \/ pc[h] = "await"
  BY Answers
<1>1. /\ key(h) \in Keys /\ owner(h) \in Owners
      /\ owner(h) = <<key(h)[1], key(h)[2]>> /\ owner(h)[2] = req[h].sign
  BY Paths DEF TypeInv, Looks, key, owner
<1>2. /\ UNCHANGED <<tmp, pub>> /\ pc[h] \notin {"idle", "open"}
      /\ \A g \in Handlers \ {h} : pc[g] = "idle" /\ pc'[g] = "idle"
  BY DEF Looks, files, Idles, GoesOn, OthersKeep, OneAtATime
<1>3. /\ \E k \in PartsOf(o) : k \notin acked
      /\ o[2] \in pub \/ Held(o)
  BY DEF SerialAckInv, HeldOrStored
<1>4. Held(o) => \A k \in PartsOf(o) : k \in acked => tmp[k] # Absent
  BY <1>2 DEF Held
<1>5. CASE owner(h) # o
  <2>1. key(h) \notin PartsOf(o)
    BY <1>1, <1>5 DEF PartsOf
  <2>2. Held(o) => Held(o)'
    <3> SUFFICES ASSUME Held(o), NEW k \in PartsOf(o),
                        k \in acked' \/ \E g \in Handlers : pc'[g] \in Opening
                 PROVE  tmp'[k] # Absent
      BY DEF Held, PartsOf
    <3>1. k \in acked
      BY <1>2, <2>1 DEF Opening
    <3> QED
      BY <1>2, <1>4, <3>1
  <2> QED
    BY <1>2, <1>3, <2>1, <2>2
<1>6. CASE owner(h) = o
  <2>1. pc[h] = "ls" /\ ~AllNames(h)
    BY <1>6 DEF CountInv, LinkInv, AtDatabase
  <2>2. Held(o)
    BY <1>1, <1>3, <1>6, <2>1 DEF SerialAckInv, Beyond, Uploading
  <2>3. key(h) \in PartsOf(o) /\ tmp[key(h)] # Absent
    BY <1>1, <1>6, <2>1, <2>2 DEF PartsOf, Held, Opening
  <2>4. PICK p \in Parts : tmp[<<req[h].usr, req[h].sign, p>>] = Absent
    BY <2>1, MissingName DEF TypeInv
  <2>5. PICK k \in PartsOf(o) : k = <<req[h].usr, req[h].sign, p>>
    BY <1>1, <1>6 DEF PartsOf, Keys, key, owner
  <2>6. k \notin acked'
    BY <1>4, <2>2, <2>3, <2>4, <2>5
  <2>7. Held(o)'
    <3> SUFFICES ASSUME NEW j \in PartsOf(o),
                        j \in acked' \/ \E g \in Handlers : pc'[g] \in Opening
                 PROVE  tmp'[j] # Absent
      BY DEF Held, PartsOf
    <3>1. j \in acked \cup {key(h)}
      BY <1>2 DEF Opening
    <3> QED
      BY <1>2, <1>4, <2>2, <2>3, <3>1
  <2> QED
    BY <2>6, <2>7
<1> QED
  BY <1>5, <1>6

LEMMA SerialHandlerStep ==
  ASSUME TypeInv, CountInv, PlaceInv, OneAtATime, orphans = {}, SerialAckInv, [Next]_vars,
         NEW h \in Handlers, PartStep(h), Served(h),
         \A g \in Handlers : AllPartArrived(g) /\ AllNames(g) => acked' = acked
  PROVE  SerialAckInv'
<1>1. \A g \in Handlers : pc'[g] \in Beyond => req'[g].sign \notin pub'
  BY BeyondStep DEF SerialAckInv
<1>2. ASSUME NEW o \in Owners, o \notin links'
      PROVE  /\ \E k \in PartsOf(o) : k \notin acked'
             /\ o[2] \in pub' \/ Held(o)'
  <2>1. o \notin links
    BY <1>2, LinksGrow
  <2>2. CASE acked' # acked
    BY <2>1, <2>2, SerialAnswer
  <2>3. CASE acked' = acked
    <3>1. /\ \E k \in PartsOf(o) : k \notin acked'
          /\ o[2] \in pub \/ Held(o)
      BY <2>1, <2>3 DEF SerialAckInv, HeldOrStored
    <3>2. pub \subseteq pub'
      BY StoredStep
    <3>3. Held(o) => o[2] \in pub' \/ Held(o)'
      BY <2>3, HeldStep DEF SerialAckInv
    <3> QED
      BY <3>1, <3>2, <3>3
  <2> QED
    BY <2>2, <2>3
<1> QED
  BY <1>1, <1>2 DEF SerialAckInv, HeldOrStored, PartsOf

\* Steps that touch neither the files nor the answers, when no handler is at
\* work or none moves.
LEMMA SerialFrame ==
  ASSUME SerialAckInv, [Next]_vars, UNCHANGED <<tmp, pub, acked>>,
         \/ UNCHANGED <<pc, req>>
         \/ /\ \A h \in Handlers : pc[h] = "idle"
            /\ \A h \in Handlers : pc'[h] \in {"idle", "mkFiles"}
  PROVE  SerialAckInv'
<1>1. \A g \in Handlers : pc'[g] \in Beyond => req'[g].sign \notin pub'
  BY DEF SerialAckInv, Beyond, Uploading
<1>2. \A o \in Owners : Held(o) => Held(o)'
  BY DEF Held, PartsOf, Opening, key
<1> QED
  BY <1>1, <1>2, LinksGrow DEF SerialAckInv, HeldOrStored, PartsOf

LEMMA SerialAckStep ==
  ASSUME TypeInv, CountInv, PlaceInv, OneAtATime, OneAtATime', orphans = {},
         SerialAckInv, [SysNext]_allVars, ~failed', up'
  PROVE  SerialAckInv'
<1>1. /\ [Next]_vars
      /\ \A h \in Handlers : AllPartArrived(h) /\ AllNames(h) => acked' = acked
  BY SystemStepsService, NothingFailed
<1>2. ASSUME NEW h \in Handlers, Deliver(h)
      PROVE  SerialAckInv'
  <2>1. Arrives(h)
    BY <1>2, ReceiveArrives DEF Deliver
  <2>2. \A g \in Handlers : pc[g] = "idle" /\ pc'[g] \in {"idle", "mkFiles"}
    BY <2>1 DEF Arrives, OneAtATime
  <2> QED
    BY <1>1, <2>1, <2>2, SerialFrame DEF Arrives, files
<1>3. ASSUME NEW h \in Handlers, Serve(h)
      PROVE  SerialAckInv'
  <2>1. PartStep(h)
    BY <1>3, StepIsPartStep, DieDies DEF Serve, Dies
  <2>2. Works(h)
    BY <1>3 DEF Serve
  <2>3. Served(h)
    <3>1. pc[h] = "existDir" /\ FileIsStored(h) => pc'[h] = "link"
      BY <2>2 DEF Works, At
    <3>2. pc[h] = "open" /\ owner(h) \in dirs => pc'[h] = "write"
      BY <2>2 DEF Works, At
    <3> QED
      BY <1>1, <3>1, <3>2 DEF Served
  <2> QED
    BY <1>1, <2>1, <2>3, SerialHandlerStep
<1>4. ~Kill
  BY DieDies DEF Kill, Dies
<1>5. \/ UNCHANGED vars \/ Restart \/ \E u \in Users : CreateUsrDir(u)
      \/ \E w \in Writes : ExecuteLate(w)
      => UNCHANGED <<pc, req, tmp, pub, acked>>
  BY DEF vars, Restart, CreateUsrDir, ExecuteLate, handlerVars, fsVars
<1> QED
  BY <1>1, <1>2, <1>3, <1>4, <1>5, SystemSteps, SerialFrame

SerialAcked == serial /\ ~failed /\ NeverDied => SerialAckInv

LEMMA SerialAckedInvariant == SysSpec => []SerialAcked
<1>1. SysInit => SerialAcked
  <2> SUFFICES ASSUME SysInit PROVE SerialAckInv
    BY DEF SerialAcked
  <2>1. ASSUME NEW o \in Owners
        PROVE  Held(o) /\ \E k \in PartsOf(o) : k \notin acked
    <3>1. 1 \in Parts
      BY UploadAssumption DEF Parts
    <3>2. <<o[1], o[2], 1>> \in PartsOf(o)
      BY <3>1 DEF PartsOf, Keys, Owners
    <3>3. Held(o)
      BY DEF SysInit, Init, Held, Opening
    <3> QED
      BY <3>2, <3>3 DEF SysInit, Init
  <2> QED
    BY <2>1 DEF SysInit, Init, SerialAckInv, HeldOrStored, Beyond, Uploading
<1>2. TypeInv /\ CountInv /\ PlacedUnlessFailed /\ SerialPublished /\ NoOrphans /\ SerialAcked
        /\ [SysNext]_allVars => SerialAcked'
  <2> SUFFICES ASSUME TypeInv, CountInv, PlacedUnlessFailed, SerialPublished, NoOrphans,
                      SerialAcked, [SysNext]_allVars, serial', ~failed', NeverDied'
               PROVE  SerialAckInv'
    BY DEF SerialAcked
  <2>1. ~failed /\ NeverDied /\ up'
    BY NothingFailed, SystemStepsService, NeverDiedBefore DEF NeverDied
  <2>2. serial /\ OneAtATime /\ OneAtATime'
    BY SerialStep DEF SerialPublished, Serial
  <2> QED
    BY <2>1, <2>2, SerialAckStep DEF PlacedUnlessFailed, NoOrphans, SerialAcked
<1> QED
  BY <1>1, <1>2, SystemIsService, TypeInvariant, CountInvariant, PlacedUnlessFailedInvariant,
     SerialPublishedInvariant, NoOrphansInvariant, PTL DEF SysSpec

(***************************************************************************)
(* However calls time out, break and are sent again, and however many      *)
(* clients upload: when every part of an upload was answered with success, *)
(* the user has the file, provided no opendir, open, popen or mv failed,   *)
(* and parts were not both sent again and handled at the same time.  Any   *)
(* other call may fail.                                                    *)
(***************************************************************************)
THEOREM OrderlyAckedLinked == SysSpec => []OrderlyAckedUploadIsLinked
<1>1. AckedUnlessFailed /\ SerialAcked /\ PlacedUnlessFailed => OrderlyAckedUploadIsLinked
  <2> SUFFICES ASSUME AckedUnlessFailed, SerialAcked, PlacedUnlessFailed, Orderly, NeverDied
               PROVE  AckedUploadIsLinked
    BY DEF OrderlyAckedUploadIsLinked, AckedUploadIsLinked
  <2>1. ~failed /\ NoDanglingLink
    BY DEF Orderly, PlacedUnlessFailed, PlaceInv
  <2>2. CASE Once
    BY <2>1, <2>2, AckedMeans DEF AckedUnlessFailed
  <2>3. CASE serial
    <3> SUFFICES ASSUME NEW o \in Owners, \A p \in Parts : <<o[1], o[2], p>> \in acked
                 PROVE  o[2] \in pub /\ o \in links
      BY DEF AckedUploadIsLinked
    <3>1. ASSUME NEW k \in PartsOf(o) PROVE k \in acked
      <4>1. k = <<o[1], o[2], k[3]>> /\ k[3] \in Parts
        BY DEF PartsOf, Keys
      <4> QED
        BY <4>1
    <3>2. o \in links
      BY <2>1, <2>3, <3>1 DEF SerialAcked, SerialAckInv, HeldOrStored
    <3> QED
      BY <2>1, <3>2 DEF NoDanglingLink
  <2> QED
    BY <2>2, <2>3 DEF Orderly, Once
<1> QED
  BY <1>1, AckedUnlessFailedInvariant, SerialAckedInvariant, PlacedUnlessFailedInvariant, PTL
-----------------------------------------------------------------------------
(***************************************************************************)
(* From the client's disk to the store.  Every body on its way or at work  *)
(* is one that its part may have.                                          *)
(***************************************************************************)
BodyInv ==
  /\ \A c \in Clients : cpc[c] = "wait" => buffer[c] \in BodiesOf(part[c])
  /\ \A k \in wire : k.body \in BodiesOf(k.part)
  /\ \A h \in Handlers : pc[h] # "idle" => req[h].body \in BodiesOf(req[h].part)

LEMMA ProceedWaits ==
  ASSUME ClientOK, NEW c \in Clients, Proceed(c), NEW d \in Clients, cpc'[d] = "wait"
  PROVE  cpc[d] = "wait" /\ part'[d] = part[d] /\ buffer'[d] = buffer[d]
<1>1. d # c
  BY DEF Proceed, ClientOK
<1> QED
  BY <1>1 DEF Proceed, ClientOK

LEMMA SentBody ==
  ASSUME BodyInv, NEW c \in Clients, callOf(c).body' \in BodiesOf(part'[c]),
         wire' \in {wire, Sent(callOf(c)')}
  PROVE  \A k \in wire' : k.body \in BodiesOf(k.part)
<1>1. callOf(c)'.body \in BodiesOf(callOf(c)'.part)
  BY DEF callOf
<1> QED
  BY <1>1 DEF BodyInv, Sent

LEMMA ClientBodies ==
  ASSUME SysTypeInv, BodyInv, NEW c \in Clients, UploadOp(c) \/ Client(c)
  PROVE  BodyInv'
<1>1. UNCHANGED <<pc, req>>
  BY DEF UploadOp, Client, SendPart, TimeOut, Reconnect, vars, handlerVars
<1>2. CASE UploadOp(c)
  <2>1. UNCHANGED wire /\ cpc'[c] # "wait"
    BY <1>2 DEF UploadOp, Show, rpcVars, SysTypeInv, ClientOK
  <2>2. \A d \in Clients \ {c} : cpc'[d] = cpc[d] /\ part'[d] = part[d] /\ buffer'[d] = buffer[d]
    BY <1>2 DEF UploadOp, Show, SysTypeInv, ClientOK
  <2> QED
    BY <1>1, <2>1, <2>2 DEF BodyInv
<1>3. CASE SendPart(c)
  <2>1. /\ buffer'[c] \in BodiesOf(part[c]) /\ part' = part /\ wire' = Sent(callOf(c)')
        /\ \A d \in Clients \ {c} : cpc'[d] = cpc[d] /\ buffer'[d] = buffer[d]
    BY <1>3 DEF SendPart, SysTypeInv, ClientOK
  <2>2. \A k \in wire' : k.body \in BodiesOf(k.part)
    BY <2>1, SentBody DEF callOf
  <2> QED
    BY <1>1, <2>1, <2>2 DEF BodyInv
<1>4. CASE TimeOut(c)
  BY <1>1, <1>4, ProceedWaits DEF TimeOut, rpcVars, SysTypeInv, BodyInv
<1>5. CASE Reconnect(c)
  <2>1. CASE Proceed(c) /\ UNCHANGED wire
    BY <1>1, <2>1, ProceedWaits DEF SysTypeInv, BodyInv
  <2>2. CASE UNCHANGED <<cpc, part, buffer>> /\ wire' = Sent(callOf(c)')
    <3>1. callOf(c).body' \in BodiesOf(part'[c])
      BY <1>5, <2>2 DEF Reconnect, callOf, BodyInv
    <3>2. \A k \in wire' : k.body \in BodiesOf(k.part)
      BY <2>2, <3>1, SentBody
    <3> QED
      BY <1>1, <2>2, <3>2 DEF BodyInv
  <2> QED
    BY <1>5, <2>1, <2>2 DEF Reconnect
<1> QED
  BY <1>2, <1>3, <1>4, <1>5 DEF Client

LEMMA DeliverBodies ==
  ASSUME TypeInv, BodyInv, NEW h \in Handlers, Deliver(h)
  PROVE  BodyInv'
<1>1. PICK k \in wire :
        /\ req'[h] = [usr |-> UsrOf[k.client], sign |-> FileSign,
                      part |-> k.part, body |-> k.body]
        /\ wire' = wire \ {k}
  BY DEF Deliver
<1>2. \A g \in Handlers \ {h} : pc'[g] = pc[g] /\ req'[g] = req[g]
  BY ReceiveArrives DEF Deliver, Arrives
<1>3. req'[h].body \in BodiesOf(req'[h].part)
  BY <1>1 DEF BodyInv
<1> QED
  BY <1>1, <1>2, <1>3 DEF Deliver, clientVars, BodyInv

LEMMA ServeBodies ==
  ASSUME SysTypeInv, TypeInv, BodyInv, NEW h \in Handlers, Serve(h)
  PROVE  BodyInv'
<1>1. \A g \in Handlers : pc'[g] # "idle" => pc[g] # "idle" /\ req'[g] = req[g]
  <2>1. CASE PartStep(h)
    BY <2>1, PartStepOthers DEF OthersKeep
  <2>2. CASE Die
    BY <2>2, DieDies DEF Dies
  <2> QED
    BY <2>1, <2>2, StepIsPartStep DEF Serve
<1>2. wire' \subseteq wire
  BY DEF Serve, Disconnect
<1>3. \A d \in Clients : cpc'[d] = "wait" =>
        cpc[d] = "wait" /\ part'[d] = part[d] /\ buffer'[d] = buffer[d]
  <2>1. CASE UNCHANGED clientVars
    BY <2>1 DEF clientVars
  <2>2. CASE Live(serving[h]) /\ Proceed(serving[h].client)
    <3>1. serving[h].client \in Clients
      BY <2>2 DEF Live, SysTypeInv, WireOK, Call
    <3> QED
      BY <2>2, <3>1, ProceedWaits DEF SysTypeInv
  <2> QED
    BY <2>1, <2>2 DEF Serve, Reply, Disconnect
<1> QED
  BY <1>1, <1>2, <1>3 DEF BodyInv

LEMMA BodyInvariant == SysSpec => []BodyInv
<1>1. SysInit => BodyInv
  BY DEF SysInit, Init, BodyInv
<1>2. TypeInv /\ SysTypeInv /\ BodyInv /\ [SysNext]_allVars => BodyInv'
  <2> SUFFICES ASSUME TypeInv, SysTypeInv, BodyInv, [SysNext]_allVars
               PROVE  BodyInv'
    OBVIOUS
  <2>1. ASSUME NEW c \in Clients, Register(c)
        PROVE  BodyInv'
    BY <2>1 DEF Register, CreateUsrDir, handlerVars, clientVars, rpcVars, BodyInv
  <2>2. CASE ServerDies
    BY <2>2, DieDies DEF ServerDies, Kill, Dies, Disconnect, clientVars, BodyInv
  <2>3. CASE ServerStarts \/ Aftermath \/ Finished \/ UNCHANGED allVars
    BY <2>3 DEF ServerStarts, Restart, Aftermath, ExecuteLate, OrphanEnds, Finished, allVars,
       vars, handlerVars, clientVars, rpcVars, BodyInv
  <2> QED
    BY <2>1, <2>2, <2>3, ClientBodies, DeliverBodies, ServeBodies DEF SysNext
<1> QED
  BY <1>1, <1>2, SystemIsService, TypeInvariant, SysTypeInvariant, PTL DEF SysSpec

FilePieces == {x \in Parts \X Bodies : x[2] \in BodiesOf(x[1])}

LEMMA RequestsFit ==
  ASSUME TypeInv, BodyInv
  PROVE  Fits(FilePieces)
BY DEF TypeInv, ReqInv, Request, BodyInv, Fits, FilePieces

\* Part p of the file is M bytes of it, the last one what is left, and byte i
\* is in one of them.
LEMMA SliceBounds ==
  ASSUME NEW n \in Nat, NEW M \in Nat \ {0}, NEW p \in 1 .. (n \div M) + 1
  PROVE  LET first == (p - 1) * M
             last  == IF p = (n \div M) + 1 THEN n ELSE first + M
         IN  first \in Nat /\ last \in Nat /\ first <= last /\ last <= n
<1> DEFINE q == n \div M
           r == n % M
<1>1. q \in Nat /\ r \in 0 .. M - 1 /\ n = M * q + r
  BY DivMod, DivNat
<1> HIDE DEF q, r
<1>2. (p - 1) * M \in Nat
  OBVIOUS
<1>3. CASE p = q + 1
  BY <1>1, <1>2, <1>3 DEF q
<1>4. CASE p # q + 1
  <2>1. p <= q /\ q - p \in Nat
    BY <1>1, <1>4 DEF q
  <2>2. M * q = (p - 1) * M + M + M * (q - p)
    BY <1>1, <2>1
  <2>3. M * (q - p) \in Nat
    BY <2>1
  <2>4. (p - 1) * M + M <= n
    BY <1>1, <1>2, <2>2, <2>3
  <2> QED
    BY <1>2, <1>4, <2>4 DEF q
<1> QED
  BY <1>3, <1>4

LEMMA ByteInSlice ==
  ASSUME NEW M \in Nat \ {0},
         NEW q \in Nat, NEW r \in 0 .. M - 1, NEW n \in Nat, n = M * q + r,
         NEW a \in Nat, NEW b \in 0 .. M - 1, NEW i \in 1 .. n, i - 1 = M * a + b
  PROVE  /\ a <= q
         /\ b + 1 \in 1 .. (IF a = q THEN n ELSE a * M + M) - a * M
         /\ a * M + (b + 1) = i
<1>1. a <= q
  <2> SUFFICES ASSUME a >= q + 1 PROVE FALSE
    OBVIOUS
  <2>1. a - q - 1 \in Nat /\ M * a = M * q + M + M * (a - q - 1)
    OBVIOUS
  <2>2. M * (a - q - 1) \in Nat /\ M * q \in Int
    BY <2>1
  <2> QED
    BY <2>1, <2>2
<1>2. a * M = M * a /\ M * a \in Nat
  OBVIOUS
<1> QED
  BY <1>1, <1>2

LEMMA SliceFacts ==
  ASSUME NEW p \in Parts
  PROVE  LET first == (p - 1) * MAX_SIZE_PER_SHARD
             last  == IF p = shard THEN Len(File) ELSE first + MAX_SIZE_PER_SHARD
         IN  /\ Slice(p) \in Seq(Byte)
             /\ first \in Nat /\ Len(Slice(p)) = last - first
             /\ \A j \in 1 .. last - first : first + j \in 1 .. Len(File)
                                             /\ Slice(p)[j] = File[first + j]
<1> DEFINE first == (p - 1) * MAX_SIZE_PER_SHARD
           last  == IF p = shard THEN Len(File) ELSE first + MAX_SIZE_PER_SHARD
<1>1. /\ Len(File) \in Nat /\ \A i \in 1 .. Len(File) : File[i] \in Byte
      /\ p \in 1 .. shard
  BY ClientAssumption, ShardAssumption, LenProperties, ElementOfSeq DEF Parts
<1>2. first \in Nat /\ last \in Nat /\ first <= last /\ last <= Len(File)
  BY <1>1, ClientAssumption, SliceBounds DEF shard
<1>3. Slice(p) = SubSeq(File, first + 1, last)
  BY DEF Slice
<1> HIDE DEF first, last
<1>4. first + 1 \in Int /\ last \in Int /\ \A i \in first + 1 .. last : File[i] \in Byte
  BY <1>1, <1>2
<1>5. /\ Slice(p) \in Seq(Byte)
      /\ Len(Slice(p)) = IF first + 1 <= last THEN last - (first + 1) + 1 ELSE 0
      /\ \A i \in 1 .. last - (first + 1) + 1 : Slice(p)[i] = File[(first + 1) + i - 1]
  BY <1>3, <1>4, SubSeqProperties
<1>6. Len(Slice(p)) = last - first
  BY <1>2, <1>5
<1>7. ASSUME NEW j \in 1 .. last - first
      PROVE  first + j \in 1 .. Len(File) /\ Slice(p)[j] = File[first + j]
  <2>1. j \in 1 .. last - (first + 1) + 1 /\ (first + 1) + j - 1 = first + j
    BY <1>2
  <2>2. Slice(p)[j] = File[(first + 1) + j - 1]
    BY <1>5, <2>1
  <2> QED
    BY <1>1, <1>2, <2>1, <2>2
<1> QED
  BY <1>2, <1>5, <1>6, <1>7 DEF first, last

LEMMA BodiesAreShort ==
  ASSUME \A p \in Parts : \A b \in BodiesOf(p) : Len(b) <= WRITE_LEN,
         NEW x \in FilePieces
  PROVE  ShortBody(x[2])
<1>1. PICK behind \in Behind : x[2] = CStr(Slice(x[1]) \o behind)
  BY DEF FilePieces, BodiesOf
<1>2. Slice(x[1]) \o behind \in Seq(Byte)
  BY SliceFacts, ClientAssumption, ConcatProperties DEF FilePieces
<1> QED
  BY <1>1, <1>2, CStrFacts, CStrHasNoNul DEF ShortBody, FilePieces

\* As long as the process lives, and parts are not both sent again and handled
\* at the same time.
FileWhole == NeverDied /\ (serial \/ Once) => WholeInv(FilePieces)

LEMMA FileWholeInvariant ==
  ASSUME Faults \cap {"write", "remove"} = {},
         \A p \in Parts : \A b \in BodiesOf(p) : Len(b) <= WRITE_LEN
  PROVE  SysSpec => []FileWhole
<1>1. SysInit => FileWhole
  BY InitWhole DEF SysInit, FileWhole
<1>2. TypeInv /\ BodyInv /\ OncePublished /\ SerialPublished /\ NoOrphans /\ FileWhole
        /\ [SysNext]_allVars => FileWhole'
  <2> SUFFICES ASSUME TypeInv, BodyInv, OncePublished, SerialPublished, NoOrphans, FileWhole,
                      [SysNext]_allVars, NeverDied', serial' \/ Once'
               PROVE  WholeInv(FilePieces)'
    BY DEF FileWhole, FilePieces
  <2>1. [Next]_vars
    BY SystemStepsService
  <2>2. NeverDied /\ up'
    BY <2>1, NeverDiedBefore DEF NeverDied
  <2>3. DistinctParts /\ (serial \/ Once)
    <3>1. CASE serial'
      BY <3>1, SerialStep DEF SerialPublished, Serial, OneAtATime, DistinctParts
    <3>2. CASE Once'
      BY <2>1, <3>2, OnceBefore DEF OncePublished, OnceInv
    <3> QED
      BY <3>1, <3>2
  <2>4. WholeInv(FilePieces) /\ Fits(FilePieces)
    BY <2>2, <2>3, RequestsFit DEF FileWhole
  <2>5. \A x \in FilePieces : ShortBody(x[2])
    BY BodiesAreShort
  <2> QED
    BY <2>1, <2>2, <2>3, <2>4, <2>5, WholeStep DEF NoOrphans
<1> QED
  BY <1>1, <1>2, SystemIsService, TypeInvariant, BodyInvariant, OncePublishedInvariant,
     SerialPublishedInvariant, NoOrphansInvariant, PTL DEF SysSpec

(***************************************************************************)
(* What is published is whole in every orderly run: once all is quiet each *)
(* part is a body that was read from its slice of the file, byte for byte, *)
(* however many clients, time-outs, retries or repeated uploads there      *)
(* were.  write() must store all it is given, DeleteFile must work, and a  *)
(* part fits one write.                                                    *)
(***************************************************************************)
THEOREM OrderlyPublishedWhole ==
  ASSUME Faults \cap {"write", "remove"} = {},
         \A p \in Parts : \A b \in BodiesOf(p) : Len(b) <= WRITE_LEN
  PROVE  SysSpec => [](Orderly => PublishedPartsAreWhole)
<1>1. TypeInv /\ FileWhole /\ OrderlyUploadHasAllParts => (Orderly => PublishedPartsAreWhole)
  <2> SUFFICES ASSUME TypeInv, FileWhole, OrderlyUploadHasAllParts, Orderly, Quiet, NeverDied,
                      NEW s \in pub, NEW p \in Parts
               PROVE  stored[<<s, p>>] \in Bodies
    BY DEF PublishedPartsAreWhole
  <2>1. PICK x \in Slots : x = <<s, p>>
    BY DEF Slots, TypeInv, TypeOK
  <2>2. WholeInv(FilePieces)
    BY DEF FileWhole, Orderly, Once
  <2>3. stored[x] # Absent
    BY <2>1 DEF OrderlyUploadHasAllParts, PublishedHasAllParts
  <2>4. <<x[2], stored[x]>> \in FilePieces
    BY <2>2, <2>3, QuietIsWhole
  <2> QED
    BY <2>1, <2>4, BodiesAssumption DEF FilePieces
<1> QED
  BY <1>1, FileWholeInvariant, OrderlyUploadComplete, SystemIsService, TypeInvariant, PTL

\* Byte i of the file is one of its slices'.
LEMMA PlaceOfByte ==
  ASSUME NEW i \in 1 .. Len(File), NEW p, NEW j,
         p = ((i - 1) \div MAX_SIZE_PER_SHARD) + 1, j = ((i - 1) % MAX_SIZE_PER_SHARD) + 1
  PROVE  p \in Parts /\ j \in 1 .. Len(Slice(p)) /\ Slice(p)[j] = File[i]
<1> DEFINE M == MAX_SIZE_PER_SHARD
           n == Len(File)
           a == (i - 1) \div M
           b == (i - 1) % M
           q == n \div M
           r == n % M
<1>1. n \in Nat /\ M \in Nat \ {0} /\ i - 1 \in Nat
  BY ClientAssumption, LenProperties
<1>2. p = a + 1 /\ j = b + 1 /\ shard = q + 1
  BY DEF shard
<1> HIDE DEF M, n
<1>3. a \in Nat /\ b \in 0 .. M - 1 /\ i - 1 = M * a + b
  BY <1>1, DivMod, DivNat
<1>4. q \in Nat /\ r \in 0 .. M - 1 /\ n = M * q + r
  BY <1>1, DivMod, DivNat
<1> HIDE DEF a, b, q, r
<1>5. /\ a <= q /\ a * M + (b + 1) = i
      /\ b + 1 \in 1 .. (IF a = q THEN n ELSE a * M + M) - a * M
  <2>1. i \in 1 .. n
    BY DEF n
  <2> QED
    BY <1>1, <1>3, <1>4, <2>1, ByteInSlice
<1>6. p \in Parts /\ p - 1 = a /\ (p = shard <=> a = q)
  BY <1>2, <1>3, <1>4, <1>5, ShardAssumption DEF Parts
<1>7. LET last == IF a = q THEN n ELSE a * M + M
      IN  /\ Len(Slice(p)) = last - a * M
          /\ \A k \in 1 .. last - a * M : Slice(p)[k] = File[a * M + k]
  BY <1>6, SliceFacts DEF M, n
<1> QED
  BY <1>2, <1>5, <1>6, <1>7

\* Byte i of a file that was sent in pieces.
LEMMA ByteOfPiece ==
  ASSUME \A i \in 1 .. Len(File) : File[i] # Nul, NEW p \in Parts, NEW j \in 1 .. Len(Slice(p)),
         NEW content \in BodiesOf(p)
  PROVE  j <= Len(content) /\ content[j] = Slice(p)[j]
<1>1. PICK behind \in Behind : content = CStr(Slice(p) \o behind)
  BY DEF BodiesOf
<1>2. behind \in Seq(Byte) /\ Slice(p) \in Seq(Byte)
  BY ClientAssumption, SliceFacts
<1>3. \A k \in 1 .. Len(Slice(p)) : Slice(p)[k] # Nul
  <2> DEFINE first == (p - 1) * MAX_SIZE_PER_SHARD
             last  == IF p = shard THEN Len(File) ELSE first + MAX_SIZE_PER_SHARD
  <2>1. /\ Len(Slice(p)) = last - first
        /\ \A k \in 1 .. last - first : first + k \in 1 .. Len(File)
                                        /\ Slice(p)[k] = File[first + k]
    BY SliceFacts
  <2> HIDE DEF first, last
  <2> QED
    BY <2>1
<1>4. /\ Len(content) >= Len(Slice(p))
      /\ \A k \in 1 .. Len(Slice(p)) : content[k] = Slice(p)[k]
  BY <1>1, <1>2, <1>3, CStrReadsOn
<1>5. Len(content) \in Nat /\ Len(Slice(p)) \in Nat
  BY <1>1, <1>2, ConcatProperties, CStrFacts, LenProperties
<1> QED
  BY <1>4, <1>5

(***************************************************************************)
(* Byte i of the file is in the store where the arithmetic of the parts    *)
(* puts it, once all is quiet: for files and parts of every size, any      *)
(* number of clients, and whatever lies in memory behind the last bytes.   *)
(* write() must store all it is given and DeleteFile must work; and a part *)
(* with what is read behind it fits one write, as MAX_SIZE_PER_SHARD sees  *)
(* to, because of a longer one Write repeats the beginning.                *)
(***************************************************************************)
THEOREM EveryByteStored ==
  ASSUME Faults \cap {"write", "remove"} = {},
         \A p \in Parts : \A b \in BodiesOf(p) : Len(b) <= WRITE_LEN
  PROVE  SysSpec => []EveryByteIsStored
<1>1. TypeInv /\ FileWhole /\ OrderlyUploadHasAllParts => EveryByteIsStored
  <2> SUFFICES ASSUME TypeInv, FileWhole, OrderlyUploadHasAllParts,
                      Orderly, Quiet, NeverDied, FileSign \in pub,
                      \A i \in 1 .. Len(File) : File[i] # Nul,
                      NEW i \in 1 .. Len(File)
               PROVE  LET content == stored[<<FileSign, ((i - 1) \div MAX_SIZE_PER_SHARD) + 1>>]
                          j == ((i - 1) % MAX_SIZE_PER_SHARD) + 1
                      IN  j <= Len(content) /\ content[j] = File[i]
    BY DEF EveryByteIsStored
  <2> DEFINE p == ((i - 1) \div MAX_SIZE_PER_SHARD) + 1
             j == ((i - 1) % MAX_SIZE_PER_SHARD) + 1
  <2>1. p = ((i - 1) \div MAX_SIZE_PER_SHARD) + 1 /\ j = ((i - 1) % MAX_SIZE_PER_SHARD) + 1
    OBVIOUS
  <2> HIDE DEF p, j
  <2>2. p \in Parts /\ j \in 1 .. Len(Slice(p)) /\ Slice(p)[j] = File[i]
    BY <2>1, PlaceOfByte
  <2>3. PICK x \in Slots : x = <<FileSign, p>>
    BY <2>2, ClientAssumption DEF Slots
  <2>4. WholeInv(FilePieces)
    BY DEF FileWhole, Orderly, Once
  <2>5. stored[x] # Absent
    BY <2>2, <2>3 DEF OrderlyUploadHasAllParts, PublishedHasAllParts
  <2>6. <<x[2], stored[x]>> \in FilePieces
    BY <2>3, <2>4, <2>5, QuietIsWhole
  <2>7. stored[<<FileSign, p>>] \in BodiesOf(p)
    BY <2>3, <2>6 DEF FilePieces
  <2>8. j <= Len(stored[<<FileSign, p>>]) /\ stored[<<FileSign, p>>][j] = File[i]
    BY <2>2, <2>7, ByteOfPiece
  <2> QED
    BY <2>8 DEF p, j
<1> QED
  BY <1>1, FileWholeInvariant, OrderlyUploadComplete, SystemIsService, TypeInvariant, PTL
-----------------------------------------------------------------------------
(***************************************************************************)
(* One request at work at a time: its answers are true, and it counts the  *)
(* links it makes.                                                         *)
(***************************************************************************)
SerialAnswered == serial => AnswerInv

LEMMA SerialAnsweredInvariant == SysSpec => []SerialAnswered
<1>1. SysInit => SerialAnswered
  BY InitCover DEF SysInit, SerialAnswered
<1>2. TypeInv /\ CountInv /\ SerialPublished /\ SerialAnswered /\ [SysNext]_allVars =>
        SerialAnswered'
  <2> SUFFICES ASSUME TypeInv, CountInv, SerialPublished, SerialAnswered,
                      [SysNext]_allVars, serial'
               PROVE  AnswerInv'
    BY DEF SerialAnswered
  <2>1. serial /\ OneAtATime /\ OneAtATime' /\ [Next]_vars
    BY SerialStep, SystemStepsService DEF SerialPublished, Serial
  <2> QED
    BY <2>1, AnswerStep DEF SerialAnswered
<1> QED
  BY <1>1, <1>2, SystemIsService, TypeInvariant, CountInvariant, SerialPublishedInvariant, PTL
     DEF SysSpec

SerialCovered == serial => NewInv /\ CoverInv

(***************************************************************************)
(* The reference of a file is at least the number of users that have it,   *)
(* once all is quiet, when the server worked on one request at a time,     *)
(* whatever the clients do, however often they send a part again and       *)
(* wherever a descriptor is missing.  Statements must not fail and the     *)
(* process not be killed.  Two first uploads at a time refute it.          *)
(***************************************************************************)
THEOREM SerialReferenceCovers ==
  ASSUME Faults \cap {"sql", "kill"} = {}
  PROVE  SysSpec => [](serial => ReferenceCoversLinks)
<1>1. SysInit => SerialCovered
  BY InitCover DEF SysInit, SerialCovered
<1>2. TypeInv /\ CountInv /\ SerialPublished /\ SerialAnswered /\ SerialCovered
        /\ [SysNext]_allVars => SerialCovered'
  <2> SUFFICES ASSUME TypeInv, CountInv, SerialPublished, SerialAnswered, SerialCovered,
                      [SysNext]_allVars, serial'
               PROVE  NewInv' /\ CoverInv'
    BY DEF SerialCovered
  <2>1. serial /\ OneAtATime /\ OneAtATime' /\ [Next]_vars
    BY SerialStep, SystemStepsService DEF SerialPublished, Serial
  <2> QED
    BY <2>1, NewStep, CoverStep DEF SerialAnswered, SerialCovered
<1>3. TypeInv /\ SerialCovered => (serial => ReferenceCoversLinks)
  BY CoverMeans DEF SerialCovered
<1> QED
  BY <1>1, <1>2, <1>3, SystemIsService, TypeInvariant, CountInvariant,
     SerialPublishedInvariant, SerialAnsweredInvariant, PTL DEF SysSpec
-----------------------------------------------------------------------------
(***************************************************************************)
(* "success" on the screen.  With one request at work at a time an         *)
(* answered upload is counted.                                             *)
(***************************************************************************)
AckedIsCounted ==
  \A o \in Owners : (\A k \in PartsOf(o) : k \in acked) => ref[o[2]] > 0

SerialCounted == serial /\ ~failed /\ NeverDied => AckedIsCounted

LEMMA CountedStep ==
  ASSUME TypeInv, CountInv, PlaceInv, OneAtATime, SerialAckInv, AnswerInv, AckedIsCounted,
         [SysNext]_allVars, ~failed'
  PROVE  AckedIsCounted'
<1>1. /\ [Next]_vars
      /\ \A h \in Handlers : AllPartArrived(h) /\ AllNames(h) => acked' = acked
  BY SystemStepsService, NothingFailed
<1> SUFFICES ASSUME NEW o \in Owners, \A k \in PartsOf(o) : k \in acked'
             PROVE  ref'[o[2]] > 0
  BY DEF AckedIsCounted, PartsOf
<1>2. o[2] \in Signs /\ ref[o[2]] \in Nat
  BY DEF Owners, TypeInv, TypeOK
<1>3. CASE \A k \in PartsOf(o) : k \in acked
  <2>1. ref[o[2]] > 0
    BY <1>3 DEF AckedIsCounted
  <2>2. ref'[o[2]] # ref[o[2]] => ref'[o[2]] = ref[o[2]] + 1
    BY <1>1, <1>2, RefStep
  <2> QED
    BY <1>2, <2>1, <2>2
<1>4. CASE \E k \in PartsOf(o) : k \notin acked
  <2>1. acked' # acked
    BY <1>4
  <2>2. PICK h \in Handlers :
          /\ Looks(h) /\ pc'[h] = "idle" /\ acked' = acked \cup {key(h)}
          /\ \/ pc[h] = "ls" /\ AllPartArrived(h)
             \/ pc[h] = "await"
    BY <1>1, <2>1, Answers
  <2>3. key(h) \in PartsOf(o) /\ owner(h) = o /\ o[2] = req[h].sign
    <3>1. key(h) \in PartsOf(o)
      BY <1>4, <2>2
    <3> QED
      BY <3>1 DEF PartsOf, key, owner
  <2>4. pc[h] = "await"
    <3> SUFFICES ASSUME pc[h] = "ls" PROVE FALSE
      BY <2>2
    <3>1. o \notin links
      BY <2>3 DEF SerialAckInv, Beyond, Uploading, PlaceInv, NoDanglingLink
    <3>2. \E k \in PartsOf(o) : k \notin acked'
      BY <1>1, <2>1, <3>1, SerialAnswer
    <3> QED
      BY <3>2
  <2>5. Serve(h)
    <3>1. ASSUME NEW g \in Handlers, Deliver(g) PROVE FALSE
      BY <2>1, <3>1, ReceiveArrives DEF Deliver, Arrives
    <3>2. ASSUME NEW g \in Handlers, Serve(g) PROVE g = h
      <4>1. pc[g] # "idle"
        BY <3>2, StepIsPartStep, PartStepOthers DEF Serve
      <4> QED
        BY <2>4, <4>1 DEF OneAtATime
    <3>3. /\ ~UNCHANGED vars /\ ~Kill /\ ~Restart /\ ~\E u \in Users : CreateUsrDir(u)
          /\ ~\E w \in Writes : ExecuteLate(w)
          /\ ~\E x \in orphans : OrphanEnds(x)
      BY <2>1 DEF vars, Kill, Die, Restart, CreateUsrDir, ExecuteLate, OrphanEnds
    <3> QED
      BY <3>1, <3>2, <3>3, SystemSteps
  <2> QED
    BY <2>1, <2>3, <2>4, <2>5, AnswerServe DEF Serve
<1> QED
  BY <1>3, <1>4

LEMMA SerialCountedInvariant == SysSpec => []SerialCounted
<1>1. SysInit => SerialCounted
  <2> SUFFICES ASSUME SysInit, NEW o \in Owners PROVE \E k \in PartsOf(o) : k \notin acked
    BY DEF SerialCounted, AckedIsCounted
  <2>1. 1 \in Parts
    BY UploadAssumption DEF Parts
  <2>2. <<o[1], o[2], 1>> \in PartsOf(o)
    BY <2>1 DEF PartsOf, Keys, Owners
  <2> QED
    BY <2>2 DEF SysInit, Init
<1>2. TypeInv /\ CountInv /\ PlacedUnlessFailed /\ SerialPublished /\ SerialAcked
        /\ SerialAnswered /\ SerialCounted /\ [SysNext]_allVars => SerialCounted'
  <2> SUFFICES ASSUME TypeInv, CountInv, PlacedUnlessFailed, SerialPublished, SerialAcked,
                      SerialAnswered, SerialCounted,
                      [SysNext]_allVars, serial', ~failed', NeverDied'
               PROVE  AckedIsCounted'
    BY DEF SerialCounted
  <2>1. ~failed /\ NeverDied
    BY NothingFailed, SystemStepsService, NeverDiedBefore
  <2>2. serial /\ OneAtATime
    BY SerialStep DEF SerialPublished, Serial
  <2> QED
    BY <2>1, <2>2, CountedStep
       DEF PlacedUnlessFailed, SerialAcked, SerialAnswered, SerialCounted
<1> QED
  BY <1>1, <1>2, SystemIsService, TypeInvariant, CountInvariant, PlacedUnlessFailedInvariant,
     SerialPublishedInvariant, SerialAckedInvariant, SerialAnsweredInvariant, PTL DEF SysSpec

\* A handler works on the request of the call it will answer.
RequestOf(k) == [usr |-> UsrOf[k.client], sign |-> FileSign, part |-> k.part, body |-> k.body]

ServInv ==
  \A h \in Handlers : serving[h] # NoCall => pc[h] # "idle" /\ req[h] = RequestOf(serving[h])

LEMMA ServInvariant == SysSpec => []ServInv
<1>1. SysInit => ServInv
  BY DEF SysInit, ServInv
<1>2. TypeInv /\ SysTypeInv /\ ServInv /\ [SysNext]_allVars => ServInv'
  <2> SUFFICES ASSUME TypeInv, SysTypeInv, ServInv, [SysNext]_allVars
               PROVE  ServInv'
    OBVIOUS
  <2>1. ASSUME UNCHANGED <<pc, req, serving>>
        PROVE  ServInv'
    BY <2>1 DEF ServInv, RequestOf
  <2>2. ASSUME Disconnect
        PROVE  ServInv'
    BY <2>2 DEF Disconnect, ServInv
  <2>3. ASSUME NEW c \in Clients, Register(c) \/ UploadOp(c) \/ Client(c)
        PROVE  UNCHANGED <<pc, req, serving>>
    BY <2>3 DEF Register, CreateUsrDir, UploadOp, Client, SendPart, TimeOut, Reconnect,
       vars, handlerVars, rpcVars
  <2>4. ASSUME NEW h \in Handlers, Deliver(h)
        PROVE  ServInv'
    <3>1. PICK k \in wire :
            /\ req'[h] = [usr |-> UsrOf[k.client], sign |-> FileSign,
                          part |-> k.part, body |-> k.body]
            /\ serving' = [serving EXCEPT ![h] = k]
      BY <2>4 DEF Deliver
    <3>2. /\ pc'[h] # "idle"
          /\ \A g \in Handlers \ {h} : pc'[g] = pc[g] /\ req'[g] = req[g]
      BY <2>4, ReceiveArrives DEF Deliver, Arrives
    <3> QED
      BY <3>1, <3>2 DEF ServInv, RequestOf, SysTypeInv, WireOK
  <2>5. ASSUME NEW h \in Handlers, Serve(h), up'
        PROVE  ServInv'
    <3>1. PartStep(h)
      BY <2>5, StepIsPartStep, DieDies DEF Serve, Dies
    <3>2. /\ pc'[h] # "idle" => req'[h] = req[h]
          /\ \A g \in Handlers \ {h} : pc'[g] = pc[g] /\ req'[g] = req[g]
      BY <3>1, PartStepOthers DEF OthersKeep
    <3>3. CASE pc'[h] # "idle" /\ UNCHANGED serving
      BY <3>2, <3>3 DEF ServInv, RequestOf
    <3>4. CASE Reply(h)
      BY <3>2, <3>4 DEF Reply, ServInv, RequestOf, SysTypeInv, WireOK
    <3> QED
      BY <2>5, <3>3, <3>4 DEF Serve
  <2>6. ASSUME NEW h \in Handlers, Serve(h), ~up'
        PROVE  Disconnect
    BY <2>6 DEF Serve
  <2>7. ServerDies => Disconnect
    BY DEF ServerDies
  <2>8. ServerStarts \/ Aftermath \/ Finished \/ UNCHANGED allVars =>
          UNCHANGED <<pc, req, serving>>
    BY DEF ServerStarts, Restart, Aftermath, ExecuteLate, OrphanEnds, Finished, allVars, vars,
       handlerVars, rpcVars
  <2> QED
    BY <2>1, <2>2, <2>3, <2>4, <2>5, <2>6, <2>7, <2>8 DEF SysNext
<1> QED
  BY <1>1, <1>2, SystemIsService, TypeInvariant, SysTypeInvariant, PTL DEF SysSpec

\* A part has its name, or its handler has just removed it to write it again.
Stands(k) == tmp[k] # Absent \/ \E h \in Handlers : pc[h] = "open" /\ key(h) = k

PartOf(c, p) == <<UsrOf[c], FileSign, p>>

\* The upload of client c has the parts before n behind it.
Reached(c, n) ==
  /\ UsrOf[c] \in homes
  /\ FileSign \in pub \/ \A p \in Parts : p < n => Stands(PartOf(c, p))

Sending == \A c \in Clients : cpc[c] \in {"send", "wait"} => Reached(c, part[c])

Shown == \A c \in Clients : shown[c] = "success" => FileSign \in pub

\* A handler checks what it wrote.
Writing ==
  \A h \in Handlers :
    /\ pc[h] = "write" => fd[h] = "tmp"
    /\ pc[h] = "md5New" => tmp[key(h)] = req[h].body

SmoothInv == Shown /\ Sending /\ Writing

LEMMA WritingStep ==
  ASSUME TypeInv, OneAtATime, "write" \notin Faults, ToBeWritten, Writing,
         NEW h \in Handlers, PartStep(h), ShortBody(req[h].body)
  PROVE  Writing'
<1>1. pc[h] # "idle" /\ OthersKeep(h) /\ key(h) \in Keys
  BY PartStepOthers, Paths DEF TypeInv
<1>2. \A g \in Handlers \ {h} : pc'[g] = "idle"
  BY <1>1 DEF OneAtATime, OthersKeep
<1>3. ASSUME pc'[h] = "write" PROVE fd'[h] = "tmp"
  <2>1. Opens(h)
    BY <1>3 DEF PartStep, Looks, Makes, Removes, Stores, Moves, Idles, GoesOn, MovesOn, AtDatabase
  <2> QED
    BY <2>1 DEF Opens, TypeInv, TypeOK
<1>4. ASSUME pc'[h] = "md5New" PROVE tmp'[key(h)'] = req'[h].body
  <2>1. Stores(h)
    BY <1>4 DEF PartStep, Looks, Makes, Removes, Opens, Moves, Idles, GoesOn, MovesOn, AtDatabase
  <2>2. fd[h] = "tmp" /\ tmp[key(h)] \in {Empty, req[h].body}
    BY <2>1 DEF Stores, Writing, ToBeWritten
  <2>3. tmp' = [tmp EXCEPT ![key(h)] = Written(req[h].body, tmp[key(h)])]
    BY <2>1, <2>2 DEF Stores, WritePart, Taken, May
  <2>4. Written(req[h].body, tmp[key(h)]) = req[h].body
    BY <2>2, ShortBodyWritten
  <2>5. req'[h] = req[h] /\ key(h)' = key(h)
    BY <2>1 DEF Stores, GoesOn, key
  <2> QED
    BY <1>1, <2>3, <2>4, <2>5 DEF TypeInv, TypeOK
<1> QED
  BY <1>2, <1>3, <1>4 DEF Writing

\* A part keeps standing until its file is published.
LEMMA StandsStep ==
  ASSUME TypeInv, PlaceInv, OneAtATime, orphans = {}, [Next]_vars,
         NEW h \in Handlers, PartStep(h), Served(h),
         pc[h] \in Beyond => req[h].sign \notin pub,
         NEW k \in Keys, Stands(k)
  PROVE  k[2] \in pub' \/ Stands(k)'
<1>1. pc[h] # "idle" /\ OthersKeep(h) /\ key(h) \in Keys
  BY PartStepOthers, Paths DEF TypeInv
<1>2. \A g \in Handlers \ {h} : pc[g] = "idle" /\ pc'[g] = "idle"
  BY <1>1 DEF OneAtATime, OthersKeep
<1> SUFFICES ASSUME k[2] \notin pub', tmp'[k] = Absent
             PROVE  \E g \in Handlers : pc'[g] = "open" /\ key(g)' = k
  BY DEF Stands
<1>3. pc'[h] # "idle" => req'[h] = req[h] /\ key(h)' = key(h)
  BY PartStepOthers DEF key
<1>4. CASE tmp[k] = Absent
  <2>1. pc[h] = "open" /\ key(h) = k
    BY <1>2, <1>4 DEF Stands
  <2>2. owner(h) \in dirs
    BY <2>1 DEF PlaceInv, Beyond, Uploading
  <2>3. pc'[h] = "write"
    BY <2>1, <2>2 DEF Served
  <2>4. Opens(h)
    BY <2>3 DEF PartStep, Looks, Makes, Removes, Stores, Moves, Idles, GoesOn, MovesOn, AtDatabase
  <2>5. Empty # Absent
    BY EmptySeq, UploadAssumption DEF Empty
  <2> QED
    BY <1>1, <1>4, <2>1, <2>4, <2>5 DEF Opens, TypeInv, TypeOK
<1>5. CASE tmp[k] # Absent
  <2>1. PICK f \in Handlers :
          (Removes(f) /\ key(f) = k) \/ (Moves(f) /\ owner(f) = <<k[1], k[2]>>)
    BY <1>5, TmpGoes
  <2>2. ~(Moves(f) /\ owner(f) = <<k[1], k[2]>>)
    BY DEF Moves, MoveToFiles
  <2>3. f = h /\ pc'[h] = "open" /\ key(h) = k
    BY <1>2, <2>1, <2>2 DEF Removes
  <2> QED
    BY <1>3, <2>3
<1> QED
  BY <1>4, <1>5

\* Without a failure a request ends with the file in the store, or with its
\* own part under its name and another one missing.
LEMMA AnswerStores ==
  ASSUME TypeInv, StoreInv, CountInv, PlaceInv, SerialAckInv, Writing, "mkdir" \notin Faults,
         NEW h \in Handlers, Serve(h), ~failed', up', pc'[h] = "idle", req[h].usr \in homes
  PROVE  \/ req[h].sign \in pub'
         \/ /\ pc[h] = "ls" /\ tmp' = tmp /\ ~AllNames(h)
            /\ tmp[key(h)] # Absent
<1>1. PartStep(h) /\ Step(h)
  BY StepIsPartStep, DieDies DEF Serve, Dies
<1>2. Works(h)
  BY DEF Serve
<1>3. /\ owner(h) \in Owners /\ req[h].sign \in Signs
      /\ owner(h)[2] = req[h].sign /\ key(h) \in PartsOf(owner(h))
  <2>1. pc[h] # "idle"
    BY <1>1, PartStepOthers
  <2>2. key(h) \in Keys /\ owner(h) \in Owners /\ req[h].sign \in Signs
    BY <2>1, Paths DEF TypeInv
  <2> QED
    BY <2>2 DEF PartsOf, key, owner
<1>4. pub \subseteq pub'
  <2>1. [Next]_vars
    BY <1>1 DEF Next
  <2> QED
    BY <2>1, StoredStep
<1>5. CASE Moves(h)
  BY <1>5 DEF Moves, MoveToFiles, owner
<1>6. CASE Looks(h) /\ pc[h] \in {"link"} \cup AtDatabase
  BY <1>3, <1>4, <1>6 DEF PlaceInv, NoDanglingLink, CountInv, LinkInv
<1>7. CASE Looks(h) /\ pc[h] = "ls"
  <2>1. ~AllNames(h) /\ tmp' = tmp
    BY <1>2, <1>7 DEF Works, At, Looks, files
  <2>2. owner(h) \notin links /\ req[h].sign \notin pub
    BY <1>3, <1>7 DEF SerialAckInv, Beyond, Uploading, PlaceInv, NoDanglingLink
  <2>3. Held(owner(h))
    BY <1>3, <2>2 DEF SerialAckInv, HeldOrStored
  <2>4. tmp[key(h)] # Absent
    BY <1>3, <1>7, <2>3 DEF Held, Opening
  <2> QED
    BY <1>7, <2>1, <2>4
<1>8. CASE Looks(h) /\ pc[h] = "mv"
  <2>1. owner(h) \in dirs /\ req[h].sign \notin pub
    BY <1>8 DEF SerialAckInv, PlaceInv, Beyond, Uploading
  <2>2. ~HasFiles(req[h].sign)
    <3>1. ASSUME NEW p \in Parts PROVE stored[<<req[h].sign, p>>] = Absent
      <4>1. <<req[h].sign, p>> \in Slots /\ <<req[h].sign, p>>[1] = req[h].sign
        BY <1>3 DEF Slots
      <4> QED
        BY <2>1, <4>1 DEF StoreInv
    <3> QED
      BY <3>1 DEF HasFiles
  <2>3. CanMove(owner(h))
    BY <1>3, <2>1, <2>2 DEF CanMove
  <2>4. owner(h) \notin dirs'
    BY <1>2, <1>8, <2>3 DEF Works, At
  <2> QED
    BY <1>8, <2>1, <2>4 DEF Looks, files
<1>9. CASE Looks(h) /\ pc[h] \in {"md5Old", "open", "md5New"}
  <2>1. pc[h] = "open" => owner(h) \in dirs
    BY DEF SerialAckInv, PlaceInv, Beyond, Uploading
  <2>2. pc[h] = "md5New" => Md5Matches(h) = {TRUE}
    <3> SUFFICES ASSUME pc[h] = "md5New" PROVE Md5Matches(h) = {TRUE}
      OBVIOUS
    <3>1. tmp[key(h)] = req[h].body /\ tmp[key(h)] # Absent
      BY Paths, UploadAssumption DEF Writing, TypeInv
    <3> QED
      BY <3>1 DEF Md5Matches
  <2> QED
    BY <1>2, <1>9, <2>1, <2>2 DEF Works, At
<1>10. CASE Looks(h) /\ pc[h] \in {"mkFiles", "existDir", "mkTmp", "existFile", "delete"}
  <2> TypeOK
    BY DEF TypeInv
  <2>1. ~\E l \in {"existDir", "link", "mkTmp", "existFile", "md5Old", "open"} : Goto(h, l)
    BY GotoTo DEF Locations
  <2>2. MkFilesDir(h) \/ ExistDir(h) \/ MkTmpDir(h) \/ ExistFile(h) \/ DeletePart(h)
    BY <1>1, <1>10 DEF Step, Md5Old, OpenPart, WritePart, Md5New, AllPartArrived, MvDir,
       LinkToUsr, SendQuery, CleanReply, RacedReply, FetchRes, Lock, At
  <2> QED
    BY <2>1, <2>2 DEF MkFilesDir, ExistDir, MkTmpDir, ExistFile, DeletePart, May
<1> QED
  <2>1. Looks(h) => pc[h] \in Locations \ {"idle", "write"}
    BY DEF Looks, TypeInv, TypeOK
  <2>2. Looks(h) \/ Moves(h)
    BY <1>1 DEF PartStep, Makes, Removes, Opens, Stores
  <2> QED
    BY <1>5, <1>6, <1>7, <1>8, <1>9, <1>10, <2>1, <2>2 DEF Locations, AtDatabase

LEMMA StepKeepsHomes ==
  ASSUME NEW h \in Handlers, Step(h)
  PROVE  homes' = homes
<1>1. CASE \/ MkFilesDir(h) \/ ExistDir(h) \/ MkTmpDir(h) \/ ExistFile(h) \/ Md5Old(h)
           \/ DeletePart(h) \/ OpenPart(h) \/ WritePart(h)
  BY <1>1 DEF MkFilesDir, ExistDir, MkTmpDir, ExistFile, Md5Old, DeletePart, OpenPart,
              WritePart, fsVars
<1>2. CASE \/ Md5New(h) \/ AllPartArrived(h) \/ MvDir(h) \/ LinkToUsr(h)
           \/ SendQuery(h) \/ CleanReply(h) \/ RacedReply(h) \/ FetchRes(h) \/ Lock(h)
  BY <1>2 DEF Md5New, AllPartArrived, MvDir, LinkToUsr, SendQuery, CleanReply,
              RacedReply, FetchRes, Lock, Die, fsVars
<1> QED
  BY <1>1, <1>2 DEF Step

LEMMA PartOfFacts ==
  ASSUME NEW c \in Clients, NEW p \in Parts
  PROVE  PartOf(c, p) \in Keys /\ PartOf(c, p)[2] = FileSign
BY ClientAssumption DEF PartOf, Keys

\* A step of a handler takes nothing from an upload.
LEMMA ServeKeepsReached ==
  ASSUME TypeInv, PlaceInv, SerialAckInv, OneAtATime, orphans = {}, [Next]_vars,
         NEW h \in Handlers, Step(h), PartStep(h), Served(h),
         NEW c \in Clients, NEW n, Reached(c, n)
  PROVE  Reached(c, n)'
<1>1. homes' = homes /\ pub \subseteq pub'
  BY StepKeepsHomes, StoredStep
<1>2. CASE FileSign \in pub
  BY <1>1, <1>2 DEF Reached
<1>3. CASE \A p \in Parts : p < n => Stands(PartOf(c, p))
  <2>1. ASSUME NEW p \in Parts, p < n, FileSign \notin pub'
        PROVE  Stands(PartOf(c, p))'
    <3>1. PICK k \in Keys : k = PartOf(c, p) /\ k[2] = FileSign
      BY PartOfFacts
    <3>2. Stands(k)
      BY <1>3, <2>1, <3>1
    <3>3. Stands(k)'
      BY <2>1, <3>1, <3>2, StandsStep DEF SerialAckInv
    <3> QED
      BY <3>1, <3>3
  <2> QED
    BY <1>1, <1>3, <2>1 DEF Reached
<1> QED
  BY <1>2, <1>3 DEF Reached

\* The answer to the call of a client that still waits for it.
LEMMA LiveAnswer ==
  ASSUME TypeInv, SysTypeInv, StoreInv, CountInv, PlaceInv, SerialAckInv, ServInv, OneAtATime,
         orphans = {}, Sending, Writing, "mkdir" \notin Faults, [Next]_vars,
         NEW h \in Handlers, Serve(h), Step(h), PartStep(h), Served(h),
         ~failed', up', pc'[h] = "idle",
         NEW c \in Clients, Live(serving[h]), serving[h].client = c,
         NEW n \in Parts, n = part[c]
  PROVE  /\ cpc[c] = "wait"
         /\ n < Shards => Reached(c, n + 1)'
         /\ n >= Shards => FileSign \in pub'
<1>1. cpc[c] = "wait" /\ serving[h] # NoCall /\ serving[h].part = n
  BY DEF Live, callOf
<1>2. req[h].usr = UsrOf[c] /\ req[h].sign = FileSign /\ req[h].part = n
  <2>1. req[h] = RequestOf(serving[h])
    BY <1>1 DEF ServInv
  <2> QED
    BY <1>1, <2>1 DEF RequestOf
<1>3. key(h) = PartOf(c, n)
  BY <1>2 DEF key, PartOf
<1>4. Reached(c, n)
  BY <1>1 DEF Sending
<1>5. Reached(c, n)'
  BY <1>4, ServeKeepsReached
<1>6. CASE FileSign \in pub'
  BY <1>1, <1>5, <1>6, UploadAssumption DEF Reached, Parts
<1>7. CASE FileSign \notin pub'
  <2>1. /\ pc[h] = "ls" /\ tmp' = tmp /\ ~AllNames(h)
        /\ tmp[key(h)] # Absent
    BY <1>2, <1>4, <1>7, AnswerStores DEF Reached
  <2>2. \A p \in Parts : p < n => Stands(PartOf(c, p))'
    BY <1>5, <1>7 DEF Reached
  <2>3. Stands(PartOf(c, n))'
    BY <1>3, <2>1 DEF Stands
  <2>4. Reached(c, n + 1)'
    <3>1. \A p \in Parts : p < n + 1 => p < n \/ p = n
      BY UploadAssumption DEF Parts
    <3> QED
      BY <1>5, <2>2, <2>3, <3>1 DEF Reached
  <2>5. n < Shards
    <3> SUFFICES ASSUME n >= Shards PROVE FALSE
      BY UploadAssumption DEF Parts
    <3>1. PICK p \in Parts : tmp[<<req[h].usr, req[h].sign, p>>] = Absent
      BY <2>1, MissingName DEF TypeInv
    <3>2. tmp[PartOf(c, p)] = Absent
      BY <1>2, <3>1 DEF PartOf
    <3>3. p # n
      BY <1>3, <2>1, <3>2
    <3>4. p < n
      BY <3>3, UploadAssumption DEF Parts
    <3>5. FileSign \notin pub
      BY <1>2, <2>1 DEF SerialAckInv, Beyond, Uploading
    <3>6. Stands(PartOf(c, p))
      BY <1>4, <3>4, <3>5 DEF Reached
    <3>7. PICK g \in Handlers : pc[g] = "open"
      BY <3>2, <3>6 DEF Stands
    <3> QED
      BY <2>1, <3>7 DEF OneAtATime
  <2> QED
    BY <1>1, <2>4, <2>5, UploadAssumption DEF Parts
<1> QED
  BY <1>6, <1>7

LEMMA SmoothServe ==
  ASSUME Faults \cap {"mkdir", "write"} = {},
         TypeInv, SysTypeInv, StoreInv, CountInv, PlaceInv, SerialAckInv, ServInv, OneAtATime,
         orphans = {}, ToBeWritten, \A g \in Handlers : pc[g] # "idle" => ShortBody(req[g].body),
         SmoothInv, [SysNext]_allVars, NEW h \in Handlers, Serve(h), ~failed', up'
  PROVE  SmoothInv'
<1>1. /\ [Next]_vars
      /\ \A g \in Handlers : AllPartArrived(g) /\ AllNames(g) => acked' = acked
  BY SystemStepsService, NothingFailed
<1>2. Step(h) /\ PartStep(h)
  BY StepIsPartStep, DieDies DEF Serve, Dies
<1>3. Served(h)
  <2>1. Works(h)
    BY DEF Serve
  <2> QED
    BY <1>1, <2>1 DEF Served, Works, At
<1>4. Writing'
  BY <1>2, PartStepOthers, WritingStep DEF SmoothInv
<1>5. pub \subseteq pub'
  BY <1>1, StoredStep
<1>6. ASSUME NEW c \in Clients, cpc[c] \in {"send", "wait"}, part'[c] = part[c]
      PROVE  Reached(c, part[c])'
  <2>1. PICK n : n = part[c] /\ n = part'[c]
    BY <1>6
  <2>2. Reached(c, n)'
    BY <1>1, <1>2, <1>3, <1>6, <2>1, ServeKeepsReached DEF SmoothInv, Sending
  <2> QED
    BY <2>1, <2>2 DEF Reached
<1>7. CASE UNCHANGED clientVars
  <2>1. Shown' /\ Sending'
    BY <1>5, <1>6, <1>7 DEF clientVars, SmoothInv, Shown, Sending
  <2> QED
    BY <1>4, <2>1 DEF SmoothInv
<1>8. CASE pc'[h] = "idle" /\ Live(serving[h]) /\ Proceed(serving[h].client)
  <2>1. PICK c \in Clients : c = serving[h].client
    BY <1>8 DEF Live, SysTypeInv, WireOK, Call
  <2>2. PICK n \in Parts : n = part[c]
    BY DEF SysTypeInv, ClientOK
  <2>3. /\ cpc[c] = "wait"
        /\ n < Shards => Reached(c, n + 1)'
        /\ n >= Shards => FileSign \in pub'
    BY <1>1, <1>2, <1>3, <1>8, <2>1, <2>2, LiveAnswer DEF SmoothInv
  <2>4. \A d \in Clients \ {c} : cpc'[d] = cpc[d] /\ part'[d] = part[d] /\ shown'[d] = shown[d]
    BY <1>8, <2>1 DEF Proceed, SysTypeInv, ClientOK
  <2>5. CASE n < Shards
    <3>1. part'[c] = n + 1 /\ shown' = shown
      BY <1>8, <2>1, <2>2, <2>5 DEF Proceed, SysTypeInv, ClientOK
    <3>2. Reached(c, part[c])'
      BY <2>3, <2>5, <3>1 DEF Reached
    <3>3. Sending'
      BY <1>6, <2>4, <3>2 DEF Sending
    <3>4. Shown'
      BY <1>5, <3>1 DEF SmoothInv, Shown
    <3> QED
      BY <1>4, <3>3, <3>4 DEF SmoothInv
  <2>6. CASE n >= Shards
    <3>1. cpc'[c] = "menu"
      BY <1>8, <2>1, <2>2, <2>6, UploadAssumption DEF Proceed, SysTypeInv, ClientOK, Parts
    <3>2. Sending'
      BY <1>6, <2>4, <3>1 DEF Sending
    <3>3. Shown'
      BY <2>3, <2>6 DEF Shown
    <3> QED
      BY <1>4, <3>2, <3>3 DEF SmoothInv
  <2> QED
    BY <2>2, <2>5, <2>6, UploadAssumption DEF Parts
<1> QED
  BY <1>7, <1>8 DEF Serve, Reply

\* The steps of the clients, and those that arrive at an idle service.
LEMMA SmoothFrame ==
  ASSUME SmoothInv, UNCHANGED <<tmp, pub, fd, part, shown>>, homes \subseteq homes',
         \/ UNCHANGED <<pc, req>>
         \/ /\ \A h \in Handlers : pc[h] = "idle"
            /\ \A h \in Handlers : pc'[h] \in {"idle", "mkFiles"},
         \A c \in Clients : cpc'[c] \in {"send", "wait"} => cpc[c] \in {"send", "wait"}
  PROVE  SmoothInv'
<1>1. Shown'
  BY DEF SmoothInv, Shown
<1>2. Writing'
  BY DEF SmoothInv, Writing, key
<1>3. \A k : Stands(k) => Stands(k)'
  BY DEF Stands, key
<1>4. Sending'
  BY <1>3 DEF SmoothInv, Sending, Reached, PartOf
<1> QED
  BY <1>1, <1>2, <1>4 DEF SmoothInv

LEMMA SmoothClient ==
  ASSUME SysTypeInv, SmoothInv, NEW c \in Clients, UploadOp(c) \/ Client(c), smooth'
  PROVE  SmoothInv'
<1>1. UNCHANGED <<tmp, pub, fd, homes, pc, req>>
  BY DEF UploadOp, Client, SendPart, TimeOut, Reconnect, vars
<1>2. CASE SendPart(c)
  <2>1. UNCHANGED <<part, shown>>
    BY <1>2 DEF SendPart
  <2>2. \A d \in Clients : cpc'[d] \in {"send", "wait"} => cpc[d] \in {"send", "wait"}
    BY <1>2 DEF SendPart, SysTypeInv, ClientOK
  <2> QED
    BY <1>1, <2>1, <2>2, SmoothFrame
<1>3. CASE UploadOp(c)
  <2>1. UNCHANGED shown /\ \A d \in Clients \ {c} : cpc'[d] = cpc[d] /\ part'[d] = part[d]
    BY <1>3 DEF UploadOp, Show, SysTypeInv, ClientOK
  <2>2. \/ cpc'[c] = "dead"
        \/ part'[c] = 1 /\ UsrOf[c] \in homes
    BY <1>3 DEF UploadOp, Show, SysTypeInv, ClientOK
  <2>3. \A k : Stands(k) => Stands(k)'
    BY <1>1 DEF Stands, key
  <2>4. cpc'[c] \in {"send", "wait"} => Reached(c, part[c])'
    BY <1>1, <2>2, UploadAssumption DEF Reached, Parts
  <2>5. Sending'
    BY <1>1, <2>1, <2>3, <2>4 DEF SmoothInv, Sending, Reached, PartOf
  <2>6. Shown' /\ Writing'
    BY <1>1, <2>1 DEF SmoothInv, Shown, Writing, key
  <2> QED
    BY <2>5, <2>6 DEF SmoothInv
<1>4. ~TimeOut(c) /\ ~Reconnect(c)
  BY DEF TimeOut, Reconnect
<1> QED
  BY <1>2, <1>3, <1>4 DEF Client

LEMMA SmoothStep ==
  ASSUME Faults \cap {"mkdir", "write"} = {},
         TypeInv, SysTypeInv, StoreInv, CountInv, PlaceInv, SerialAckInv, ServInv, OneAtATime,
         orphans = {}, ToBeWritten, \A g \in Handlers : pc[g] # "idle" => ShortBody(req[g].body),
         SmoothInv, [SysNext]_allVars, serial', smooth', ~failed', up'
  PROVE  SmoothInv'
<1>1. ASSUME NEW c \in Clients, Register(c)
      PROVE  SmoothInv'
  <2>1. /\ UNCHANGED <<tmp, pub, fd, part, shown, pc, req, cpc>>
        /\ homes \subseteq homes'
    BY <1>1 DEF Register, CreateUsrDir, handlerVars, clientVars
  <2> QED
    BY <2>1, SmoothFrame
<1>2. ASSUME NEW h \in Handlers, Deliver(h)
      PROVE  SmoothInv'
  <2>1. UNCHANGED <<tmp, pub, fd, homes, part, shown, cpc>>
    BY <1>2 DEF Deliver, Receive, fsVars, clientVars
  <2>2. \A g \in Handlers : pc[g] = "idle"
    BY <1>2 DEF Deliver, At
  <2>3. \A g \in Handlers : pc'[g] \in {"idle", "mkFiles"}
    BY <1>2, <2>2, ReceiveArrives DEF Deliver, Arrives
  <2> QED
    BY <2>1, <2>2, <2>3, SmoothFrame
<1>3. ~ServerDies
  BY DEF ServerDies, Kill, Die
<1>4. ServerStarts \/ Finished \/ UNCHANGED allVars => SmoothInv'
  <2>1. ServerStarts \/ Finished \/ UNCHANGED allVars =>
          UNCHANGED <<tmp, pub, fd, homes, part, shown, pc, req, cpc>>
    BY DEF ServerStarts, Restart, Finished, allVars, vars, handlerVars, fsVars, clientVars
  <2> QED
    BY <2>1, SmoothFrame
<1>5. Aftermath => SmoothInv'
  <2>1. Aftermath => UNCHANGED <<tmp, pub, fd, homes, part, shown, pc, req, cpc>>
    BY DEF Aftermath, ExecuteLate, handlerVars, fsVars, clientVars
  <2> QED
    BY <2>1, SmoothFrame
<1> QED
  BY <1>1, <1>2, <1>3, <1>4, <1>5, SmoothClient, SmoothServe DEF SysNext

Smooth == smooth /\ serial /\ ~failed /\ NeverDied => SmoothInv

LEMMA SmoothInvariant ==
  ASSUME Faults \cap {"mkdir", "write", "remove"} = {},
         \A p \in Parts : \A b \in BodiesOf(p) : Len(b) <= WRITE_LEN
  PROVE  SysSpec => []Smooth
<1> DEFINE Inv == /\ TypeInv /\ SysTypeInv /\ StoreInv /\ CountInv /\ BodyInv /\ ServInv
                  /\ PlacedUnlessFailed /\ SerialPublished /\ NoOrphans /\ SerialAcked
                  /\ FileWhole
<1>1. SysInit => Smooth
  BY DEF SysInit, Init, Smooth, SmoothInv, Shown, Sending, Writing
<1>2. Inv /\ Smooth /\ [SysNext]_allVars => Smooth'
  <2> SUFFICES ASSUME Inv, Smooth, [SysNext]_allVars,
                      smooth', serial', ~failed', NeverDied'
               PROVE  SmoothInv'
    BY DEF Smooth
  <2>1. ~failed /\ NeverDied /\ up'
    BY NothingFailed, SystemStepsService, NeverDiedBefore DEF NeverDied
  <2>2. serial /\ OneAtATime
    BY SerialStep DEF SerialPublished, Serial
  <2>3. smooth
    BY DEF SysNext, Register, UploadOp, Client, SendPart, TimeOut, Reconnect, Deliver, Serve,
       ServerDies, ServerStarts, Aftermath, Finished, allVars, histVars, SysTypeInv, HistOK
  <2>4. ToBeWritten
    BY <2>1, <2>2 DEF FileWhole, WholeInv
  <2>5. ASSUME NEW g \in Handlers, pc[g] # "idle"
        PROVE  ShortBody(req[g].body)
    <3>1. <<req[g].part, req[g].body>> \in FilePieces
      BY <2>5, RequestsFit DEF Fits
    <3> QED
      BY <3>1, BodiesAreShort
  <2> QED
    BY <2>1, <2>2, <2>3, <2>4, <2>5, SmoothStep
       DEF PlacedUnlessFailed, NoOrphans, SerialAcked, Smooth
<1>3. SysSpec => []FileWhole
  BY FileWholeInvariant
<1>4. SysSpec => []Inv
  BY <1>3, SystemIsService, TypeInvariant, SysTypeInvariant, StoreInvariant, CountInvariant,
     BodyInvariant, ServInvariant, PlacedUnlessFailedInvariant, SerialPublishedInvariant,
     NoOrphansInvariant, SerialAckedInvariant, PTL
<1> HIDE DEF Inv
<1> QED
  BY <1>1, <1>2, <1>4, PTL DEF SysSpec

(***************************************************************************)
(* The user who reads "success" has the file in the store, when no call    *)
(* timed out or broke, the server worked on one request at a time, no      *)
(* opendir, open, popen or mv of it failed, and it did not die; and when   *)
(* every part was answered with success, the user has a link to it that is *)
(* counted.  For any number of clients, of one user or of several.  mkdir, *)
(* write and DeleteFile must work and a part must fit one write; symlink   *)
(* and the statements may fail.                                            *)
(***************************************************************************)
THEOREM SmoothUploadStored ==
  ASSUME Faults \cap {"mkdir", "write", "remove"} = {},
         \A p \in Parts : \A b \in BodiesOf(p) : Len(b) <= WRITE_LEN
  PROVE  SysSpec => []SmoothUploadIsStored
<1>1. Smooth /\ SerialAcked /\ SerialCounted => SmoothUploadIsStored
  <2> SUFFICES ASSUME Smooth, SerialAcked, SerialCounted,
                      smooth, serial, ~failed, NeverDied,
                      NEW c \in Clients, shown[c] = "success"
               PROVE  /\ FileSign \in pub
                      /\ (\A p \in Parts : <<UsrOf[c], FileSign, p>> \in acked) =>
                           <<UsrOf[c], FileSign>> \in links /\ ref[FileSign] > 0
    BY DEF SmoothUploadIsStored
  <2>1. FileSign \in pub
    BY DEF Smooth, SmoothInv, Shown
  <2>2. ASSUME \A p \in Parts : <<UsrOf[c], FileSign, p>> \in acked
        PROVE  <<UsrOf[c], FileSign>> \in links /\ ref[FileSign] > 0
    <3>1. PICK o \in Owners : o = <<UsrOf[c], FileSign>>
      BY ClientAssumption DEF Owners
    <3>2. ASSUME NEW k \in PartsOf(o) PROVE k \in acked
      <4>1. k = <<UsrOf[c], FileSign, k[3]>> /\ k[3] \in Parts
        BY <3>1 DEF PartsOf, Keys
      <4> QED
        BY <2>2, <4>1
    <3>3. o \in links
      BY <3>2 DEF SerialAcked, SerialAckInv, HeldOrStored
    <3>4. ref[o[2]] > 0
      BY <3>2 DEF SerialCounted, AckedIsCounted
    <3> QED
      BY <3>1, <3>3, <3>4
  <2> QED
    BY <2>1, <2>2
<1> QED
  BY <1>1, SmoothInvariant, SerialAckedInvariant, SerialCountedInvariant, PTL
=============================================================================
