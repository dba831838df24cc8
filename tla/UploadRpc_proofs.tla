-------------------------- MODULE UploadRpc_proofs --------------------------
(***************************************************************************)
(* Theorems about the upload service for any number of handlers, users,    *)
(* files and parts, any bodies, any number of deliveries and restarts.     *)
(* Unless a theorem says otherwise every call of the environment may fail. *)
(***************************************************************************)
EXTENDS UploadRpc, FileSys_proofs

(***************************************************************************)
(* Type correctness.  TypeOK alone is not inductive: that Write finds a    *)
(* file behind its descriptor needs FdInv, which relates the descriptor to *)
(* the place the file is at, and ReqInv, since the paths of a handler are  *)
(* those of its request.                                                   *)
(***************************************************************************)
ControlOK ==
  /\ pc \in [Handlers -> Locations]
  /\ req \in [Handlers -> Request \cup {NoReq}]
  /\ cmd \in [Handlers -> Statements]
  /\ acked \subseteq Keys

ReqInv == \A h \in Handlers : pc[h] # "idle" => req[h] \in Request

FdInv ==
  \A h \in Handlers :
    /\ fd[h] # "none" => pc[h] = "write"
    /\ fd[h] = "tmp" => tmp[key(h)] # Absent
    /\ fd[h] = "pub" => req[h].sign \in pub /\ stored[slot(h)] # Absent

TypeInv == TypeOK /\ ReqInv /\ FdInv

\* The paths of a request.
LEMMA Paths ==
  ASSUME TypeOK, ReqInv, NEW h \in Handlers, pc[h] # "idle"
  PROVE  /\ req[h] \in Request
         /\ req[h].usr \in Users /\ req[h].sign \in Signs /\ req[h].part \in Parts
         /\ req[h].body \in Seq(Byte)
         /\ owner(h) \in Owners /\ key(h) \in Keys /\ slot(h) \in Slots
BY UploadAssumption DEF ReqInv, Request, Owners, Keys, Slots, owner, key, slot

(***************************************************************************)
(* What every step of a handler does to the control variables: only the    *)
(* entries of that handler change, and its request goes only with its      *)
(* return.                                                                 *)
(***************************************************************************)
ControlStep(h) ==
  /\ \E l \in Locations :
       /\ pc' = [pc EXCEPT ![h] = l]
       /\ \/ req' = req
          \/ l = "idle" /\ req' = [req EXCEPT ![h] = NoReq]
  /\ \E c \in Statements : cmd' = [cmd EXCEPT ![h] = c]
  /\ acked' \in {acked, acked \cup {key(h)}}

LEMMA GotoIsControlStep ==
  ASSUME TypeOK, NEW h \in Handlers, NEW l \in Locations, Goto(h, l)
  PROVE  ControlStep(h)
<1>1. cmd' = [cmd EXCEPT ![h] = cmd[h]] /\ cmd[h] \in Statements
  BY DEF TypeOK, Goto
<1> QED
  BY <1>1 DEF Goto, ControlStep

LEMMA RunIsControlStep ==
  ASSUME NEW h \in Handlers, NEW l \in Locations, NEW c \in Statements, Run(h, c, l)
  PROVE  ControlStep(h)
BY DEF Run, ControlStep

LEMMA ReturnIsControlStep ==
  ASSUME NEW h \in Handlers, NEW res \in BOOLEAN, Return(h, res)
  PROVE  ControlStep(h)
<1>1. "idle" \in Locations /\ "none" \in Statements
  BY DEF Locations, Statements
<1> QED
  BY <1>1 DEF Return, ControlStep

LEMMA ControlType ==
  ASSUME TypeOK, ReqInv, NEW h \in Handlers, pc[h] # "idle", ControlStep(h)
  PROVE  ControlOK' /\ ReqInv'
<1>1. key(h) \in Keys /\ req[h] \in Request
  BY Paths
<1> PICK l \in Locations :
      /\ pc' = [pc EXCEPT ![h] = l]
      /\ \/ req' = req
         \/ l = "idle" /\ req' = [req EXCEPT ![h] = NoReq]
  BY DEF ControlStep
<1> PICK c \in Statements : cmd' = [cmd EXCEPT ![h] = c]
  BY DEF ControlStep
<1>2. ControlOK'
  BY <1>1 DEF TypeOK, ControlOK, ControlStep
<1>3. ReqInv'
  BY <1>1 DEF TypeOK, ReqInv
<1> QED
  BY <1>2, <1>3

(***************************************************************************)
(* A handler without a descriptor does not disturb FdInv as long as the    *)
(* files stay where they are.                                              *)
(***************************************************************************)
LEMMA FdFrame ==
  ASSUME TypeInv, NEW h \in Handlers, pc[h] # "write", ControlStep(h),
         UNCHANGED <<fd, tmp, pub, stored>>
  PROVE  FdInv'
<1>1. fd[h] = "none"
  BY DEF TypeInv, FdInv
<1>2. ASSUME NEW g \in Handlers, g # h
      PROVE  pc'[g] = pc[g] /\ req'[g] = req[g]
  BY <1>2 DEF TypeInv, TypeOK, ControlStep
<1> QED
  BY <1>1, <1>2 DEF TypeInv, FdInv, key, slot

\* The rest of TypeOK.
StateOK ==
  /\ fd \in [Handlers -> Descriptors]
  /\ homes \subseteq Users /\ dirs \subseteq Owners
  /\ pub \subseteq Signs /\ links \subseteq Owners
  /\ tmp \in [Keys -> Content]
  /\ stored \in [Slots -> Content]
  /\ ref \in [Signs -> Nat] /\ late \in [Writes -> Nat]
  /\ mutex \in Handlers \cup {NoHandler}
  /\ result \in Results /\ mixed \in BOOLEAN
  /\ up \in BOOLEAN /\ restarts \in Nat /\ orphans \subseteq Orphan
  /\ delivered \in [Keys -> Nat]

LEMMA TypeParts == TypeOK <=> ControlOK /\ StateOK
BY DEF TypeOK, ControlOK, StateOK

\* Steps that leave the files and the descriptors alone.
LEMMA QuietStepType ==
  ASSUME TypeInv, NEW h \in Handlers, pc[h] \notin {"idle", "write"},
         ControlStep(h), UNCHANGED <<fd, tmp, pub, stored>>, StateOK'
  PROVE  TypeInv'
<1>1. ControlOK' /\ ReqInv'
  BY ControlType DEF TypeInv
<1>2. FdInv'
  BY FdFrame
<1> QED
  BY <1>1, <1>2, TypeParts DEF TypeInv, TypeOK, ControlOK, StateOK

LEMMA LocalStepType ==
  ASSUME TypeInv, NEW h \in Handlers, pc[h] \notin {"idle", "write"},
         ControlStep(h), UNCHANGED <<fd, fsVars, ref, connVars, worldVars>>
  PROVE  TypeInv'
<1>1. StateOK'
  BY DEF TypeInv, TypeOK, StateOK, fsVars, connVars, worldVars
<1> QED
  BY <1>1, QuietStepType DEF fsVars

LEMMA LocalStepsType ==
  ASSUME TypeInv, NEW h \in Handlers,
         \/ MkFilesDir(h) \/ ExistDir(h) \/ ExistFile(h) \/ Md5Old(h)
         \/ Md5New(h) \/ AllPartArrived(h)
  PROVE  TypeInv'
<1>1. pc[h] \notin {"idle", "write"} /\ UNCHANGED <<fd, fsVars, ref, connVars, worldVars>>
  BY DEF MkFilesDir, ExistDir, ExistFile, Md5Old, Md5New, AllPartArrived, At
<1>2. \/ \E l \in Locations : Goto(h, l)
      \/ \E res \in BOOLEAN : Return(h, res)
  <2>1. CASE MkFilesDir(h) \/ ExistDir(h)
    BY <2>1 DEF MkFilesDir, ExistDir, Locations
  <2>2. CASE ExistFile(h)
    BY <2>2 DEF ExistFile, Locations
  <2>3. CASE Md5Old(h)
    BY <2>3 DEF Md5Old, Locations
  <2>4. CASE Md5New(h) \/ AllPartArrived(h)
    BY <2>4 DEF Md5New, AllPartArrived, Locations
  <2> QED
    BY <2>1, <2>2, <2>3, <2>4
<1>3. ControlStep(h)
  BY <1>2, GotoIsControlStep, ReturnIsControlStep DEF TypeInv
<1> QED
  BY <1>1, <1>3, LocalStepType

LEMMA ReceiveType ==
  ASSUME TypeInv, NEW h \in Handlers, Receive(h)
  PROVE  TypeInv'
<1> PICK k \in Keys, b \in Bodies :
      /\ delivered' = [delivered EXCEPT ![k] = @ + 1]
      /\ req' = [req EXCEPT ![h] =
                   [usr |-> k[1], sign |-> k[2], part |-> k[3], body |-> b]]
  BY DEF Receive
<1>1. [usr |-> k[1], sign |-> k[2], part |-> k[3], body |-> b] \in Request
  BY DEF Keys, Request
<1>2. /\ pc[h] = "idle" /\ pc' = [pc EXCEPT ![h] = "mkFiles"]
      /\ UNCHANGED <<cmd, fd, acked, ref, late, up, orphans, restarts>>
      /\ UNCHANGED <<homes, dirs, tmp, pub, stored, links, mutex, result, mixed>>
  BY DEF Receive, At, fsVars, connVars
<1>3. ControlOK' /\ ReqInv'
  BY <1>1, <1>2 DEF TypeInv, TypeOK, ControlOK, ReqInv, Locations
<1>4. StateOK'
  BY <1>2 DEF TypeInv, TypeOK, StateOK
<1>5. FdInv'
  <2>1. ASSUME NEW g \in Handlers, g # h
        PROVE  pc'[g] = pc[g] /\ req'[g] = req[g]
    BY <1>2, <2>1 DEF TypeInv, TypeOK
  <2>2. fd'[h] = "none"
    BY <1>2 DEF TypeInv, FdInv
  <2> QED
    BY <1>2, <2>1, <2>2 DEF TypeInv, FdInv, key, slot
<1> QED
  BY <1>3, <1>4, <1>5, TypeParts DEF TypeInv, TypeOK, ControlOK, StateOK

LEMMA MkTmpDirType ==
  ASSUME TypeInv, NEW h \in Handlers, MkTmpDir(h)
  PROVE  TypeInv'
<1>1. pc[h] = "mkTmp" /\ owner(h) \in Owners
  BY Paths DEF TypeInv, MkTmpDir, At
<1>2. ControlStep(h)
  BY GotoIsControlStep, ReturnIsControlStep DEF TypeInv, MkTmpDir, Locations
<1>3. StateOK'
  BY <1>1 DEF TypeInv, TypeOK, StateOK, MkTmpDir, connVars, worldVars
<1> QED
  BY <1>1, <1>2, <1>3, QuietStepType DEF MkTmpDir

LEMMA DeletePartType ==
  ASSUME TypeInv, NEW h \in Handlers, DeletePart(h)
  PROVE  TypeInv'
<1>1. /\ pc[h] = "delete" /\ Goto(h, "open") /\ key(h) \in Keys
      /\ UNCHANGED <<homes, dirs, pub, stored, links, ref, connVars, worldVars>>
  BY Paths DEF TypeInv, DeletePart, At
<1>2. ControlStep(h)
  BY <1>1, GotoIsControlStep DEF TypeInv, Locations
<1>3. ControlOK' /\ ReqInv'
  BY <1>1, <1>2, ControlType DEF TypeInv
<1>4. CASE UNCHANGED <<tmp, fd>>
  <2>1. StateOK'
    BY <1>1, <1>4 DEF TypeInv, TypeOK, StateOK, connVars, worldVars
  <2> QED
    BY <1>1, <1>2, <1>4, <2>1, QuietStepType
<1>5. CASE /\ tmp' = Removed(h)
           /\ fd' = [g \in Handlers |->
                 IF fd[g] = "tmp" /\ key(g) = key(h) THEN "gone" ELSE fd[g]]
  <2>1. StateOK'
    BY <1>1, <1>5 DEF TypeInv, TypeOK, StateOK, Removed, Content, Descriptors,
                      connVars, worldVars
  <2>2. req' = req /\ pc' = [pc EXCEPT ![h] = "open"]
    BY <1>1 DEF Goto
  <2>3. fd[h] = "none"
    BY <1>1 DEF TypeInv, FdInv
  <2>4. FdInv'
    <3> SUFFICES ASSUME NEW g \in Handlers
                 PROVE  /\ fd'[g] # "none" => pc'[g] = "write"
                        /\ fd'[g] = "tmp" => tmp'[key(g)'] # Absent
                        /\ fd'[g] = "pub" => /\ req'[g].sign \in pub'
                                             /\ stored'[slot(g)'] # Absent
      BY DEF FdInv
    <3>1. key(g)' = key(g) /\ slot(g)' = slot(g)
      BY <2>2 DEF key, slot
    <3>2. fd'[g] # "none" => pc'[g] = "write"
      BY <1>5, <2>2, <2>3 DEF TypeInv, TypeOK, FdInv
    <3>3. ASSUME fd'[g] = "tmp" PROVE tmp'[key(g)] # Absent
      <4>1. fd[g] = "tmp" /\ key(g) # key(h)
        BY <1>5, <3>3
      <4>2. key(g) \in Keys /\ tmp[key(g)] # Absent
        BY <4>1, Paths DEF TypeInv, FdInv
      <4> QED
        BY <1>5, <4>1, <4>2 DEF Removed, TypeInv, TypeOK
    <3>4. fd'[g] = "pub" => req'[g].sign \in pub' /\ stored'[slot(g)] # Absent
      BY <1>1, <1>5, <2>2 DEF TypeInv, FdInv
    <3> QED
      BY <3>1, <3>2, <3>3, <3>4
  <2> QED
    BY <1>3, <2>1, <2>4, TypeParts DEF TypeInv, TypeOK, ControlOK, StateOK
<1> QED
  BY <1>4, <1>5 DEF DeletePart

LEMMA OpenPartType ==
  ASSUME TypeInv, NEW h \in Handlers, OpenPart(h)
  PROVE  TypeInv'
<1>1. /\ pc[h] = "open" /\ key(h) \in Keys
      /\ UNCHANGED <<homes, dirs, pub, stored, links, ref, connVars, worldVars>>
  BY Paths DEF TypeInv, OpenPart, At
<1>2. ControlStep(h)
  BY GotoIsControlStep, ReturnIsControlStep DEF TypeInv, OpenPart, Locations
<1>3. ControlOK' /\ ReqInv'
  BY <1>1, <1>2, ControlType DEF TypeInv
<1>4. CASE UNCHANGED <<tmp, fd>>
  <2>1. StateOK'
    BY <1>1, <1>4 DEF TypeInv, TypeOK, StateOK, connVars, worldVars
  <2> QED
    BY <1>1, <1>2, <1>4, <2>1, QuietStepType
<1>5. CASE /\ tmp' = [tmp EXCEPT ![key(h)] = IF @ = Absent THEN Empty ELSE @]
           /\ fd' = [fd EXCEPT ![h] = "tmp"]
           /\ Goto(h, "write")
  <2>1. Empty \in Seq(Byte) /\ Empty # Absent
    BY EmptySeq, UploadAssumption DEF Empty
  <2>2. StateOK'
    BY <1>1, <1>5, <2>1 DEF TypeInv, TypeOK, StateOK, Content, Descriptors,
                            connVars, worldVars
  <2>3. req' = req /\ pc' = [pc EXCEPT ![h] = "write"]
    BY <1>5 DEF Goto
  <2>4. \A k \in Keys : tmp[k] # Absent => tmp'[k] # Absent
    BY <1>5, <2>1 DEF TypeInv, TypeOK
  <2>5. tmp'[key(h)] # Absent
    BY <1>1, <1>5, <2>1 DEF TypeInv, TypeOK
  <2>6. FdInv'
    <3> SUFFICES ASSUME NEW g \in Handlers
                 PROVE  /\ fd'[g] # "none" => pc'[g] = "write"
                        /\ fd'[g] = "tmp" => tmp'[key(g)'] # Absent
                        /\ fd'[g] = "pub" => /\ req'[g].sign \in pub'
                                             /\ stored'[slot(g)'] # Absent
      BY DEF FdInv
    <3>1. key(g)' = key(g) /\ slot(g)' = slot(g)
      BY <2>3 DEF key, slot
    <3>2. CASE g = h
      BY <1>5, <2>3, <2>5, <3>1, <3>2 DEF TypeInv, TypeOK
    <3>3. CASE g # h
      <4>1. fd'[g] = fd[g] /\ pc'[g] = pc[g] /\ req'[g] = req[g]
        BY <1>5, <2>3, <3>3 DEF TypeInv, TypeOK
      <4>2. fd[g] = "tmp" => key(g) \in Keys
        BY Paths DEF TypeInv, FdInv
      <4> QED
        BY <1>1, <2>4, <3>1, <4>1, <4>2 DEF TypeInv, FdInv
    <3> QED
      BY <3>2, <3>3
  <2> QED
    BY <1>3, <2>2, <2>6, TypeParts DEF TypeInv, TypeOK, ControlOK, StateOK
<1> QED
  BY <1>4, <1>5 DEF OpenPart

\* The bytes write() takes are a sequence of bytes.
LEMMA TakenType ==
  ASSUME TypeInv, NEW h \in Handlers, pc[h] # "idle", NEW bytes \in Taken(h)
  PROVE  bytes \in Seq(Byte)
<1> DEFINE body == req[h].body
<1>1. body \in Seq(Byte)
  BY Paths DEF TypeInv
<1>2. Len(body) \in Nat
  BY <1>1, LenProperties
<1>3. ASSUME NEW n \in 0 .. Len(body)
      PROVE  SubSeq(body, 1, n) \in Seq(Byte)
  <2>1. \A i \in 1 .. n : body[i] \in Byte
    BY <1>1, <1>2, ElementOfSeq
  <2> QED
    BY <1>2, <2>1, SubSeqProperties
<1> QED
  BY <1>1, <1>3 DEF Taken

LEMMA WritePartType ==
  ASSUME TypeInv, NEW h \in Handlers, WritePart(h)
  PROVE  TypeInv'
<1>1. /\ pc[h] = "write" /\ Goto(h, "md5New")
      /\ fd' = [fd EXCEPT ![h] = "none"]
      /\ UNCHANGED <<homes, dirs, pub, links, ref, connVars, worldVars>>
  BY DEF WritePart, At
<1>2. key(h) \in Keys /\ slot(h) \in Slots
  BY <1>1, Paths DEF TypeInv
<1>3. ControlOK' /\ ReqInv'
  BY <1>1, GotoIsControlStep, ControlType DEF TypeInv, Locations
<1> PICK bytes \in Taken(h) :
      /\ tmp' = IF fd[h] = "tmp"
                THEN [tmp EXCEPT ![key(h)] = Written(bytes, @)] ELSE tmp
      /\ stored' = IF fd[h] = "pub"
                   THEN [stored EXCEPT ![slot(h)] = Written(bytes, @)] ELSE stored
  BY DEF WritePart
<1>4. bytes \in Seq(Byte)
  BY <1>1, TakenType
<1>5. fd[h] = "tmp" => Written(bytes, tmp[key(h)]) \in Seq(Byte)
  <2>1. fd[h] = "tmp" => tmp[key(h)] \in Seq(Byte)
    BY <1>2 DEF TypeInv, TypeOK, FdInv, Content
  <2> QED
    BY <1>4, <2>1, WrittenType
<1>6. fd[h] = "pub" => Written(bytes, stored[slot(h)]) \in Seq(Byte)
  <2>1. fd[h] = "pub" => stored[slot(h)] \in Seq(Byte)
    BY <1>2 DEF TypeInv, TypeOK, FdInv, Content
  <2> QED
    BY <1>4, <2>1, WrittenType
<1>7. StateOK'
  <2>1. tmp' \in [Keys -> Content] /\ stored' \in [Slots -> Content]
    BY <1>5, <1>6 DEF TypeInv, TypeOK, Content
  <2> QED
    BY <1>1, <2>1 DEF TypeInv, TypeOK, StateOK, Descriptors, connVars, worldVars
<1>8. \A k \in Keys : tmp[k] # Absent => tmp'[k] # Absent
  BY <1>5, UploadAssumption DEF TypeInv, TypeOK
<1>9. \A s \in Slots : stored[s] # Absent => stored'[s] # Absent
  BY <1>6, UploadAssumption DEF TypeInv, TypeOK
<1>10. FdInv'
  <2> SUFFICES ASSUME NEW g \in Handlers
               PROVE  /\ fd'[g] # "none" => pc'[g] = "write"
                      /\ fd'[g] = "tmp" => tmp'[key(g)'] # Absent
                      /\ fd'[g] = "pub" => /\ req'[g].sign \in pub'
                                           /\ stored'[slot(g)'] # Absent
    BY DEF FdInv
  <2>1. req' = req /\ pc' = [pc EXCEPT ![h] = "md5New"]
    BY <1>1 DEF Goto
  <2>2. key(g)' = key(g) /\ slot(g)' = slot(g)
    BY <2>1 DEF key, slot
  <2>3. CASE g = h
    BY <1>1, <2>3 DEF TypeInv, TypeOK
  <2>4. CASE g # h
    <3>1. fd'[g] = fd[g] /\ pc'[g] = pc[g]
      BY <1>1, <2>1, <2>4 DEF TypeInv, TypeOK
    <3>2. fd[g] # "none" => key(g) \in Keys /\ slot(g) \in Slots
      BY Paths DEF TypeInv, FdInv
    <3> QED
      BY <1>1, <1>8, <1>9, <2>1, <2>2, <3>1, <3>2 DEF TypeInv, FdInv
  <2> QED
    BY <2>3, <2>4
<1> QED
  BY <1>3, <1>7, <1>10, TypeParts DEF TypeInv, TypeOK, ControlOK, StateOK

(***************************************************************************)
(* The move.  A descriptor on a part of the moved directory now refers to  *)
(* the published part, and no descriptor referred to a part of a published *)
(* file of that sign, because there was none.                              *)
(***************************************************************************)
LEMMA AfterMvIsControlStep ==
  ASSUME TypeInv, NEW h \in Handlers, AfterMv(h) \/ Goto(h, "link")
  PROVE  ControlStep(h)
BY GotoIsControlStep, ReturnIsControlStep DEF TypeInv, AfterMv, Locations

LEMMA MoveType ==
  ASSUME TypeInv, NEW o \in Owners, CanMove(o), MoveToFiles(o),
         \A g \in Handlers : pc[g] = "write" => pc'[g] = pc[g] /\ req'[g] = req[g]
  PROVE  /\ FdInv'
         /\ dirs' \subseteq Owners /\ pub' \subseteq Signs
         /\ fd' \in [Handlers -> Descriptors]
         /\ tmp' \in [Keys -> Content] /\ stored' \in [Slots -> Content]
<1>1. o[1] \in Users /\ o[2] \in Signs /\ o = <<o[1], o[2]>>
  BY DEF Owners
<1>2. /\ pub' = pub \cup {o[2]}
      /\ dirs' = dirs \ {o}
      /\ stored' = [s \in Slots |-> IF s[1] = o[2]
                                    THEN tmp[<<o[1], s[1], s[2]>>] ELSE stored[s]]
      /\ tmp' = [k \in Keys |-> IF <<k[1], k[2]>> = o THEN Absent ELSE tmp[k]]
      /\ fd' = [g \in Handlers |->
                  IF fd[g] = "tmp" /\ owner(g) = o THEN "pub" ELSE fd[g]]
  BY DEF MoveToFiles, AfterRename
<1>3. stored' \in [Slots -> Content]
  <2>1. \A s \in Slots : s[1] = o[2] => <<o[1], s[1], s[2]>> \in Keys
    BY <1>1 DEF Slots, Keys
  <2> QED
    BY <1>2, <2>1 DEF TypeInv, TypeOK
<1>4. tmp' \in [Keys -> Content]
  BY <1>2 DEF TypeInv, TypeOK, Content
<1>5. fd' \in [Handlers -> Descriptors] /\ dirs' \subseteq Owners /\ pub' \subseteq Signs
  BY <1>1, <1>2 DEF TypeInv, TypeOK, Descriptors
<1>6. FdInv'
  <2> SUFFICES ASSUME NEW g \in Handlers, fd'[g] # "none"
               PROVE  /\ pc'[g] = "write"
                      /\ fd'[g] = "tmp" => tmp'[key(g)'] # Absent
                      /\ fd'[g] = "pub" => /\ req'[g].sign \in pub'
                                           /\ stored'[slot(g)'] # Absent
    BY DEF FdInv
  <2>1. fd[g] # "none" /\ pc[g] = "write"
    BY <1>2 DEF TypeInv, FdInv
  <2>2. pc'[g] = pc[g] /\ req'[g] = req[g]
    BY <2>1
  <2>3. /\ key(g)' = key(g) /\ slot(g)' = slot(g)
        /\ key(g) \in Keys /\ slot(g) \in Slots
        /\ key(g) = <<req[g].usr, req[g].sign, req[g].part>>
        /\ slot(g) = <<req[g].sign, req[g].part>>
        /\ owner(g) = <<req[g].usr, req[g].sign>>
    BY <2>1, <2>2, Paths DEF TypeInv, key, slot, owner
  <2>4. ASSUME fd'[g] = "tmp" PROVE tmp'[key(g)] # Absent
    <3>1. fd[g] = "tmp" /\ owner(g) # o
      BY <1>2, <2>4
    <3> QED
      BY <1>2, <2>3, <3>1 DEF TypeInv, FdInv
  <2>5. ASSUME fd'[g] = "pub"
        PROVE  req[g].sign \in pub' /\ stored'[slot(g)] # Absent
    <3>1. CASE fd[g] = "tmp" /\ owner(g) = o
      <4>1. req[g].usr = o[1] /\ req[g].sign = o[2]
        BY <2>3, <3>1
      <4>2. stored'[slot(g)] = tmp[key(g)]
        BY <1>2, <2>3, <4>1
      <4> QED
        BY <1>2, <3>1, <4>1, <4>2 DEF TypeInv, FdInv
    <3>2. CASE fd[g] = "pub"
      <4>1. req[g].sign \in pub /\ req[g].sign # o[2]
        BY <2>3, <3>2, Paths, <2>1 DEF TypeInv, FdInv, CanMove, HasFiles, slot
      <4>2. stored'[slot(g)] = stored[slot(g)]
        BY <1>2, <2>3, <4>1
      <4> QED
        BY <1>2, <3>2, <4>1, <4>2 DEF TypeInv, FdInv
    <3> QED
      BY <1>2, <2>5, <3>1, <3>2
  <2> QED
    BY <2>1, <2>2, <2>3, <2>4, <2>5
<1> QED
  BY <1>3, <1>4, <1>5, <1>6

LEMMA MvDirType ==
  ASSUME TypeInv, NEW h \in Handlers, MvDir(h)
  PROVE  TypeInv'
<1>1. pc[h] = "mv" /\ UNCHANGED <<homes, links, ref, connVars, worldVars>>
  BY DEF MvDir, At
<1>2. CASE CanMove(owner(h)) /\ MoveToFiles(owner(h)) /\ AfterMv(h)
  <2>1. ControlStep(h) /\ owner(h) \in Owners
    BY <1>1, <1>2, AfterMvIsControlStep, Paths DEF TypeInv
  <2>2. ControlOK' /\ ReqInv'
    BY <1>1, <2>1, ControlType DEF TypeInv
  <2>3. \A g \in Handlers : pc[g] = "write" => pc'[g] = pc[g] /\ req'[g] = req[g]
    BY <1>1, <2>1 DEF ControlStep, TypeInv, TypeOK
  <2>4. /\ FdInv'
        /\ dirs' \subseteq Owners /\ pub' \subseteq Signs
        /\ fd' \in [Handlers -> Descriptors]
        /\ tmp' \in [Keys -> Content] /\ stored' \in [Slots -> Content]
    BY <1>2, <2>1, <2>3, MoveType
  <2>5. StateOK'
    BY <1>1, <2>4 DEF TypeInv, TypeOK, StateOK, connVars, worldVars
  <2> QED
    BY <2>2, <2>4, <2>5, TypeParts DEF TypeInv, TypeOK, ControlOK, StateOK
<1>3. CASE /\ UNCHANGED <<dirs, pub, stored, tmp, fd>>
           /\ AfterMv(h) \/ Goto(h, "link")
  <2>1. ControlStep(h)
    BY <1>3, AfterMvIsControlStep
  <2> QED
    BY <1>1, <1>3, <2>1, LocalStepType DEF fsVars
<1> QED
  BY <1>2, <1>3 DEF MvDir

LEMMA LinkToUsrType ==
  ASSUME TypeInv, NEW h \in Handlers, LinkToUsr(h)
  PROVE  TypeInv'
<1>1. pc[h] = "link" /\ owner(h) \in Owners
  BY Paths DEF TypeInv, LinkToUsr, At
<1>2. ControlStep(h)
  BY RunIsControlStep, ReturnIsControlStep
     DEF TypeInv, LinkToUsr, Locations, Statements
<1>3. StateOK'
  BY <1>1 DEF TypeInv, TypeOK, StateOK, LinkToUsr, connVars, worldVars
<1> QED
  BY <1>1, <1>2, <1>3, QuietStepType DEF LinkToUsr

\* The connection and the table.
LEMMA UnlockedType ==
  ASSUME TypeInv, NEW h \in Handlers
  PROVE  Unlocked(h) \in Handlers \cup {NoHandler}
BY DEF Unlocked, TypeInv, TypeOK

LEMMA ExecutedType ==
  ASSUME TypeInv, NEW s \in Signs, NEW c
  PROVE  Executed(c, s) \in Nat
BY DEF Executed, TypeInv, TypeOK

LEMMA LeftType ==
  ASSUME TypeInv, NEW h \in Handlers
  PROVE  Left(h) \in [Writes -> Nat]
<1>1. late \in [Writes -> Nat]
  BY DEF TypeInv, TypeOK
<1> DEFINE w == <<cmd[h], req[h].sign>>
<1>2. [late EXCEPT ![w] = late[w] + 1] \in [Writes -> Nat]
  <2> HIDE DEF w
  <2>1. CASE w \in Writes
    BY <1>1, <2>1
  <2>2. CASE w \notin Writes
    <3>1. [late EXCEPT ![w] = late[w] + 1] = late
      BY <1>1, <2>2
    <3> QED
      BY <1>1, <3>1
  <2> QED
    BY <2>1, <2>2
<1> QED
  BY <1>1, <1>2 DEF Left

LEMMA SendQueryType ==
  ASSUME TypeInv, NEW h \in Handlers, SendQuery(h)
  PROVE  TypeInv'
<1>1. pc[h] = "query" /\ UNCHANGED <<fd, fsVars, ref, result, worldVars>>
  BY DEF SendQuery, At
<1>2. ControlStep(h)
  BY GotoIsControlStep, ReturnIsControlStep DEF TypeInv, SendQuery, Locations
<1>3. mutex' \in Handlers \cup {NoHandler} /\ mixed' \in BOOLEAN
  BY UnlockedType DEF SendQuery, TypeInv, TypeOK
<1>4. StateOK'
  BY <1>1, <1>3 DEF TypeInv, TypeOK, StateOK, fsVars, worldVars
<1> QED
  BY <1>1, <1>2, <1>4, QuietStepType DEF fsVars

LEMMA AnsweredType ==
  ASSUME TypeInv, NEW h \in Handlers, pc[h] = "await",
         NEW executed \in BOOLEAN, NEW ok \in BOOLEAN, Answered(h, executed, ok)
  PROVE  /\ ControlStep(h)
         /\ ref' \in [Signs -> Nat] /\ late' \in [Writes -> Nat]
         /\ mutex' \in Handlers \cup {NoHandler}
<1>1. ControlStep(h)
  BY GotoIsControlStep, ReturnIsControlStep DEF TypeInv, Answered, Locations
<1>2. ref' \in [Signs -> Nat] /\ late' \in [Writes -> Nat]
  <2>1. req[h].sign \in Signs
    BY Paths DEF TypeInv
  <2>2. Executed(cmd[h], req[h].sign) \in Nat
    BY <2>1, ExecutedType
  <2> QED
    BY <2>1, <2>2, LeftType DEF Answered, Ran, TypeInv, TypeOK
<1>3. mutex' \in Handlers \cup {NoHandler}
  BY UnlockedType DEF Answered, TypeInv, TypeOK
<1> QED
  BY <1>1, <1>2, <1>3

LEMMA ReplyType ==
  ASSUME TypeInv, NEW h \in Handlers, CleanReply(h) \/ RacedReply(h)
  PROVE  TypeInv'
<1>1. /\ pc[h] = "await"
      /\ UNCHANGED <<fd, fsVars, up, orphans, restarts, delivered, mixed>>
  BY DEF CleanReply, RacedReply, At
<1>2. \E executed, ok \in BOOLEAN : Answered(h, executed, ok)
  <2>1. Succeeds(cmd[h], req[h].sign) \in BOOLEAN
    BY DEF Succeeds
  <2> QED
    BY <2>1 DEF CleanReply, RacedReply
<1>3. /\ ControlStep(h)
      /\ ref' \in [Signs -> Nat] /\ late' \in [Writes -> Nat]
      /\ mutex' \in Handlers \cup {NoHandler}
  BY <1>1, <1>2, AnsweredType
<1>4. result' \in Results
  BY DEF CleanReply, RacedReply, Results, TypeInv, TypeOK
<1>5. StateOK'
  BY <1>1, <1>3, <1>4 DEF TypeInv, TypeOK, StateOK, fsVars
<1> QED
  BY <1>1, <1>3, <1>5, QuietStepType DEF fsVars

LEMMA DieType ==
  ASSUME TypeInv, Die
  PROVE  TypeInv'
<1>1. ControlOK' /\ ReqInv'
  BY DEF TypeInv, TypeOK, ControlOK, ReqInv, Die, Locations, Statements
<1>2. orphans' \subseteq Orphan
  <2> PICK alive \in SUBSET {h \in Handlers : pc[h] = "mv"} :
        orphans' = orphans \cup {<<restarts, h, owner(h)>> : h \in alive}
    BY DEF Die
  <2>1. ASSUME NEW h \in alive PROVE <<restarts, h, owner(h)>> \in Orphan
    BY Paths DEF TypeInv, TypeOK, Orphan
  <2> QED
    BY <2>1 DEF TypeInv, TypeOK
<1>4. late' \in [Writes -> Nat]
  BY LeftType DEF Die, Awaiting, TypeInv, TypeOK
<1>5. StateOK'
  BY <1>2, <1>4 DEF TypeInv, TypeOK, StateOK, Die, Descriptors, Results, fsVars
<1>3. FdInv'
  BY DEF Die, FdInv
<1> QED
  BY <1>1, <1>3, <1>5, TypeParts DEF TypeInv, TypeOK, ControlOK, StateOK

LEMMA FetchResType ==
  ASSUME TypeInv, NEW h \in Handlers, FetchRes(h)
  PROVE  TypeInv'
<1>1. pc[h] = "fetch"
  BY DEF FetchRes, At
<1>2. CASE /\ \E r \in Fetchable \ {"none"} :
                Run(h, IF r = "row" THEN "update" ELSE "insert", "lock")
           /\ result' = "none"
           /\ UNCHANGED <<fd, fsVars, ref, mutex, mixed, worldVars>>
  <2>1. ControlStep(h)
    BY <1>2, RunIsControlStep DEF Locations, Statements
  <2>2. StateOK'
    BY <1>2 DEF TypeInv, TypeOK, StateOK, Results, fsVars, worldVars
  <2> QED
    BY <1>1, <1>2, <2>1, <2>2, QuietStepType DEF fsVars
<1>3. CASE Die
  BY <1>3, DieType
<1> QED
  BY <1>2, <1>3 DEF FetchRes

LEMMA LockType ==
  ASSUME TypeInv, NEW h \in Handlers, Lock(h)
  PROVE  TypeInv'
<1>1. pc[h] = "lock" /\ UNCHANGED <<fd, fsVars, ref, result, mixed, worldVars>>
  BY DEF Lock, At
<1>2. ControlStep(h)
  BY GotoIsControlStep DEF Lock, TypeInv, Locations
<1>3. StateOK'
  BY <1>1 DEF Lock, Locked, TypeInv, TypeOK, StateOK, fsVars, worldVars
<1> QED
  BY <1>1, <1>2, <1>3, QuietStepType DEF fsVars

\* Steps that touch neither a request nor a descriptor.
LEMMA WorldType ==
  ASSUME TypeInv,
         \/ \E u \in Users : CreateUsrDir(u)
         \/ \E w \in Writes : ExecuteLate(w)
         \/ Restart
         \/ UNCHANGED vars
  PROVE  TypeInv'
<1>1. UNCHANGED <<pc, req, cmd, fd, acked, tmp, pub, stored>>
  BY DEF CreateUsrDir, ExecuteLate, Restart, vars, handlerVars, fsVars
<1>2. StateOK'
  <2>1. CASE \E u \in Users : CreateUsrDir(u)
    BY <2>1 DEF TypeInv, TypeOK, StateOK, CreateUsrDir, handlerVars, connVars, worldVars
  <2>2. CASE Restart
    BY <2>2 DEF TypeInv, TypeOK, StateOK, Restart, handlerVars, fsVars, connVars
  <2>4. ASSUME NEW w \in Writes, ExecuteLate(w) PROVE StateOK'
    <3>1. late' \in [Writes -> Nat]
      BY <2>4 DEF ExecuteLate, TypeInv, TypeOK
    <3>2. ref' \in [Signs -> Nat]
      <4>1. w[2] \in Signs
        BY DEF Writes
      <4> QED
        BY <2>4, <4>1, ExecutedType DEF ExecuteLate, TypeInv, TypeOK
    <3> QED
      BY <2>4, <3>1, <3>2 DEF ExecuteLate, TypeInv, TypeOK, StateOK, handlerVars, fsVars, connVars
  <2>3. CASE UNCHANGED vars
    BY <2>3 DEF TypeInv, TypeOK, StateOK, vars
  <2> QED
    BY <2>1, <2>2, <2>3, <2>4
<1>3. ControlOK' /\ ReqInv'
  BY <1>1 DEF TypeInv, TypeOK, ControlOK, ReqInv
<1>4. FdInv'
  BY <1>1 DEF TypeInv, FdInv, key, slot
<1> QED
  BY <1>2, <1>3, <1>4, TypeParts DEF TypeInv, TypeOK, ControlOK, StateOK

LEMMA OrphanType ==
  ASSUME TypeInv, NEW x \in orphans, OrphanEnds(x)
  PROVE  TypeInv'
<1>1. x[3] \in Owners
  BY DEF TypeInv, TypeOK, Orphan
<1>2. /\ UNCHANGED <<pc, req, cmd, homes, links, ref, connVars, late, up, restarts,
                     delivered, acked>>
      /\ orphans' \subseteq orphans
  BY DEF OrphanEnds
<1>3. ControlOK' /\ ReqInv'
  BY <1>2 DEF TypeInv, TypeOK, ControlOK, ReqInv
<1>4. /\ FdInv'
      /\ dirs' \subseteq Owners /\ pub' \subseteq Signs
      /\ fd' \in [Handlers -> Descriptors]
      /\ tmp' \in [Keys -> Content] /\ stored' \in [Slots -> Content]
  <2>1. CASE CanMove(x[3]) /\ MoveToFiles(x[3])
    BY <1>1, <1>2, <2>1, MoveType
  <2>2. CASE UNCHANGED <<dirs, pub, stored, tmp, fd>>
    BY <1>2, <2>2 DEF TypeInv, TypeOK, FdInv, key, slot
  <2> QED
    BY <2>1, <2>2 DEF OrphanEnds
<1>5. StateOK'
  BY <1>2, <1>4 DEF TypeInv, TypeOK, StateOK, connVars
<1> QED
  BY <1>3, <1>4, <1>5, TypeParts DEF TypeInv, TypeOK, ControlOK, StateOK

LEMMA InitType == Init => TypeInv
<1> SUFFICES ASSUME Init PROVE TypeInv
  OBVIOUS
<1>1. TypeOK
  BY DEF Init, TypeOK, Locations, Statements, Descriptors, Results, Content, Orphan
<1> QED
  BY <1>1 DEF Init, TypeInv, ReqInv, FdInv

LEMMA NextType == TypeInv /\ [Next]_vars => TypeInv'
<1> SUFFICES ASSUME TypeInv, [Next]_vars PROVE TypeInv'
  OBVIOUS
<1>1. ASSUME NEW h \in Handlers, Receive(h) \/ Step(h)
      PROVE  TypeInv'
  BY <1>1, ReceiveType, LocalStepsType, MkTmpDirType, DeletePartType,
     OpenPartType, WritePartType, MvDirType, LinkToUsrType, SendQueryType,
     ReplyType, FetchResType, LockType DEF Step
<1>2. CASE Kill
  BY <1>2, DieType DEF Kill
<1>3. CASE \/ \E u \in Users : CreateUsrDir(u)
           \/ \E w \in Writes : ExecuteLate(w)
           \/ Restart \/ Drained \/ UNCHANGED vars
  BY <1>3, WorldType DEF Drained
<1>4. CASE \E x \in orphans : OrphanEnds(x)
  BY <1>4, OrphanType
<1> QED
  BY <1>1, <1>2, <1>3, <1>4 DEF Next

(***************************************************************************)
(* Type correctness: in particular Write is only ever applied to a file    *)
(* that exists, whatever was moved or removed since it was opened.         *)
(***************************************************************************)
THEOREM TypeInvariant == Spec => []TypeInv
<1> QED
  BY InitType, NextType, PTL DEF Spec

THEOREM TypeCorrect == Spec => []TypeOK
<1>1. TypeInv => TypeOK
  BY DEF TypeInv
<1> QED
  BY <1>1, TypeInvariant, PTL
-----------------------------------------------------------------------------
(***************************************************************************)
(* The mutex and the reference count.  Two facts make WritesAreSerial and  *)
(* CountedFilesAreLinked inductive: a handler holds the mutex exactly      *)
(* while it is at one of the two locked statements, and a handler that     *)
(* reached the database has made its link, which outlives it.              *)
(***************************************************************************)
AtDatabase == {"query", "await", "fetch", "lock"}

SqlInv ==
  \A h \in Handlers :
    /\ pc[h] = "lock" => cmd[h] \in {"insert", "update"}
    /\ pc[h] \in {"query", "await"} => cmd[h] # "none"
    /\ mutex = h <=> /\ pc[h] \in {"query", "await"}
                    /\ cmd[h] \in {"insert", "update"}

LinkInv == \A h \in Handlers : pc[h] \in AtDatabase => owner(h) \in links

\* So has the thread of a statement that MySQL has yet to execute.
LateInv ==
  \A w \in Writes : late[w] > 0 => \E u \in Users : <<u, w[2]>> \in links

CountInv == SqlInv /\ LinkInv /\ LateInv /\ CountedFilesAreLinked

\* The other handlers stay where they are.
OthersKeep(h) ==
  \A g \in Handlers \ {h} :
    pc'[g] = pc[g] /\ req'[g] = req[g] /\ cmd'[g] = cmd[g]

LEMMA ControlStepOthers ==
  ASSUME TypeOK, NEW h \in Handlers, ControlStep(h)
  PROVE  OthersKeep(h)
BY DEF TypeOK, ControlStep, OthersKeep

\* Steps of a handler on its way to the link.
LEMMA CountFrame ==
  ASSUME TypeInv, CountInv, NEW h \in Handlers, OthersKeep(h),
         pc[h] \notin AtDatabase, pc'[h] \notin AtDatabase,
         UNCHANGED <<mutex, links, ref, late>>
  PROVE  CountInv'
<1>1. SqlInv'
  BY DEF CountInv, SqlInv, OthersKeep, AtDatabase
<1>2. LinkInv'
  BY DEF CountInv, LinkInv, OthersKeep, owner
<1>3. CountedFilesAreLinked' /\ LateInv'
  BY DEF CountInv, CountedFilesAreLinked, LateInv
<1> QED
  BY <1>1, <1>2, <1>3 DEF CountInv

\* Goto and Return, with the location the handler ends at.
LEMMA GotoTo ==
  ASSUME TypeOK, NEW h \in Handlers, NEW l \in Locations, Goto(h, l)
  PROVE  OthersKeep(h) /\ pc'[h] = l /\ cmd'[h] = cmd[h] /\ req'[h] = req[h]
BY DEF TypeOK, Goto, OthersKeep

LEMMA ReturnTo ==
  ASSUME TypeOK, NEW h \in Handlers, NEW res \in BOOLEAN, Return(h, res)
  PROVE  OthersKeep(h) /\ pc'[h] = "idle"
BY DEF TypeOK, Return, OthersKeep

LEMMA RunTo ==
  ASSUME TypeOK, NEW h \in Handlers, NEW l \in Locations, NEW c \in Statements,
         Run(h, c, l)
  PROVE  OthersKeep(h) /\ pc'[h] = l /\ cmd'[h] = c /\ req'[h] = req[h]
BY DEF TypeOK, Run, OthersKeep

LEMMA EarlySteps ==
  ASSUME TypeInv, CountInv, NEW h \in Handlers,
         \/ Receive(h) \/ MkFilesDir(h) \/ ExistDir(h) \/ MkTmpDir(h)
         \/ ExistFile(h) \/ Md5Old(h) \/ DeletePart(h) \/ OpenPart(h)
         \/ WritePart(h) \/ Md5New(h) \/ AllPartArrived(h) \/ MvDir(h)
  PROVE  CountInv'
<1>1. TypeOK
  BY DEF TypeInv
<1>2. CASE Receive(h)
  <2>1. /\ pc[h] = "idle" /\ pc' = [pc EXCEPT ![h] = "mkFiles"]
        /\ \E r : req' = [req EXCEPT ![h] = r]
        /\ UNCHANGED <<cmd, mutex, links, ref, late>>
    BY <1>2 DEF Receive, At, fsVars, connVars, worldVars
  <2>2. OthersKeep(h) /\ pc'[h] = "mkFiles"
    BY <1>1, <2>1 DEF TypeOK, OthersKeep
  <2> QED
    BY <2>1, <2>2, CountFrame DEF AtDatabase
<1>3. CASE \/ MkFilesDir(h) \/ ExistDir(h) \/ MkTmpDir(h) \/ ExistFile(h)
           \/ Md5Old(h) \/ Md5New(h)
  <2>1. /\ pc[h] \notin AtDatabase /\ UNCHANGED <<mutex, links, ref, late>>
        /\ \/ \E l \in Locations \ AtDatabase : Goto(h, l)
           \/ Return(h, FALSE)
    BY <1>3 DEF MkFilesDir, ExistDir, MkTmpDir, ExistFile, Md5Old, Md5New, At,
                AtDatabase, Locations, fsVars, connVars, worldVars
  <2>2. OthersKeep(h) /\ pc'[h] \notin AtDatabase
    BY <1>1, <2>1, GotoTo, ReturnTo DEF AtDatabase
  <2> QED
    BY <2>1, <2>2, CountFrame
<1>4. CASE DeletePart(h) \/ OpenPart(h) \/ WritePart(h) \/ AllPartArrived(h) \/ MvDir(h)
  <2>1. /\ pc[h] \notin AtDatabase /\ UNCHANGED <<mutex, links, ref, late>>
        /\ \/ \E l \in Locations \ AtDatabase : Goto(h, l)
           \/ \E res \in BOOLEAN : Return(h, res)
    BY <1>4 DEF DeletePart, OpenPart, WritePart, AllPartArrived, MvDir, AfterMv, At,
                AtDatabase, Locations, fsVars, connVars, worldVars
  <2>2. OthersKeep(h) /\ pc'[h] \notin AtDatabase
    BY <1>1, <2>1, GotoTo, ReturnTo DEF AtDatabase
  <2> QED
    BY <2>1, <2>2, CountFrame
<1> QED
  BY <1>2, <1>3, <1>4

LEMMA LinkToUsrCount ==
  ASSUME TypeInv, CountInv, NEW h \in Handlers, LinkToUsr(h)
  PROVE  CountInv'
<1>1. pc[h] = "link" /\ UNCHANGED <<mutex, ref, late>>
  BY DEF LinkToUsr, At, connVars, worldVars
<1>2. CASE UNCHANGED links /\ Return(h, FALSE)
  <2>1. OthersKeep(h) /\ pc'[h] = "idle"
    BY <1>2, ReturnTo DEF TypeInv
  <2> QED
    BY <1>1, <1>2, <2>1, CountFrame DEF AtDatabase
<1>3. CASE links' = links \cup {owner(h)} /\ Run(h, "select", "query")
  <2>1. /\ OthersKeep(h)
        /\ pc'[h] = "query" /\ cmd'[h] = "select" /\ req'[h] = req[h]
    BY <1>3, RunTo DEF TypeInv, Locations, Statements
  <2>2. SqlInv'
    BY <1>1, <2>1 DEF CountInv, SqlInv, OthersKeep
  <2>3. LinkInv'
    BY <1>3, <2>1 DEF CountInv, LinkInv, OthersKeep, owner
  <2>4. CountedFilesAreLinked' /\ LateInv'
    BY <1>1, <1>3 DEF CountInv, CountedFilesAreLinked, LateInv
  <2> QED
    BY <2>2, <2>3, <2>4 DEF CountInv
<1> QED
  BY <1>2, <1>3 DEF LinkToUsr

\* Letting go of the mutex and returning, from a statement.
LEMMA ReturnFromStatement ==
  ASSUME TypeInv, SqlInv, NEW h \in Handlers, NEW res \in BOOLEAN,
         Return(h, res), mutex' = Unlocked(h)
  PROVE  SqlInv'
<1>1. OthersKeep(h) /\ pc'[h] = "idle"
  BY ReturnTo DEF TypeInv
<1>2. NoHandler \notin Handlers
  BY UploadAssumption
<1> QED
  BY <1>1, <1>2 DEF SqlInv, OthersKeep, Unlocked

LEMMA SendQueryCount ==
  ASSUME TypeInv, CountInv, NEW h \in Handlers, SendQuery(h)
  PROVE  CountInv'
<1>1. pc[h] = "query" /\ UNCHANGED <<links, ref, late>>
  BY DEF SendQuery, At, fsVars, worldVars
<1>2. CASE Goto(h, "await") /\ UNCHANGED mutex
  <2>1. OthersKeep(h) /\ pc'[h] = "await" /\ cmd'[h] = cmd[h] /\ req'[h] = req[h]
    BY <1>2, GotoTo DEF TypeInv, Locations
  <2>2. SqlInv'
    BY <1>1, <1>2, <2>1 DEF CountInv, SqlInv, OthersKeep
  <2>3. LinkInv'
    BY <1>1, <2>1 DEF CountInv, LinkInv, OthersKeep, owner, AtDatabase
  <2> QED
    BY <1>1, <2>2, <2>3 DEF CountInv, CountedFilesAreLinked, LateInv
<1>3. CASE mutex' = Unlocked(h) /\ Return(h, FALSE)
  <2>1. SqlInv'
    BY <1>3, ReturnFromStatement DEF CountInv
  <2>2. OthersKeep(h) /\ pc'[h] = "idle"
    BY <1>3, ReturnTo DEF TypeInv
  <2>3. LinkInv'
    BY <1>1, <2>2 DEF CountInv, LinkInv, OthersKeep, owner, AtDatabase
  <2> QED
    BY <1>1, <2>1, <2>3 DEF CountInv, CountedFilesAreLinked, LateInv
<1> QED
  BY <1>2, <1>3 DEF SendQuery

\* A statement changes the count of its own sign only, by one.
LEMMA AnsweredRef ==
  ASSUME TypeInv, NEW h \in Handlers, pc[h] = "await",
         NEW executed \in BOOLEAN, NEW ok \in BOOLEAN, Answered(h, executed, ok),
         NEW s \in Signs, ref'[s] # ref[s]
  PROVE  /\ s = req[h].sign /\ ref'[s] = ref[s] + 1
         /\ cmd[h] \in {"insert", "update"}
BY DEF Answered, Ran, Executed, TypeInv, TypeOK

\* A statement that is left comes from a handler that made its link.
LEMMA LeftLinked ==
  ASSUME TypeInv, CountInv, NEW h \in Handlers, pc[h] = "await",
         late' \in {late, Left(h)}, UNCHANGED links
  PROVE  LateInv'
<1> SUFFICES ASSUME NEW w \in Writes, late'[w] > 0
             PROVE  \E u \in Users : <<u, w[2]>> \in links'
  BY DEF LateInv
<1>1. CASE late[w] > 0
  BY <1>1 DEF CountInv, LateInv
<1>2. CASE ~(late[w] > 0)
  <2>1. w = <<cmd[h], req[h].sign>>
    BY <1>2 DEF Left, TypeInv, TypeOK
  <2>2. owner(h) \in links /\ req[h].usr \in Users
    BY Paths DEF CountInv, LinkInv, AtDatabase, TypeInv
  <2> QED
    BY <2>1, <2>2 DEF owner
<1> QED
  BY <1>1, <1>2

LEMMA ReplyCount ==
  ASSUME TypeInv, CountInv, NEW h \in Handlers, CleanReply(h) \/ RacedReply(h)
  PROVE  CountInv'
<1>1. pc[h] = "await" /\ UNCHANGED links
  BY DEF CleanReply, RacedReply, At, fsVars
<1>2. PICK executed, ok \in BOOLEAN : Answered(h, executed, ok)
  <2>1. Succeeds(cmd[h], req[h].sign) \in BOOLEAN
    BY DEF Succeeds
  <2> QED
    BY <2>1 DEF CleanReply, RacedReply
<1>3. CountedFilesAreLinked'
  <2> SUFFICES ASSUME NEW s \in Signs, ref'[s] > 0
               PROVE  \E u \in Users : <<u, s>> \in links'
    BY DEF CountedFilesAreLinked
  <2>1. CASE ref'[s] = ref[s]
    BY <1>1, <2>1 DEF CountInv, CountedFilesAreLinked
  <2>2. CASE ref'[s] # ref[s]
    <3>1. s = req[h].sign
      BY <1>1, <1>2, <2>2, AnsweredRef
    <3>2. owner(h) \in links /\ req[h].usr \in Users
      BY <1>1, Paths DEF CountInv, LinkInv, AtDatabase, TypeInv
    <3> QED
      BY <1>1, <3>1, <3>2 DEF owner
  <2> QED
    BY <2>1, <2>2
<1>6. LateInv'
  BY <1>1, <1>2, LeftLinked DEF Answered, Ran
<1>4. CASE Goto(h, "fetch") /\ UNCHANGED mutex /\ cmd[h] = "select"
  <2>1. OthersKeep(h) /\ pc'[h] = "fetch" /\ cmd'[h] = cmd[h] /\ req'[h] = req[h]
    BY <1>4, GotoTo DEF TypeInv, Locations
  <2>2. SqlInv'
    BY <1>1, <1>4, <2>1 DEF CountInv, SqlInv, OthersKeep
  <2>3. LinkInv'
    BY <1>1, <2>1 DEF CountInv, LinkInv, OthersKeep, owner, AtDatabase
  <2> QED
    BY <1>3, <1>6, <2>2, <2>3 DEF CountInv
<1>5. CASE Return(h, ok) /\ mutex' = Unlocked(h)
  <2>1. SqlInv'
    BY <1>5, ReturnFromStatement DEF CountInv
  <2>2. OthersKeep(h) /\ pc'[h] = "idle"
    BY <1>5, ReturnTo DEF TypeInv
  <2>3. LinkInv'
    BY <1>1, <2>2 DEF CountInv, LinkInv, OthersKeep, owner, AtDatabase
  <2> QED
    BY <1>3, <1>6, <2>1, <2>3 DEF CountInv
<1> QED
  BY <1>2, <1>4, <1>5 DEF Answered

LEMMA DieCount ==
  ASSUME TypeInv, CountInv, Die
  PROVE  CountInv'
<1>1. SqlInv'
  BY UploadAssumption DEF Die, SqlInv
<1>2. LinkInv'
  BY DEF Die, LinkInv, AtDatabase
<1>3. CountedFilesAreLinked'
  BY DEF Die, fsVars, CountInv, CountedFilesAreLinked
<1>4. LateInv'
  <2>1. CASE late' = late
    BY <2>1 DEF Die, fsVars, CountInv, LateInv
  <2>2. ASSUME NEW h \in Awaiting, late' = Left(h) PROVE LateInv'
    BY <2>2, LeftLinked DEF Awaiting, Die, fsVars
  <2> QED
    BY <2>1, <2>2 DEF Die
<1> QED
  BY <1>1, <1>2, <1>3, <1>4 DEF CountInv

LEMMA FetchResCount ==
  ASSUME TypeInv, CountInv, NEW h \in Handlers, FetchRes(h)
  PROVE  CountInv'
<1>1. pc[h] = "fetch"
  BY DEF FetchRes, At
<1>2. CASE /\ \E r \in Fetchable \ {"none"} :
                Run(h, IF r = "row" THEN "update" ELSE "insert", "lock")
           /\ UNCHANGED <<fd, fsVars, ref, mutex, mixed, worldVars>>
  <2>1. /\ OthersKeep(h) /\ pc'[h] = "lock" /\ req'[h] = req[h]
        /\ cmd'[h] \in {"insert", "update"}
    BY <1>2, RunTo DEF TypeInv, Locations, Statements
  <2>2. SqlInv'
    BY <1>1, <1>2, <2>1 DEF CountInv, SqlInv, OthersKeep
  <2>3. LinkInv'
    BY <1>1, <1>2, <2>1 DEF CountInv, LinkInv, OthersKeep, owner, AtDatabase, fsVars
  <2> QED
    BY <1>2, <2>2, <2>3 DEF CountInv, CountedFilesAreLinked, LateInv, fsVars, worldVars
<1>3. CASE Die
  BY <1>3, DieCount
<1> QED
  BY <1>2, <1>3 DEF FetchRes

LEMMA LockCount ==
  ASSUME TypeInv, CountInv, NEW h \in Handlers, Lock(h)
  PROVE  CountInv'
<1>1. /\ pc[h] = "lock" /\ mutex = NoHandler /\ mutex' = h /\ Goto(h, "query")
      /\ UNCHANGED <<links, ref, late>>
  BY DEF Lock, At, MutexFree, Locked, fsVars, worldVars
<1>2. OthersKeep(h) /\ pc'[h] = "query" /\ cmd'[h] = cmd[h] /\ req'[h] = req[h]
  BY <1>1, GotoTo DEF TypeInv, Locations
<1>3. SqlInv'
  <2>1. NoHandler \notin Handlers
    BY UploadAssumption
  <2> QED
    BY <1>1, <1>2, <2>1 DEF CountInv, SqlInv, OthersKeep
<1>4. LinkInv'
  BY <1>1, <1>2 DEF CountInv, LinkInv, OthersKeep, owner, AtDatabase
<1> QED
  BY <1>1, <1>3, <1>4 DEF CountInv, CountedFilesAreLinked, LateInv

LEMMA ExecuteLateRef ==
  ASSUME TypeInv, NEW w \in Writes, ExecuteLate(w), NEW s \in Signs, ref'[s] # ref[s]
  PROVE  s = w[2] /\ ref'[s] = ref[s] + 1
BY DEF ExecuteLate, Executed, TypeInv, TypeOK

LEMMA ExecuteLateCount ==
  ASSUME TypeInv, CountInv, NEW w \in Writes, ExecuteLate(w)
  PROVE  CountInv'
<1>1. UNCHANGED <<pc, req, cmd, links, mutex>>
  BY DEF ExecuteLate, handlerVars, fsVars, connVars
<1>2. SqlInv' /\ LinkInv'
  BY <1>1 DEF CountInv, SqlInv, LinkInv, owner
<1>3. LateInv'
  BY <1>1 DEF CountInv, LateInv, ExecuteLate, TypeInv, TypeOK
<1>4. CountedFilesAreLinked'
  <2> SUFFICES ASSUME NEW s \in Signs, ref'[s] > 0
               PROVE  \E u \in Users : <<u, s>> \in links'
    BY DEF CountedFilesAreLinked
  <2>1. CASE ref'[s] = ref[s]
    BY <1>1, <2>1 DEF CountInv, CountedFilesAreLinked
  <2>2. CASE ref'[s] # ref[s]
    BY <1>1, <2>2, ExecuteLateRef DEF CountInv, LateInv, ExecuteLate
  <2> QED
    BY <2>1, <2>2
<1> QED
  BY <1>2, <1>3, <1>4 DEF CountInv

LEMMA WorldCount ==
  ASSUME CountInv,
         \/ \E u \in Users : CreateUsrDir(u)
         \/ \E x \in orphans : OrphanEnds(x)
         \/ Restart
         \/ UNCHANGED vars
  PROVE  CountInv'
<1>1. UNCHANGED <<pc, req, cmd, links, ref, late, mutex>>
  BY DEF CreateUsrDir, OrphanEnds, Restart, vars, handlerVars, fsVars, connVars, worldVars
<1> QED
  BY <1>1 DEF CountInv, SqlInv, LinkInv, LateInv, CountedFilesAreLinked, owner

LEMMA NextCount == TypeInv /\ CountInv /\ [Next]_vars => CountInv'
<1> SUFFICES ASSUME TypeInv, CountInv, [Next]_vars PROVE CountInv'
  OBVIOUS
<1>1. ASSUME NEW h \in Handlers, Receive(h) \/ Step(h)
      PROVE  CountInv'
  BY <1>1, EarlySteps, LinkToUsrCount, SendQueryCount, ReplyCount,
     FetchResCount, LockCount DEF Step
<1>2. CASE Kill
  BY <1>2, DieCount DEF Kill
<1>3. CASE \/ \E u \in Users : CreateUsrDir(u)
           \/ \E x \in orphans : OrphanEnds(x)
           \/ Restart \/ Drained \/ UNCHANGED vars
  BY <1>3, WorldCount DEF Drained
<1>4. CASE \E w \in Writes : ExecuteLate(w)
  BY <1>4, ExecuteLateCount
<1> QED
  BY <1>1, <1>2, <1>3, <1>4 DEF Next

LEMMA InitCount == Init => CountInv
<1> SUFFICES ASSUME Init PROVE CountInv
  OBVIOUS
<1>1. SqlInv
  BY UploadAssumption DEF Init, SqlInv
<1>2. LinkInv /\ LateInv /\ CountedFilesAreLinked
  BY DEF Init, LinkInv, LateInv, CountedFilesAreLinked, AtDatabase
<1> QED
  BY <1>1, <1>2 DEF CountInv

LEMMA CountInvariant == Spec => []CountInv
<1> QED
  BY InitCount, NextCount, TypeInvariant, PTL DEF Spec

(***************************************************************************)
(* The table never counts a file that no user has a link to, whatever      *)
(* fails, dies or overlaps.                                                *)
(***************************************************************************)
THEOREM CountedFilesLinked == Spec => []CountedFilesAreLinked
<1>1. CountInv => CountedFilesAreLinked
  BY DEF CountInv
<1> QED
  BY <1>1, CountInvariant, PTL

(***************************************************************************)
(* Two writing statements are never on the connection together, and a      *)
(* handler that holds the mutex is at its statement.                       *)
(***************************************************************************)
THEOREM WritesSerial == Spec => []WritesAreSerial
<1>1. TypeInv /\ CountInv => WritesAreSerial
  <2> SUFFICES ASSUME TypeInv, CountInv PROVE WritesAreSerial
    OBVIOUS
  <2> DEFINE writers == {h \in Awaiting : cmd[h] # "select"}
  <2>1. writers \subseteq {mutex}
    BY DEF CountInv, SqlInv, Awaiting, TypeInv, TypeOK, Statements
  <2>2. Cardinality(writers) <= 1
    <3>1. IsFiniteSet({mutex}) /\ Cardinality({mutex}) = 1
      BY FS_Singleton
    <3> QED
      BY <2>1, <3>1, FS_Subset
  <2>3. \A h \in Handlers : mutex = h => pc[h] \in {"query", "await"}
    BY DEF CountInv, SqlInv
  <2> QED
    BY <2>2, <2>3 DEF WritesAreSerial
<1> QED
  BY <1>1, TypeInvariant, CountInvariant, PTL
(***************************************************************************)
(* A request counts once.  Inductive with the requests being handled: each *)
(* of them has yet to count, and gives that up with the answer to its      *)
(* statement, when it goes, or when the process dies.                      *)
(***************************************************************************)
Serving(s) == {h \in Handlers : pc[h] # "idle" /\ req[h].sign = s}
Counted(s) == ref[s] + late[<<"insert", s>>] + late[<<"update", s>>]
Counts(s)  == Counted(s) + Cardinality(Serving(s)) <= Cardinality(Deliveries(s))
OnceCounted == \A s \in Signs : Counts(s)

LEMMA ServingFinite ==
  ASSUME NEW s
  PROVE  IsFiniteSet(Serving(s)) /\ Cardinality(Serving(s)) \in Nat
<1>1. IsFiniteSet(Serving(s))
  BY UploadAssumption, FS_Subset DEF Serving
<1> QED
  BY <1>1, FS_CardinalityType

\* A set with one more element.
LEMMA OneMore ==
  ASSUME NEW S, NEW x, IsFiniteSet(S)
  PROVE  IsFiniteSet(S \cup {x}) /\ Cardinality(S \cup {x}) <= Cardinality(S) + 1
<1>1. Cardinality(S) \in Nat
  BY FS_CardinalityType
<1> QED
  BY <1>1, FS_AddElement

LEMMA KeysFinite == IsFiniteSet(Keys)
<1> DEFINE Pairs == (Users \X Signs) \X Parts
<1> DEFINE flat == [x \in Pairs |-> <<x[1][1], x[1][2], x[2]>>]
<1>1. IsFiniteSet(Parts)
  BY FS_Interval, UploadAssumption DEF Parts
<1>2. IsFiniteSet(Pairs)
  BY <1>1, FS_Product, UploadAssumption
<1>3. flat \in Surjection(Pairs, Keys)
  <2>1. flat \in [Pairs -> Keys]
    BY DEF Keys
  <2>2. ASSUME NEW k \in Keys PROVE \E x \in Pairs : flat[x] = k
    <3>1. <<<<k[1], k[2]>>, k[3]>> \in Pairs /\ k = <<k[1], k[2], k[3]>>
      BY DEF Keys
    <3> QED
      BY <3>1
  <2> QED
    BY <2>1, <2>2 DEF Surjection
<1> HIDE DEF Pairs, flat
<1> QED
  BY <1>2, <1>3, FS_Surjection

LEMMA DeliveriesFinite ==
  ASSUME NEW s
  PROVE  IsFiniteSet(Deliveries(s)) /\ Cardinality(Deliveries(s)) \in Nat
<1>1. IsFiniteSet(1 .. MaxDeliver)
  BY FS_Interval, UploadAssumption
<1>2. IsFiniteSet(Keys \X (1 .. MaxDeliver))
  BY <1>1, KeysFinite, FS_Product
<1>3. IsFiniteSet(Deliveries(s))
  BY <1>2, FS_Subset DEF Deliveries
<1> QED
  BY <1>3, FS_CardinalityType

LEMMA CountedType ==
  ASSUME TypeInv, NEW s \in Signs
  PROVE  /\ ref[s] \in Nat
         /\ late[<<"insert", s>>] \in Nat /\ late[<<"update", s>>] \in Nat
BY DEF TypeInv, TypeOK, Writes

\* Nobody counts, and no more requests are at work than before.
LEMMA CountsFrame ==
  ASSUME TypeInv, NEW s \in Signs, Counts(s), UNCHANGED <<ref, late, delivered>>,
         Serving(s)' \subseteq Serving(s)
  PROVE  Counts(s)'
<1>1. Cardinality(Serving(s)') <= Cardinality(Serving(s))
  BY ServingFinite, FS_Subset
<1>2. Cardinality(Serving(s)') \in Nat
  BY <1>1, ServingFinite, FS_Subset, FS_CardinalityType
<1>3. Deliveries(s)' = Deliveries(s)
  BY DEF Deliveries
<1>4. Counted(s)' = Counted(s) /\ Counted(s) \in Nat
  BY CountedType DEF Counted
<1> QED
  BY <1>1, <1>2, <1>3, <1>4, ServingFinite, DeliveriesFinite DEF Counts

\* A statement that is executed or left counts once, for its sign.
LEMMA RanCounts ==
  ASSUME TypeInv, NEW h \in Handlers, NEW s \in Signs, req[h].sign \in Signs,
         \/ /\ ref' = [ref EXCEPT ![req[h].sign] = Executed(cmd[h], req[h].sign)]
            /\ late' = late
         \/ ref' = ref /\ late' = Left(h)
  PROVE  /\ Counted(s)' <= Counted(s) + 1
         /\ s # req[h].sign \/ cmd[h] = "select" => Counted(s)' = Counted(s)
<1> DEFINE i == <<"insert", s>>
<1> DEFINE u == <<"update", s>>
<1>1. ref[s] \in Nat /\ late[i] \in Nat /\ late[u] \in Nat
  BY CountedType
<1>2. i \in Writes /\ u \in Writes
  BY DEF Writes
<1>3. i # u
  OBVIOUS
<1>4. CASE /\ ref' = [ref EXCEPT ![req[h].sign] = Executed(cmd[h], req[h].sign)]
           /\ late' = late
  <2>1. ref'[s] \in {ref[s], ref[s] + 1}
    BY <1>1, <1>4 DEF Executed, TypeInv, TypeOK
  <2>2. s # req[h].sign \/ cmd[h] = "select" => ref'[s] = ref[s]
    BY <1>1, <1>4 DEF Executed, TypeInv, TypeOK
  <2> QED
    BY <1>1, <1>4, <2>1, <2>2 DEF Counted
<1>5. CASE ref' = ref /\ late' = Left(h)
  <2>1. late \in [Writes -> Nat]
    BY DEF TypeInv, TypeOK
  <2>2. CASE cmd[h] = "select"
    BY <1>1, <1>5, <2>2 DEF Left, Counted
  <2>3. CASE cmd[h] # "select"
    <3> DEFINE w == <<cmd[h], req[h].sign>>
    <3>1. late' = [late EXCEPT ![w] = late[w] + 1]
      BY <1>5, <2>3 DEF Left
    <3>2. /\ late'[i] = IF w = i THEN late[i] + 1 ELSE late[i]
          /\ late'[u] = IF w = u THEN late[u] + 1 ELSE late[u]
      BY <1>2, <2>1, <3>1
    <3>3. s # req[h].sign => w # i /\ w # u
      OBVIOUS
    <3> HIDE DEF i, u, w
    <3>4. /\ late'[i] + late'[u] <= late[i] + late[u] + 1
          /\ s # req[h].sign => late'[i] + late'[u] = late[i] + late[u]
      BY <1>1, <1>3, <3>2, <3>3
    <3>5. late'[i] \in Nat /\ late'[u] \in Nat
      BY <1>1, <3>2
    <3> QED
      BY <1>1, <1>5, <2>3, <3>4, <3>5 DEF Counted, i, u
  <2> QED
    BY <2>2, <2>3
<1> QED
  BY <1>4, <1>5

\* A handler that is done with a statement no longer counts as one to come.
LEMMA CountsOnce ==
  ASSUME TypeInv, NEW h \in Handlers, pc[h] # "idle", OnceCounted,
         UNCHANGED delivered,
         \/ /\ ref' = [ref EXCEPT ![req[h].sign] = Executed(cmd[h], req[h].sign)]
            /\ late' = late
         \/ ref' = ref /\ late' = Left(h),
         \A s \in Signs : Serving(s)' \subseteq Serving(s),
         cmd[h] = "select" \/ \A s \in Signs : h \notin Serving(s)'
  PROVE  OnceCounted'
<1> SUFFICES ASSUME NEW s \in Signs PROVE Counts(s)'
  BY DEF OnceCounted
<1>1. Counts(s)
  BY DEF OnceCounted
<1>2. req[h].sign \in Signs
  BY Paths DEF TypeInv
<1>3. /\ Counted(s)' <= Counted(s) + 1
      /\ s # req[h].sign \/ cmd[h] = "select" => Counted(s)' = Counted(s)
  BY <1>2, RanCounts
<1>4. Counted(s) \in Nat /\ Counted(s)' \in Nat
  <2>1. ref' \in [Signs -> Nat] /\ late' \in [Writes -> Nat]
    BY <1>2, LeftType, ExecutedType DEF TypeInv, TypeOK
  <2> QED
    BY <2>1, CountedType DEF Counted, Writes
<1>5. Deliveries(s)' = Deliveries(s)
  BY DEF Deliveries
<1>6. CASE s # req[h].sign \/ cmd[h] = "select"
  <2>1. Cardinality(Serving(s)') <= Cardinality(Serving(s))
    BY ServingFinite, FS_Subset
  <2>2. Cardinality(Serving(s)') \in Nat
    BY ServingFinite, FS_Subset, FS_CardinalityType
  <2> QED
    BY <1>1, <1>3, <1>4, <1>5, <1>6, <2>1, <2>2, ServingFinite, DeliveriesFinite DEF Counts
<1>7. CASE s = req[h].sign /\ cmd[h] # "select"
  <2>1. h \in Serving(s)
    BY <1>7 DEF Serving
  <2>2. Serving(s)' \subseteq Serving(s) \ {h}
    BY <1>7
  <2>3. /\ IsFiniteSet(Serving(s) \ {h})
        /\ Cardinality(Serving(s) \ {h}) = Cardinality(Serving(s)) - 1
    BY <2>1, ServingFinite, FS_RemoveElement
  <2>4. IsFiniteSet(Serving(s)') /\ Cardinality(Serving(s)') <= Cardinality(Serving(s)) - 1
    BY <2>2, <2>3, FS_Subset
  <2>5. Cardinality(Serving(s)') \in Nat
    BY <2>4, FS_CardinalityType
  <2> QED
    BY <1>1, <1>3, <1>4, <1>5, <2>4, <2>5, ServingFinite, DeliveriesFinite DEF Counts
<1> QED
  BY <1>6, <1>7

LEMMA ReceiveCountsOnce ==
  ASSUME TypeInv, OnceCounted, NEW h \in Handlers, Receive(h)
  PROVE  OnceCounted'
<1> PICK k \in Keys, b \in Bodies :
      /\ delivered[k] < MaxDeliver
      /\ delivered' = [delivered EXCEPT ![k] = @ + 1]
      /\ req' = [req EXCEPT ![h] =
                   [usr |-> k[1], sign |-> k[2], part |-> k[3], body |-> b]]
  BY DEF Receive
<1>1. /\ pc[h] = "idle" /\ pc' = [pc EXCEPT ![h] = "mkFiles"]
      /\ UNCHANGED <<ref, late>>
  BY DEF Receive, At
<1> SUFFICES ASSUME NEW s \in Signs PROVE Counts(s)'
  BY DEF OnceCounted
<1>2. Counts(s) /\ Counted(s)' = Counted(s) /\ Counted(s) \in Nat
  BY <1>1, CountedType DEF OnceCounted, Counted
<1>3. \A g \in Handlers : g # h => pc'[g] = pc[g] /\ req'[g] = req[g]
  BY <1>1 DEF TypeInv, TypeOK
<1>4. req'[h].sign = k[2]
  BY DEF TypeInv, TypeOK
<1> DEFINE d == <<k, delivered[k] + 1>>
<1>5. delivered[k] \in Nat /\ MaxDeliver \in Nat
  BY UploadAssumption DEF TypeInv, TypeOK
<1>6. d \in Keys \X (1 .. MaxDeliver)
  BY <1>5
<1>7. CASE k[2] = s
  <2>1. Serving(s)' \subseteq Serving(s) \cup {h}
    BY <1>3 DEF Serving
  <2>2. /\ IsFiniteSet(Serving(s) \cup {h})
        /\ Cardinality(Serving(s) \cup {h}) <= Cardinality(Serving(s)) + 1
    BY ServingFinite, OneMore
  <2>3. IsFiniteSet(Serving(s)') /\ Cardinality(Serving(s)') <= Cardinality(Serving(s) \cup {h})
    BY <2>1, <2>2, FS_Subset
  <2>4. d \notin Deliveries(s)
    BY <1>5 DEF Deliveries
  <2>5. Deliveries(s) \cup {d} \subseteq Deliveries(s)'
    <3>1. d \in Deliveries(s)'
      BY <1>5, <1>6, <1>7 DEF Deliveries, TypeInv, TypeOK
    <3>2. ASSUME NEW x \in Deliveries(s) PROVE x \in Deliveries(s)'
      <4>1. x \in Keys \X (1 .. MaxDeliver) /\ x[1][2] = s /\ x[2] <= delivered[x[1]]
        BY DEF Deliveries
      <4>2. x[1] \in Keys /\ delivered[x[1]] \in Nat /\ x[2] \in Nat
        BY <4>1, <1>5 DEF TypeInv, TypeOK
      <4>3. delivered[x[1]] <= delivered'[x[1]] /\ delivered'[x[1]] \in Nat
        BY <4>2, <1>5 DEF TypeInv, TypeOK
      <4>4. x[2] <= delivered'[x[1]]
        BY <4>1, <4>2, <4>3
      <4> QED
        BY <4>1, <4>4 DEF Deliveries
    <3> QED
      BY <3>1, <3>2
  <2>6. Cardinality(Deliveries(s) \cup {d}) = Cardinality(Deliveries(s)) + 1
    BY <2>4, DeliveriesFinite, FS_AddElement
  <2>7. IsFiniteSet(Deliveries(s)')
    <3>1. IsFiniteSet(1 .. MaxDeliver)
      BY <1>5, FS_Interval
    <3>2. IsFiniteSet(Keys \X (1 .. MaxDeliver))
      BY <3>1, KeysFinite, FS_Product
    <3> QED
      BY <3>2, FS_Subset DEF Deliveries
  <2>8. Cardinality(Deliveries(s) \cup {d}) <= Cardinality(Deliveries(s)')
    BY <2>5, <2>7, FS_Subset
  <2>9. Cardinality(Deliveries(s)') \in Nat /\ Cardinality(Serving(s)') \in Nat
    BY <2>3, <2>7, FS_CardinalityType
  <2> HIDE DEF d
  <2>10. Cardinality(Serving(s)') <= Cardinality(Serving(s)) + 1
    BY <2>2, <2>3, <2>9, ServingFinite, FS_CardinalityType
  <2>11. Cardinality(Deliveries(s)) + 1 <= Cardinality(Deliveries(s)')
    BY <2>6, <2>8
  <2> QED
    BY <1>2, <2>9, <2>10, <2>11, ServingFinite, DeliveriesFinite DEF Counts
<1>8. CASE k[2] # s
  <2>1. Serving(s)' \subseteq Serving(s)
    BY <1>3, <1>4, <1>8 DEF Serving
  <2>2. Deliveries(s)' = Deliveries(s)
    BY <1>8 DEF Deliveries, TypeInv, TypeOK
  <2>3. Cardinality(Serving(s)') <= Cardinality(Serving(s))
    BY <2>1, ServingFinite, FS_Subset
  <2>4. Cardinality(Serving(s)') \in Nat
    BY <2>1, ServingFinite, FS_Subset, FS_CardinalityType
  <2> QED
    BY <1>2, <2>2, <2>3, <2>4, ServingFinite, DeliveriesFinite DEF Counts
<1> QED
  BY <1>7, <1>8

\* A handler keeps its request or is idle.
LEMMA ServingShrinks ==
  ASSUME NEW h \in Handlers, pc[h] # "idle", OthersKeep(h),
         pc'[h] = "idle" \/ req'[h] = req[h]
  PROVE  \A s \in Signs : Serving(s)' \subseteq Serving(s)
BY DEF OthersKeep, Serving

LEMMA DieCountsOnce ==
  ASSUME TypeInv, CountInv, OnceCounted, Die
  PROVE  OnceCounted'
<1>1. \A s : Serving(s)' = {}
  BY DEF Die, Serving
<1>2. UNCHANGED <<ref, delivered>>
  BY DEF Die
<1>3. CASE late' = late
  BY <1>1, <1>2, <1>3, CountsFrame DEF OnceCounted
<1>4. ASSUME NEW h \in Awaiting, late' = Left(h) PROVE OnceCounted'
  <2>1. h \in Handlers /\ pc[h] # "idle"
    BY DEF Awaiting
  <2> QED
    BY <1>1, <1>2, <1>4, <2>1, CountsOnce
<1> QED
  BY <1>3, <1>4 DEF Die

LEMMA QuietCounts ==
  ASSUME TypeInv, OnceCounted, NEW h \in Handlers, pc[h] # "idle",
         UNCHANGED <<ref, late, delivered>>, ControlStep(h)
  PROVE  OnceCounted'
<1>1. OthersKeep(h) /\ (pc'[h] = "idle" \/ req'[h] = req[h])
  BY ControlStepOthers DEF ControlStep, TypeInv, TypeOK
<1> QED
  BY <1>1, ServingShrinks, CountsFrame DEF OnceCounted

LEMMA StepIsControlStep ==
  ASSUME TypeInv, NEW h \in Handlers,
         \/ MkFilesDir(h) \/ ExistDir(h) \/ MkTmpDir(h) \/ ExistFile(h)
         \/ Md5Old(h) \/ DeletePart(h) \/ OpenPart(h) \/ WritePart(h) \/ Md5New(h)
         \/ AllPartArrived(h) \/ MvDir(h) \/ LinkToUsr(h) \/ SendQuery(h) \/ Lock(h)
  PROVE  pc[h] # "idle" /\ UNCHANGED <<ref, late, delivered>> /\ ControlStep(h)
<1>1. CASE \/ MkFilesDir(h) \/ ExistDir(h) \/ MkTmpDir(h) \/ ExistFile(h)
           \/ Md5Old(h) \/ DeletePart(h) \/ OpenPart(h)
  <2>1. /\ pc[h] # "idle" /\ UNCHANGED <<ref, late, delivered>>
        /\ (\E l \in Locations : Goto(h, l)) \/ (\E res \in BOOLEAN : Return(h, res))
    BY <1>1 DEF MkFilesDir, ExistDir, MkTmpDir, ExistFile, Md5Old, DeletePart, OpenPart,
                At, Locations, worldVars
  <2> QED
    BY <2>1, GotoIsControlStep, ReturnIsControlStep DEF TypeInv
<1>2. CASE \/ WritePart(h) \/ Md5New(h) \/ AllPartArrived(h) \/ MvDir(h)
           \/ SendQuery(h) \/ Lock(h)
  <2>1. /\ pc[h] # "idle" /\ UNCHANGED <<ref, late, delivered>>
        /\ (\E l \in Locations : Goto(h, l)) \/ (\E res \in BOOLEAN : Return(h, res))
    BY <1>2 DEF WritePart, Md5New, AllPartArrived, MvDir, AfterMv, SendQuery, Lock,
                At, Locations, worldVars
  <2> QED
    BY <2>1, GotoIsControlStep, ReturnIsControlStep DEF TypeInv
<1>3. CASE LinkToUsr(h)
  <2>1. pc[h] # "idle" /\ UNCHANGED <<ref, late, delivered>>
    BY <1>3 DEF LinkToUsr, At, worldVars
  <2> QED
    BY <1>3, <2>1, RunIsControlStep, ReturnIsControlStep
       DEF LinkToUsr, TypeInv, Locations, Statements
<1> QED
  BY <1>1, <1>2, <1>3

LEMMA ReplyCountsOnce ==
  ASSUME TypeInv, CountInv, OnceCounted, NEW h \in Handlers,
         CleanReply(h) \/ RacedReply(h)
  PROVE  OnceCounted'
<1>1. pc[h] = "await" /\ UNCHANGED delivered
  BY DEF CleanReply, RacedReply, At
<1>2. PICK executed, ok \in BOOLEAN : Answered(h, executed, ok)
  <2>1. Succeeds(cmd[h], req[h].sign) \in BOOLEAN
    BY DEF Succeeds
  <2> QED
    BY <2>1 DEF CleanReply, RacedReply
<1>3. ControlStep(h)
  BY <1>1, <1>2, AnsweredType
<1>4. \A s \in Signs : Serving(s)' \subseteq Serving(s)
  BY <1>1, <1>3, ControlStepOthers, ServingShrinks DEF ControlStep, TypeInv, TypeOK
<1>5. cmd[h] = "select" \/ pc'[h] = "idle"
  BY <1>2, ReturnTo DEF Answered, TypeInv
<1>6. cmd[h] = "select" \/ \A s \in Signs : h \notin Serving(s)'
  BY <1>5 DEF Serving
<1> QED
  BY <1>1, <1>2, <1>4, <1>6, CountsOnce DEF Answered, Ran

LEMMA ExecuteLateCountsOnce ==
  ASSUME TypeInv, OnceCounted, NEW w \in Writes, ExecuteLate(w)
  PROVE  OnceCounted'
<1> SUFFICES ASSUME NEW s \in Signs PROVE Counts(s)'
  BY DEF OnceCounted
<1> DEFINE i == <<"insert", s>>
<1> DEFINE u == <<"update", s>>
<1>1. i \in Writes /\ u \in Writes
  BY DEF Writes
<1>2. i # u
  OBVIOUS
<1>3. ref[s] \in Nat /\ late[i] \in Nat /\ late[u] \in Nat /\ late[w] \in Nat
  BY CountedType DEF TypeInv, TypeOK
<1>4. /\ late[w] > 0 /\ late' = [late EXCEPT ![w] = late[w] - 1]
      /\ UNCHANGED <<pc, req, delivered>>
  BY DEF ExecuteLate, handlerVars
<1>5. ref'[s] = ref[s] \/ (ref'[s] = ref[s] + 1 /\ s = w[2])
  BY ExecuteLateRef
<1>6. /\ late'[i] = IF w = i THEN late[i] - 1 ELSE late[i]
      /\ late'[u] = IF w = u THEN late[u] - 1 ELSE late[u]
  BY <1>1, <1>4 DEF TypeInv, TypeOK
<1>7. s = w[2] => w = i \/ w = u
  BY DEF Writes
<1>8. Counted(s)' <= Counted(s) /\ Counted(s) \in Nat /\ Counted(s)' \in Nat
  <2>1. Counted(s) = ref[s] + late[i] + late[u] /\ Counted(s)' = ref'[s] + late'[i] + late'[u]
    BY DEF Counted
  <2> HIDE DEF i, u
  <2> QED
    BY <1>2, <1>3, <1>4, <1>5, <1>6, <1>7, <2>1
<1>9. Serving(s)' = Serving(s) /\ Deliveries(s)' = Deliveries(s) /\ Counts(s)
  BY <1>4 DEF Serving, Deliveries, OnceCounted
<1> QED
  BY <1>8, <1>9, ServingFinite, DeliveriesFinite DEF Counts

LEMMA NextCountsOnce == TypeInv /\ CountInv /\ OnceCounted /\ [Next]_vars => OnceCounted'
<1> SUFFICES ASSUME TypeInv, CountInv, OnceCounted, [Next]_vars PROVE OnceCounted'
  OBVIOUS
<1>1. ASSUME NEW h \in Handlers, FetchRes(h) PROVE OnceCounted'
  <2>1. pc[h] = "fetch"
    BY <1>1 DEF FetchRes, At
  <2>2. CASE /\ \E r \in Fetchable \ {"none"} :
                  Run(h, IF r = "row" THEN "update" ELSE "insert", "lock")
             /\ UNCHANGED <<fd, fsVars, ref, mutex, mixed, worldVars>>
    <3>1. UNCHANGED <<ref, late, delivered>> /\ ControlStep(h)
      BY <2>2, RunIsControlStep DEF worldVars, Locations, Statements
    <3> QED
      BY <2>1, <3>1, QuietCounts
  <2> QED
    BY <1>1, <2>2, DieCountsOnce DEF FetchRes
<1>2. ASSUME NEW h \in Handlers, Receive(h) \/ Step(h)
      PROVE  OnceCounted'
  BY <1>1, <1>2, ReceiveCountsOnce, StepIsControlStep, QuietCounts, ReplyCountsOnce DEF Step
<1>3. CASE Kill
  BY <1>3, DieCountsOnce DEF Kill
<1>4. CASE \/ \E u \in Users : CreateUsrDir(u)
           \/ \E x \in orphans : OrphanEnds(x)
           \/ Restart \/ Drained \/ UNCHANGED vars
  <2>1. UNCHANGED <<pc, req, ref, late, delivered>>
    BY <1>4 DEF CreateUsrDir, OrphanEnds, Restart, Drained, vars, handlerVars, worldVars
  <2> QED
    BY <2>1, CountsFrame DEF OnceCounted, Serving
<1>5. CASE \E w \in Writes : ExecuteLate(w)
  BY <1>5, ExecuteLateCountsOnce
<1> QED
  BY <1>2, <1>3, <1>4, <1>5 DEF Next

LEMMA InitCountsOnce == Init => OnceCounted
<1> SUFFICES ASSUME Init, NEW s \in Signs PROVE Counts(s)
  BY DEF OnceCounted
<1>1. Serving(s) = {} /\ Counted(s) = 0
  BY DEF Init, Serving, Counted, Writes
<1>2. Cardinality(Serving(s)) = 0
  BY <1>1, FS_EmptySet
<1> QED
  BY <1>1, <1>2, DeliveriesFinite DEF Counts

(***************************************************************************)
(* The reference of a file, with every statement MySQL has yet to execute, *)
(* is never more than the number of requests that came in for it, whatever *)
(* fails, overlaps, dies or is executed late.                              *)
(***************************************************************************)
THEOREM RequestsCounted == Spec => []RequestsCountOnce
<1>1. TypeInv /\ OnceCounted => RequestsCountOnce
  <2> SUFFICES ASSUME TypeInv, OnceCounted, NEW s \in Signs
               PROVE  Counted(s) <= Cardinality(Deliveries(s))
    BY DEF RequestsCountOnce, Counted
  <2> QED
    BY CountedType, ServingFinite, DeliveriesFinite DEF OnceCounted, Counts, Counted
<1> QED
  BY <1>1, InitCountsOnce, NextCountsOnce, TypeInvariant, CountInvariant, PTL DEF Spec
-----------------------------------------------------------------------------
\* Which steps change the store.
LEMMA StoreChange ==
  ASSUME TypeInv, [Next]_vars
  PROVE  \/ UNCHANGED <<pub, stored>>
         \/ \E h \in Handlers :
              \/ pc[h] = "write" /\ WritePart(h)
              \/ pc[h] = "mv" /\ CanMove(owner(h)) /\ MoveToFiles(owner(h))
         \/ \E x \in orphans : CanMove(x[3]) /\ MoveToFiles(x[3])
<1>1. ASSUME NEW h \in Handlers, WritePart(h)
      PROVE  pc[h] = "write"
  BY <1>1 DEF WritePart, At
<1>2. ASSUME NEW h \in Handlers, MvDir(h)
      PROVE  \/ UNCHANGED <<pub, stored>>
             \/ pc[h] = "mv" /\ CanMove(owner(h)) /\ MoveToFiles(owner(h))
  BY <1>2 DEF MvDir, At
<1>3. ASSUME NEW h \in Handlers,
             \/ Receive(h) \/ MkFilesDir(h) \/ ExistDir(h) \/ MkTmpDir(h)
             \/ ExistFile(h) \/ Md5Old(h) \/ DeletePart(h) \/ OpenPart(h)
             \/ Md5New(h) \/ AllPartArrived(h) \/ LinkToUsr(h) \/ SendQuery(h)
             \/ CleanReply(h) \/ RacedReply(h) \/ FetchRes(h) \/ Lock(h)
      PROVE  UNCHANGED <<pub, stored>>
  BY <1>3 DEF Receive, MkFilesDir, ExistDir, MkTmpDir, ExistFile, Md5Old, DeletePart,
     OpenPart, Md5New, AllPartArrived, LinkToUsr, SendQuery, CleanReply, RacedReply,
     FetchRes, Lock, Die, fsVars
<1>4. ASSUME \/ \E u \in Users : CreateUsrDir(u)
             \/ \E w \in Writes : ExecuteLate(w)
             \/ Kill \/ Restart \/ Drained \/ UNCHANGED vars
      PROVE  UNCHANGED <<pub, stored>>
  BY <1>4 DEF CreateUsrDir, ExecuteLate, Kill, Die, Restart, Drained, vars, fsVars
<1>5. ASSUME NEW x \in orphans, OrphanEnds(x)
      PROVE  UNCHANGED <<pub, stored>> \/ (CanMove(x[3]) /\ MoveToFiles(x[3]))
  BY <1>5 DEF OrphanEnds
<1>6. CASE \E h \in Handlers : Receive(h) \/ Step(h)
  BY <1>1, <1>2, <1>3, <1>6 DEF Step
<1>7. CASE \E x \in orphans : OrphanEnds(x)
  BY <1>5, <1>7
<1> QED
  BY <1>4, <1>6, <1>7 DEF Next

\* The directory that is moved is one of an owner.
LEMMA MoveChange ==
  ASSUME TypeInv, [Next]_vars
  PROVE  \/ UNCHANGED <<pub, stored>>
         \/ \E h \in Handlers : pc[h] = "write" /\ WritePart(h)
         \/ \E o \in Owners : CanMove(o) /\ MoveToFiles(o)
<1>1. ASSUME NEW h \in Handlers, pc[h] = "mv" PROVE owner(h) \in Owners
  BY <1>1, Paths DEF TypeInv
<1>2. \A x \in orphans : x[3] \in Owners
  BY DEF TypeInv, TypeOK, Orphan
<1> QED
  BY <1>1, <1>2, StoreChange

\* What the write of a handler does to the store.
LEMMA WriteToStore ==
  ASSUME TypeInv, NEW h \in Handlers, WritePart(h)
  PROVE  /\ pub' = pub
         /\ \A x \in Slots :
              stored'[x] # stored[x] =>
                fd[h] = "pub" /\ slot(h) = x /\ stored'[x] # Absent
<1>1. pub' = pub /\ pc[h] = "write"
  BY DEF WritePart, At
<1>2. PICK bytes \in Taken(h) :
        stored' = IF fd[h] = "pub"
                  THEN [stored EXCEPT ![slot(h)] = Written(bytes, @)] ELSE stored
  BY DEF WritePart
<1>3. CASE fd[h] = "pub"
  <2>1. slot(h) \in Slots /\ stored[slot(h)] \in Seq(Byte)
    BY <1>1, <1>3, Paths DEF TypeInv, TypeOK, FdInv, Content
  <2>2. Written(bytes, stored[slot(h)]) \in Seq(Byte)
    BY <1>1, <2>1, TakenType, WrittenType DEF TypeInv
  <2>3. stored' = [stored EXCEPT ![slot(h)] = Written(bytes, stored[slot(h)])]
    BY <1>2, <1>3
  <2> QED
    BY <1>1, <1>3, <2>1, <2>2, <2>3, UploadAssumption DEF TypeInv, TypeOK
<1> QED
  BY <1>1, <1>2, <1>3

(***************************************************************************)
(* A part is in the store only in the directory of a published file.       *)
(***************************************************************************)
StoreInv == \A x \in Slots : stored[x] # Absent => x[1] \in pub

LEMMA NextStore == TypeInv /\ StoreInv /\ [Next]_vars => StoreInv'
<1> SUFFICES ASSUME TypeInv, StoreInv, [Next]_vars PROVE StoreInv'
  OBVIOUS
<1>1. CASE UNCHANGED <<pub, stored>>
  BY <1>1 DEF StoreInv
<1>2. ASSUME NEW h \in Handlers, pc[h] = "write", WritePart(h)
      PROVE  StoreInv'
  <2>1. fd[h] = "pub" => stored[slot(h)] # Absent
    BY DEF TypeInv, FdInv
  <2> QED
    BY <1>2, <2>1, WriteToStore DEF StoreInv
<1>3. ASSUME NEW o \in Owners, MoveToFiles(o)
      PROVE  StoreInv'
  BY <1>3 DEF StoreInv, MoveToFiles
<1> QED
  BY <1>1, <1>2, <1>3, MoveChange

LEMMA StoreInvariant == Spec => []StoreInv
<1>1. Init => StoreInv
  BY DEF Init, StoreInv
<1> QED
  BY <1>1, NextStore, TypeInvariant, PTL DEF Spec
-----------------------------------------------------------------------------
(***************************************************************************)
(* No dangling link, when mv and popen do their work.  A handler that made *)
(* the tmp directory keeps either that directory or a published file: only *)
(* the move takes the directory away, and it publishes the file.  So an mv *)
(* that fails because there is nothing to move, or something in its place, *)
(* fails because the file is published.                                    *)
(***************************************************************************)
Uploading == {"existFile", "md5Old", "delete", "open", "write", "md5New", "ls", "mv"}

PlaceInv ==
  /\ \A h \in Handlers :
       /\ pc[h] \in Uploading => owner(h) \in dirs \/ req[h].sign \in pub
       /\ pc[h] = "link" => req[h].sign \in pub
  /\ NoDanglingLink

LEMMA PlaceFrame ==
  ASSUME PlaceInv, NEW h \in Handlers, OthersKeep(h),
         req'[h] = req[h] \/ pc'[h] \notin Uploading \cup {"link"},
         pc'[h] \in Uploading => pc[h] \in Uploading,
         pc'[h] = "link" => req[h].sign \in pub,
         UNCHANGED <<dirs, pub, links>>
  PROVE  PlaceInv'
<1>1. ASSUME NEW g \in Handlers
      PROVE  /\ pc'[g] \in Uploading => owner(g)' \in dirs' \/ req'[g].sign \in pub'
             /\ pc'[g] = "link" => req'[g].sign \in pub'
  <2>1. CASE g = h
    BY <2>1 DEF PlaceInv, owner
  <2>2. CASE g # h
    BY <2>2 DEF PlaceInv, OthersKeep, owner
  <2> QED
    BY <2>1, <2>2
<1>2. NoDanglingLink'
  BY DEF PlaceInv, NoDanglingLink
<1> QED
  BY <1>1, <1>2 DEF PlaceInv

\* Every step of a handler that neither makes nor moves a directory.
LEMMA PlaceSteps ==
  ASSUME TypeInv, PlaceInv, NEW h \in Handlers,
         \/ MkFilesDir(h) \/ ExistDir(h) \/ ExistFile(h) \/ Md5Old(h)
         \/ DeletePart(h) \/ OpenPart(h) \/ WritePart(h) \/ Md5New(h)
         \/ AllPartArrived(h) \/ SendQuery(h) \/ CleanReply(h) \/ RacedReply(h)
         \/ Lock(h)
  PROVE  PlaceInv'
<1>1. TypeOK
  BY DEF TypeInv
<1>2. UNCHANGED <<dirs, pub, links>>
  BY DEF MkFilesDir, ExistDir, ExistFile, Md5Old, DeletePart, OpenPart, WritePart,
         Md5New, AllPartArrived, SendQuery, CleanReply, RacedReply, Lock, fsVars
<1>3. \/ \E res \in BOOLEAN : Return(h, res)
      \/ pc[h] = "existDir" /\ FileIsStored(h) /\ Goto(h, "link")
      \/ \E l \in Locations \ (Uploading \cup {"link"}) : Goto(h, l)
      \/ pc[h] \in Uploading /\ \E l \in Uploading : Goto(h, l)
  <2>1. CASE \/ MkFilesDir(h) \/ ExistDir(h) \/ ExistFile(h) \/ Md5Old(h)
             \/ DeletePart(h) \/ OpenPart(h)
    BY <2>1 DEF MkFilesDir, ExistDir, ExistFile, Md5Old, DeletePart, OpenPart, At,
                Uploading, Locations
  <2>2. CASE WritePart(h) \/ Md5New(h) \/ AllPartArrived(h)
    BY <2>2 DEF WritePart, Md5New, AllPartArrived, At, Uploading, Locations
  <2>3. CASE SendQuery(h) \/ Lock(h)
    BY <2>3 DEF SendQuery, Lock, Uploading, Locations
  <2>4. CASE CleanReply(h) \/ RacedReply(h)
    <3>1. \E executed, ok \in BOOLEAN : Answered(h, executed, ok)
      <4>1. Succeeds(cmd[h], req[h].sign) \in BOOLEAN
        BY DEF Succeeds
      <4> QED
        BY <2>4, <4>1 DEF CleanReply, RacedReply
    <3> QED
      BY <3>1 DEF Answered, Uploading, Locations
  <2> QED
    BY <2>1, <2>2, <2>3, <2>4
<1>4. CASE \E res \in BOOLEAN : Return(h, res)
  <2>1. OthersKeep(h) /\ pc'[h] = "idle"
    BY <1>1, <1>4, ReturnTo
  <2> QED
    BY <1>2, <2>1, PlaceFrame DEF Uploading
<1>5. CASE pc[h] = "existDir" /\ FileIsStored(h) /\ Goto(h, "link")
  <2>1. OthersKeep(h) /\ pc'[h] = "link" /\ req'[h] = req[h]
    BY <1>1, <1>5, GotoTo DEF Locations
  <2> QED
    BY <1>2, <1>5, <2>1, PlaceFrame DEF Uploading, FileIsStored
<1>6. CASE \E l \in Locations \ (Uploading \cup {"link"}) : Goto(h, l)
  <2>1. OthersKeep(h) /\ pc'[h] \notin Uploading \cup {"link"}
    BY <1>1, <1>6, GotoTo
  <2> QED
    BY <1>2, <2>1, PlaceFrame
<1>7. CASE pc[h] \in Uploading /\ \E l \in Uploading : Goto(h, l)
  <2>1. OthersKeep(h) /\ pc'[h] \in Uploading /\ req'[h] = req[h]
    BY <1>1, <1>7, GotoTo DEF Uploading, Locations
  <2>2. pc'[h] # "link"
    BY <2>1 DEF Uploading
  <2> QED
    BY <1>2, <1>7, <2>1, <2>2, PlaceFrame
<1> QED
  BY <1>3, <1>4, <1>5, <1>6, <1>7

LEMMA ReceivePlace ==
  ASSUME TypeInv, PlaceInv, NEW h \in Handlers, Receive(h)
  PROVE  PlaceInv'
<1>1. /\ pc[h] = "idle" /\ pc' = [pc EXCEPT ![h] = "mkFiles"]
      /\ \E r : req' = [req EXCEPT ![h] = r]
      /\ UNCHANGED <<cmd, dirs, pub, links>>
  BY DEF Receive, At, fsVars
<1>2. OthersKeep(h) /\ pc'[h] = "mkFiles"
  BY <1>1 DEF TypeInv, TypeOK, OthersKeep
<1> QED
  BY <1>1, <1>2, PlaceFrame DEF Uploading

LEMMA MkTmpDirPlace ==
  ASSUME TypeInv, PlaceInv, NEW h \in Handlers, MkTmpDir(h)
  PROVE  PlaceInv'
<1>1. UNCHANGED <<pub, links>>
  BY DEF MkTmpDir
<1>2. CASE UNCHANGED dirs /\ Return(h, FALSE)
  <2>1. OthersKeep(h) /\ pc'[h] = "idle"
    BY <1>2, ReturnTo DEF TypeInv
  <2> QED
    BY <1>1, <1>2, <2>1, PlaceFrame DEF Uploading
<1>3. CASE dirs' = dirs \cup {owner(h)} /\ Goto(h, "existFile")
  <2>1. OthersKeep(h) /\ pc'[h] = "existFile" /\ req'[h] = req[h]
    BY <1>3, GotoTo DEF TypeInv, Locations
  <2>2. NoDanglingLink'
    BY <1>1 DEF PlaceInv, NoDanglingLink
  <2> QED
    BY <1>1, <1>3, <2>1, <2>2 DEF PlaceInv, OthersKeep, owner
<1> QED
  BY <1>2, <1>3 DEF MkTmpDir

LEMMA MvDirPlace ==
  ASSUME TypeInv, StoreInv, PlaceInv, NEW h \in Handlers, MvDir(h),
         CanMove(owner(h)) => owner(h) \notin dirs'
  PROVE  PlaceInv'
<1>1. pc[h] = "mv" /\ UNCHANGED links /\ (AfterMv(h) \/ Goto(h, "link"))
  BY DEF MvDir, At
<1>2. /\ OthersKeep(h)
      /\ \/ pc'[h] = "idle"
         \/ pc'[h] = "link" /\ req'[h] = req[h]
  <2>1. CASE Goto(h, "link")
    BY <2>1, GotoTo DEF TypeInv, Locations
  <2>2. CASE Return(h, FALSE)
    BY <2>2, ReturnTo DEF TypeInv
  <2>3. Goto(h, "link") \/ Return(h, FALSE)
    BY <1>1 DEF AfterMv
  <2> QED
    BY <2>1, <2>2, <2>3
<1>3. CASE CanMove(owner(h)) /\ MoveToFiles(owner(h))
  <2>1. pub' = pub \cup {req[h].sign} /\ dirs' = dirs \ {<<req[h].usr, req[h].sign>>}
    BY <1>3 DEF MoveToFiles, owner
  <2>2. ASSUME NEW g \in Handlers
        PROVE  /\ pc'[g] \in Uploading => owner(g)' \in dirs' \/ req'[g].sign \in pub'
               /\ pc'[g] = "link" => req'[g].sign \in pub'
    <3>1. CASE g = h
      BY <1>2, <2>1, <3>1 DEF Uploading
    <3>2. CASE g # h
      <4>1. pc'[g] = pc[g] /\ req'[g] = req[g] /\ owner(g)' = owner(g)
        BY <1>2, <3>2 DEF OthersKeep, owner
      <4>2. CASE owner(g) = <<req[h].usr, req[h].sign>>
        <5>1. req[g].sign = req[h].sign
          BY <4>2 DEF owner
        <5> QED
          BY <2>1, <4>1, <5>1
      <4>3. CASE owner(g) # <<req[h].usr, req[h].sign>>
        BY <2>1, <4>1, <4>3 DEF PlaceInv
      <4> QED
        BY <4>2, <4>3
    <3> QED
      BY <3>1, <3>2
  <2>3. NoDanglingLink'
    BY <1>1, <2>1 DEF PlaceInv, NoDanglingLink
  <2> QED
    BY <2>2, <2>3 DEF PlaceInv
<1>4. CASE ~CanMove(owner(h)) /\ UNCHANGED <<dirs, pub>>
  <2>1. ASSUME owner(h) \notin dirs PROVE req[h].sign \in pub
    BY <1>1, <2>1 DEF PlaceInv, Uploading
  <2>2. ASSUME HasFiles(req[h].sign) PROVE req[h].sign \in pub
    BY <1>1, <2>2, Paths DEF TypeInv, StoreInv, HasFiles, Slots
  <2>3. req[h].sign \in pub
    BY <1>1, <1>4, <2>1, <2>2 DEF CanMove, PlaceInv, owner
  <2> QED
    BY <1>1, <1>2, <1>4, <2>3, PlaceFrame DEF Uploading
<1>5. ~CanMove(owner(h)) \/ ~UNCHANGED dirs
  BY DEF CanMove
<1> QED
  BY <1>3, <1>4, <1>5 DEF MvDir

LEMMA LinkToUsrPlace ==
  ASSUME TypeInv, PlaceInv, NEW h \in Handlers, LinkToUsr(h)
  PROVE  PlaceInv'
<1>1. pc[h] = "link" /\ UNCHANGED <<dirs, pub>>
  BY DEF LinkToUsr, At
<1>2. OthersKeep(h) /\ pc'[h] \in {"idle", "query"}
  BY RunTo, ReturnTo DEF LinkToUsr, TypeInv, Locations, Statements
<1>3. links' \in {links, links \cup {owner(h)}}
  BY DEF LinkToUsr
<1>4. NoDanglingLink'
  BY <1>1, <1>3 DEF PlaceInv, NoDanglingLink, owner
<1> QED
  BY <1>1, <1>2, <1>4 DEF PlaceInv, OthersKeep, owner, Uploading

LEMMA DiePlace ==
  ASSUME PlaceInv, Die
  PROVE  PlaceInv'
BY DEF PlaceInv, NoDanglingLink, Die, fsVars, Uploading

LEMMA FetchResPlace ==
  ASSUME TypeInv, PlaceInv, NEW h \in Handlers, FetchRes(h)
  PROVE  PlaceInv'
<1>1. CASE /\ \E r \in Fetchable \ {"none"} :
                Run(h, IF r = "row" THEN "update" ELSE "insert", "lock")
           /\ UNCHANGED <<fd, fsVars, ref, mutex, mixed, worldVars>>
  <2>1. OthersKeep(h) /\ pc'[h] = "lock" /\ UNCHANGED <<dirs, pub, links>>
    BY <1>1, RunTo DEF TypeInv, Locations, Statements, fsVars
  <2> QED
    BY <2>1, PlaceFrame DEF Uploading
<1>2. CASE Die
  BY <1>2, DiePlace
<1> QED
  BY <1>1, <1>2 DEF FetchRes

\* The mv of a process that died publishes what it takes away.
LEMMA OrphanPlace ==
  ASSUME PlaceInv, NEW x \in orphans, OrphanEnds(x)
  PROVE  PlaceInv'
<1>1. UNCHANGED <<pc, req, links>>
  BY DEF OrphanEnds
<1>2. CASE UNCHANGED <<dirs, pub>>
  BY <1>1, <1>2 DEF PlaceInv, NoDanglingLink, owner
<1>3. CASE MoveToFiles(x[3])
  <2>1. pub' = pub \cup {x[3][2]} /\ dirs' = dirs \ {x[3]}
    BY <1>3 DEF MoveToFiles
  <2>2. ASSUME NEW g \in Handlers, pc[g] \in Uploading
        PROVE  owner(g) \in dirs' \/ req[g].sign \in pub'
    <3>1. CASE owner(g) = x[3]
      <4>1. x[3][2] = req[g].sign
        BY <3>1 DEF owner
      <4> QED
        BY <2>1, <4>1
    <3>2. CASE owner(g) # x[3]
      BY <2>1, <2>2, <3>2 DEF PlaceInv
    <3> QED
      BY <3>1, <3>2
  <2> QED
    BY <1>1, <2>1, <2>2 DEF PlaceInv, NoDanglingLink, owner
<1> QED
  BY <1>2, <1>3 DEF OrphanEnds

LEMMA WorldPlace ==
  ASSUME PlaceInv,
         \/ \E u \in Users : CreateUsrDir(u)
         \/ \E w \in Writes : ExecuteLate(w)
         \/ Restart
         \/ UNCHANGED vars
  PROVE  PlaceInv'
<1>1. UNCHANGED <<pc, req, dirs, pub, links>>
  BY DEF CreateUsrDir, ExecuteLate, Restart, vars, handlerVars, fsVars
<1> QED
  BY <1>1 DEF PlaceInv, NoDanglingLink, owner

\* What can be moved is moved.
MoveWorks ==
  \A h \in Handlers : MvDir(h) /\ CanMove(owner(h)) => owner(h) \notin dirs'

LEMMA NextPlace ==
  ASSUME TypeInv, StoreInv, PlaceInv, [Next]_vars, MoveWorks
  PROVE  PlaceInv'
<1>1. ASSUME NEW h \in Handlers, Receive(h) \/ Step(h)
      PROVE  PlaceInv'
  BY <1>1, ReceivePlace, PlaceSteps, MkTmpDirPlace, MvDirPlace, LinkToUsrPlace,
     FetchResPlace DEF Step, MoveWorks
<1>2. CASE Kill
  BY <1>2, DiePlace DEF Kill
<1>3. CASE \/ \E u \in Users : CreateUsrDir(u)
           \/ \E w \in Writes : ExecuteLate(w)
           \/ Restart \/ Drained \/ UNCHANGED vars
  BY <1>3, WorldPlace DEF Drained
<1>4. CASE \E x \in orphans : OrphanEnds(x)
  BY <1>4, OrphanPlace
<1> QED
  BY <1>1, <1>2, <1>3, <1>4 DEF Next

LEMMA MoveWorksWithoutFaults ==
  ASSUME "mv" \notin Faults, "popen" \notin Faults
  PROVE  MoveWorks
BY DEF MoveWorks, MvDir, MoveToFiles, May

LEMMA PlaceInvariant ==
  ASSUME "mv" \notin Faults, "popen" \notin Faults
  PROVE  Spec => []PlaceInv
<1>1. Init => PlaceInv
  BY DEF Init, PlaceInv, NoDanglingLink, Uploading
<1>2. TypeInv /\ StoreInv /\ PlaceInv /\ [Next]_vars => PlaceInv'
  BY NextPlace, MoveWorksWithoutFaults
<1> QED
  BY <1>1, <1>2, TypeInvariant, StoreInvariant, PTL DEF Spec

(***************************************************************************)
(* With a working mv and popen no user ever has a link to a file the       *)
(* server does not have, whatever else fails and however often the process *)
(* dies.                                                                   *)
(***************************************************************************)
THEOREM NoDangling ==
  ASSUME "mv" \notin Faults, "popen" \notin Faults
  PROVE  Spec => []NoDanglingLink
<1>1. PlaceInv => NoDanglingLink
  BY DEF PlaceInv
<1> QED
  BY <1>1, PlaceInvariant, PTL
-----------------------------------------------------------------------------
(***************************************************************************)
(* Action properties.                                                      *)
(***************************************************************************)

\* The table changes by one at a time.
LEMMA RefStep ==
  ASSUME TypeInv, [Next]_vars, NEW s \in Signs, ref'[s] # ref[s]
  PROVE  ref'[s] = ref[s] + 1
<1>1. ref' # ref
  OBVIOUS
<1>2. ASSUME NEW h \in Handlers, Receive(h) \/ Step(h)
      PROVE  ref'[s] = ref[s] + 1
  <2>1. CleanReply(h) \/ RacedReply(h)
    BY <1>1, <1>2 DEF Receive, Step, MkFilesDir, ExistDir, MkTmpDir, ExistFile, Md5Old,
         DeletePart, OpenPart, WritePart, Md5New, AllPartArrived, MvDir, LinkToUsr,
         SendQuery, FetchRes, Lock, Die
  <2>2. pc[h] = "await"
    BY <2>1 DEF CleanReply, RacedReply, At
  <2>3. PICK executed, ok \in BOOLEAN : Answered(h, executed, ok)
    <3>1. Succeeds(cmd[h], req[h].sign) \in BOOLEAN
      BY DEF Succeeds
    <3> QED
      BY <2>1, <3>1 DEF CleanReply, RacedReply
  <2> QED
    BY <2>2, <2>3, AnsweredRef
<1>3. ASSUME NEW w \in Writes, ExecuteLate(w)
      PROVE  ref'[s] = ref[s] + 1
  BY <1>3, ExecuteLateRef
<1>4. ~Kill /\ ~Restart /\ ~Drained /\ ~UNCHANGED vars
  BY <1>1 DEF Kill, Die, Restart, Drained, vars
<1>5. (\A u \in Users : ~CreateUsrDir(u)) /\ \A x \in orphans : ~OrphanEnds(x)
  BY <1>1 DEF CreateUsrDir, OrphanEnds
<1> QED
  BY <1>2, <1>3, <1>4, <1>5 DEF Next

\* The steps that change the published parts.
LEMMA StoredStep ==
  ASSUME TypeInv, [Next]_vars, NEW s \in pub
  PROVE  /\ s \in pub'
         /\ \A p \in Parts :
              stored[<<s, p>>] \notin {Absent, stored'[<<s, p>>]} =>
              /\ stored'[<<s, p>>] # Absent
              /\ \E h \in Handlers : fd[h] = "pub" /\ slot(h) = <<s, p>>
<1> DEFINE Goal ==
      /\ s \in pub'
      /\ \A p \in Parts :
           stored[<<s, p>>] \notin {Absent, stored'[<<s, p>>]} =>
           /\ stored'[<<s, p>>] # Absent
           /\ \E h \in Handlers : fd[h] = "pub" /\ slot(h) = <<s, p>>
<1>1. s \in Signs
  BY DEF TypeInv, TypeOK
<1>2. CASE UNCHANGED <<pub, stored>>
  BY <1>2
<1>3. ASSUME NEW h \in Handlers, WritePart(h)
      PROVE  Goal
  BY <1>1, <1>3, WriteToStore DEF Slots
<1>4. ASSUME NEW o \in Owners, CanMove(o), MoveToFiles(o)
      PROVE  Goal
  <2>1. pub' = pub \cup {o[2]}
    BY <1>4 DEF MoveToFiles
  <2>2. ASSUME NEW p \in Parts, stored[<<s, p>>] # Absent
        PROVE  stored'[<<s, p>>] = stored[<<s, p>>]
    <3>1. s # o[2]
      BY <1>4, <2>2 DEF CanMove, HasFiles
    <3> QED
      BY <1>1, <1>4, <3>1 DEF MoveToFiles, Slots
  <2> QED
    BY <2>1, <2>2
<1> QED
  BY <1>2, <1>3, <1>4, MoveChange

(***************************************************************************)
(* A published file keeps its directory and its parts for ever; the only   *)
(* change left is the write of a handler that had the part open before the *)
(* move.                                                                   *)
(***************************************************************************)
THEOREM PublicationStable == Spec => PublicationIsStable
<1>1. TypeInv /\ [Next]_vars =>
        [\A s \in pub :
           /\ s \in pub'
           /\ \A p \in Parts :
                stored[<<s, p>>] \notin {Absent, stored'[<<s, p>>]} =>
                /\ stored'[<<s, p>>] # Absent
                /\ \E h \in Handlers : fd[h] = "pub" /\ slot(h) = <<s, p>>]_vars
  BY StoredStep
<1> QED
  BY <1>1, TypeInvariant, PTL DEF Spec, PublicationIsStable
-----------------------------------------------------------------------------
(***************************************************************************)
(* The service implements DedupStore.  Only the move, the symlink and the  *)
(* execution of a writing statement touch what DedupStore sees, each one   *)
(* variable of it; that the step is allowed there follows from PlaceInv    *)
(* for the symlink and from LinkInv and LateInv for the statement.         *)
(***************************************************************************)
seen == <<pub, links, ref>>

LEMMA UnseenSteps ==
  ASSUME NEW h \in Handlers,
         \/ Receive(h) \/ MkFilesDir(h) \/ ExistDir(h) \/ MkTmpDir(h) \/ ExistFile(h)
         \/ Md5Old(h) \/ DeletePart(h) \/ OpenPart(h) \/ WritePart(h) \/ Md5New(h)
         \/ AllPartArrived(h) \/ SendQuery(h) \/ FetchRes(h) \/ Lock(h)
  PROVE  UNCHANGED seen
BY DEF Receive, MkFilesDir, ExistDir, MkTmpDir, ExistFile, Md5Old, DeletePart, OpenPart,
   WritePart, Md5New, AllPartArrived, SendQuery, FetchRes, Lock, Die, fsVars, seen

LEMMA OrphanPublishes ==
  ASSUME TypeInv, NEW x \in orphans, OrphanEnds(x)
  PROVE  [Store!Next]_seen
<1>1. UNCHANGED <<links, ref>> /\ x[3][2] \in Signs
  BY DEF OrphanEnds, TypeInv, TypeOK, Orphan, Owners
<1>2. pub' = pub \/ pub' = pub \cup {x[3][2]}
  BY DEF OrphanEnds, MoveToFiles
<1> QED
  BY <1>1, <1>2 DEF Store!Next, Store!Publish, seen

LEMMA LateCounts ==
  ASSUME TypeInv, CountInv, NEW w \in Writes, ExecuteLate(w)
  PROVE  [Store!Next]_seen
<1>1. UNCHANGED <<pub, links>> /\ w[2] \in Signs /\ \E u \in Users : <<u, w[2]>> \in links
  BY DEF ExecuteLate, fsVars, Writes, CountInv, LateInv
<1>2. ref \in [Signs -> Nat]
  BY DEF TypeInv, TypeOK
<1>3. Executed(w[1], w[2]) \in {ref[w[2]], ref[w[2]] + 1}
  BY <1>1, <1>2 DEF Executed
<1>4. ref' = ref \/ ref' = [ref EXCEPT ![w[2]] = ref[w[2]] + 1]
  BY <1>1, <1>2, <1>3 DEF ExecuteLate
<1> QED
  BY <1>1, <1>4 DEF Store!Next, Store!Count, seen

LEMMA UnseenWorld ==
  ASSUME \/ \E u \in Users : CreateUsrDir(u)
         \/ Kill \/ Restart \/ Drained \/ UNCHANGED vars
  PROVE  UNCHANGED seen
BY DEF CreateUsrDir, Kill, Die, Restart, Drained, vars, fsVars, seen

LEMMA MovePublishes ==
  ASSUME TypeInv, NEW h \in Handlers, MvDir(h)
  PROVE  [Store!Next]_seen
<1>1. UNCHANGED <<links, ref>> /\ req[h].sign \in Signs
  <2>1. pc[h] # "idle"
    BY DEF MvDir, At
  <2> QED
    BY <2>1, Paths DEF MvDir, TypeInv
<1>2. pub' = pub \/ pub' = pub \cup {req[h].sign}
  BY DEF MvDir, MoveToFiles, owner
<1> QED
  BY <1>1, <1>2 DEF Store!Next, Store!Publish, seen

LEMMA LinkOwns ==
  ASSUME TypeInv, PlaceInv, NEW h \in Handlers, LinkToUsr(h)
  PROVE  [Store!Next]_seen
<1>1. pc[h] = "link" /\ UNCHANGED <<pub, ref>>
  BY DEF LinkToUsr, At
<1>2. req[h].sign \in pub /\ req[h].sign \in Signs /\ req[h].usr \in Users
  BY <1>1, Paths DEF PlaceInv, TypeInv
<1>3. links' = links \/ links' = links \cup {<<req[h].usr, req[h].sign>>}
  BY DEF LinkToUsr, owner
<1> QED
  BY <1>1, <1>2, <1>3 DEF Store!Next, Store!Own, seen

LEMMA ReplyCounts ==
  ASSUME TypeInv, CountInv, NEW h \in Handlers, CleanReply(h) \/ RacedReply(h)
  PROVE  [Store!Next]_seen
<1> DEFINE sign == req[h].sign
<1>1. pc[h] = "await" /\ UNCHANGED <<pub, links>>
  BY DEF CleanReply, RacedReply, At, fsVars
<1>2. sign \in Signs /\ req[h].usr \in Users
  BY <1>1, Paths DEF TypeInv
<1>3. <<req[h].usr, sign>> \in links
  BY <1>1 DEF CountInv, LinkInv, AtDatabase, owner
<1>4. PICK executed, ok \in BOOLEAN : Answered(h, executed, ok)
  <2>1. Succeeds(cmd[h], sign) \in BOOLEAN
    BY DEF Succeeds
  <2> QED
    BY <2>1 DEF CleanReply, RacedReply
<1>5. ref \in [Signs -> Nat]
  BY DEF TypeInv, TypeOK
<1>6. Executed(cmd[h], sign) \in {ref[sign], ref[sign] + 1}
  BY <1>2, <1>5 DEF Executed
<1>7. ref' = ref \/ ref' = [ref EXCEPT ![sign] = ref[sign] + 1]
  BY <1>2, <1>4, <1>5, <1>6 DEF Answered, Ran
<1> QED
  BY <1>1, <1>2, <1>3, <1>7 DEF Store!Next, Store!Count, seen

LEMMA NextStoreStep ==
  TypeInv /\ CountInv /\ PlaceInv /\ [Next]_vars => [Store!Next]_seen
<1> SUFFICES ASSUME TypeInv, CountInv, PlaceInv, [Next]_vars PROVE [Store!Next]_seen
  OBVIOUS
<1>1. ASSUME NEW h \in Handlers, Receive(h) \/ Step(h)
      PROVE  [Store!Next]_seen
  BY <1>1, UnseenSteps, MovePublishes, LinkOwns, ReplyCounts DEF Step
<1>2. CASE \/ \E u \in Users : CreateUsrDir(u)
           \/ Kill \/ Restart \/ Drained \/ UNCHANGED vars
  BY <1>2, UnseenWorld
<1>3. CASE (\E w \in Writes : ExecuteLate(w)) \/ \E x \in orphans : OrphanEnds(x)
  BY <1>3, LateCounts, OrphanPublishes
<1> QED
  BY <1>1, <1>2, <1>3 DEF Next

(***************************************************************************)
(* With a working mv and popen every behaviour of the service, with any    *)
(* number of handlers, failures of other calls, overlapping exchanges and  *)
(* crashes, is one of DedupStore: published once and for ever, owned only  *)
(* when published, counted one by one and only when owned.                 *)
(***************************************************************************)
THEOREM StoreImplemented ==
  ASSUME "mv" \notin Faults, "popen" \notin Faults
  PROVE  Spec => ImplementsStore
<1>1. Init => Store!Init
  BY DEF Init, Store!Init
<1>2. TypeInv /\ CountInv /\ PlaceInv /\ [Next]_vars => [Store!Next]_(Store!vars)
  BY NextStoreStep DEF seen, Store!vars
<1> QED
  BY <1>1, <1>2, TypeInvariant, CountInvariant, PlaceInvariant, PTL
     DEF Spec, ImplementsStore, Store!Spec
-----------------------------------------------------------------------------
(***************************************************************************)
(* What a step of a handler does to the parts.  Most steps leave the files *)
(* and the descriptors where they are and move the handler on.  Around the *)
(* handlers only the mv of a process that died touches a part.             *)
(***************************************************************************)
files == <<fd, dirs, tmp, pub, stored>>

MovesOn(h) ==
  \/ pc[h] = "mkFiles" /\ pc'[h] = "existDir"
  \/ pc[h] = "existDir" /\ FileIsStored(h) /\ pc'[h] = "link"
  \/ /\ pc[h] = "existDir" /\ pc'[h] = "mkTmp"
     /\ ~FileIsStored(h) \/ May("opendir")
  \/ pc[h] = "existFile" /\ tmp[key(h)] # Absent /\ pc'[h] = "md5Old"
  \/ pc[h] = "existFile" /\ tmp[key(h)] = Absent /\ pc'[h] = "open"
  \/ pc[h] = "md5Old" /\ tmp[key(h)] \in {Absent, req[h].body} /\ pc'[h] = "open"
  \/ pc[h] = "md5Old" /\ pc'[h] = "delete"
  \/ pc[h] = "delete" /\ May("remove") /\ pc'[h] = "open"
  \/ pc[h] = "md5New" /\ pc'[h] = "ls"
  \/ pc[h] = "ls" /\ AllNames(h) /\ pc'[h] = "mv"
  \/ pc[h] = "mv" /\ pc'[h] = "link"
  \/ pc[h] \in {"link"} \cup AtDatabase /\ pc'[h] \in AtDatabase

Idles(h) == OthersKeep(h) /\ pc'[h] = "idle"
GoesOn(h) == OthersKeep(h) /\ req'[h] = req[h] /\ acked' = acked

Looks(h) ==
  /\ pc[h] \notin {"idle", "write"} /\ UNCHANGED files
  /\ Idles(h) \/ (GoesOn(h) /\ MovesOn(h))

Makes(h) ==
  /\ pc[h] = "mkTmp" /\ pc'[h] = "existFile" /\ GoesOn(h)
  /\ dirs' = dirs \cup {owner(h)}
  /\ UNCHANGED <<fd, tmp, pub, stored>>

Removes(h) ==
  /\ pc[h] = "delete" /\ pc'[h] = "open" /\ GoesOn(h)
  /\ tmp' = Removed(h)
  /\ fd' = [g \in Handlers |->
              IF fd[g] = "tmp" /\ key(g) = key(h) THEN "gone" ELSE fd[g]]
  /\ UNCHANGED <<dirs, pub, stored>>

Opens(h) ==
  /\ pc[h] = "open" /\ pc'[h] = "write" /\ GoesOn(h)
  /\ tmp' = [tmp EXCEPT ![key(h)] = IF @ = Absent THEN Empty ELSE @]
  /\ fd' = [fd EXCEPT ![h] = "tmp"]
  /\ UNCHANGED <<dirs, pub, stored>>

Stores(h) ==
  /\ pc[h] = "write" /\ pc'[h] = "md5New" /\ GoesOn(h) /\ WritePart(h)
  /\ fd' = [fd EXCEPT ![h] = "none"]
  /\ UNCHANGED <<dirs, pub>>

Moves(h) ==
  /\ pc[h] = "mv" /\ CanMove(owner(h)) /\ MoveToFiles(owner(h))
  /\ OthersKeep(h) /\ acked' = acked
  /\ pc'[h] = "idle" \/ (pc'[h] = "link" /\ req'[h] = req[h])

PartStep(h) ==
  Looks(h) \/ Makes(h) \/ Removes(h) \/ Opens(h) \/ Stores(h) \/ Moves(h)

LEMMA GotoGoesOn ==
  ASSUME TypeOK, NEW h \in Handlers, NEW l \in Locations, Goto(h, l)
  PROVE  GoesOn(h) /\ pc'[h] = l
BY GotoTo DEF Goto, GoesOn

LEMMA ReturnIdles ==
  ASSUME TypeOK, NEW h \in Handlers, NEW res \in BOOLEAN, Return(h, res)
  PROVE  Idles(h)
BY ReturnTo DEF Idles

LEMMA RunGoesOn ==
  ASSUME TypeOK, NEW h \in Handlers, NEW l \in Locations, NEW c \in Statements,
         Run(h, c, l)
  PROVE  GoesOn(h) /\ pc'[h] = l
BY RunTo DEF Run, GoesOn

LEMMA EarlyPartStep ==
  ASSUME TypeInv, NEW h \in Handlers,
         \/ MkFilesDir(h) \/ ExistDir(h) \/ MkTmpDir(h) \/ ExistFile(h) \/ Md5Old(h)
         \/ DeletePart(h) \/ OpenPart(h)
  PROVE  PartStep(h)
<1>1. TypeOK
  BY DEF TypeInv
<1>2. {"idle", "existDir", "mkTmp", "existFile", "md5Old", "delete", "open", "write",
       "link"} \subseteq Locations
  BY DEF Locations
<1>3. CASE MkFilesDir(h) \/ ExistDir(h)
  BY <1>1, <1>2, <1>3, GotoGoesOn, ReturnIdles
     DEF MkFilesDir, ExistDir, At, PartStep, Looks, MovesOn, files, fsVars
<1>4. CASE MkTmpDir(h)
  BY <1>1, <1>2, <1>4, GotoGoesOn, ReturnIdles
     DEF MkTmpDir, At, PartStep, Looks, Makes, files
<1>5. CASE ExistFile(h)
  BY <1>1, <1>2, <1>5, GotoGoesOn, ReturnIdles
     DEF ExistFile, At, PartStep, Looks, MovesOn, files, fsVars
<1>6. CASE Md5Old(h)
  <2>1. pc[h] = "md5Old" /\ UNCHANGED files
    BY <1>6 DEF Md5Old, At, files, fsVars
  <2>2. CASE Return(h, FALSE)
    BY <1>1, <2>1, <2>2, ReturnIdles DEF PartStep, Looks
  <2>3. CASE Goto(h, "delete")
    BY <1>1, <1>2, <2>1, <2>3, GotoGoesOn DEF PartStep, Looks, MovesOn
  <2>4. CASE TRUE \in Md5Matches(h) /\ Goto(h, "open")
    <3>1. tmp[key(h)] \in {Absent, req[h].body}
      BY <2>4 DEF Md5Matches, Md5
    <3> QED
      BY <1>1, <1>2, <2>1, <2>4, <3>1, GotoGoesOn DEF PartStep, Looks, MovesOn
  <2>5. \A same \in Md5Matches(h) : same \in BOOLEAN
    BY DEF Md5Matches
  <2> QED
    BY <1>6, <2>2, <2>3, <2>4, <2>5 DEF Md5Old
<1>7. CASE DeletePart(h)
  BY <1>1, <1>2, <1>7, GotoGoesOn
     DEF DeletePart, At, PartStep, Looks, MovesOn, Removes, files
<1>8. CASE OpenPart(h)
  BY <1>1, <1>2, <1>8, GotoGoesOn, ReturnIdles
     DEF OpenPart, At, PartStep, Looks, Opens, files
<1> QED
  BY <1>3, <1>4, <1>5, <1>6, <1>7, <1>8

LEMMA LatePartStep ==
  ASSUME TypeInv, NEW h \in Handlers,
         \/ WritePart(h) \/ Md5New(h) \/ AllPartArrived(h) \/ MvDir(h)
         \/ LinkToUsr(h) \/ SendQuery(h) \/ CleanReply(h) \/ RacedReply(h)
         \/ FetchRes(h) \/ Lock(h)
  PROVE  PartStep(h) \/ (pc[h] = "fetch" /\ Die)
<1>1. TypeOK
  BY DEF TypeInv
<1>2. /\ {"idle", "md5New", "ls", "mv", "link", "query", "await", "fetch", "lock"}
           \subseteq Locations
      /\ {"select", "insert", "update"} \subseteq Statements
  BY DEF Locations, Statements
<1>3. CASE WritePart(h)
  BY <1>1, <1>2, <1>3, GotoGoesOn DEF WritePart, At, PartStep, Stores
<1>4. CASE Md5New(h)
  <2>1. pc[h] = "md5New" /\ UNCHANGED files /\ (Goto(h, "ls") \/ Return(h, FALSE))
    BY <1>4 DEF Md5New, At, files, fsVars
  <2> QED
    BY <1>1, <1>2, <2>1, GotoGoesOn, ReturnIdles DEF PartStep, Looks, MovesOn
<1>5. CASE AllPartArrived(h)
  BY <1>1, <1>2, <1>5, GotoGoesOn, ReturnIdles
     DEF AllPartArrived, At, PartStep, Looks, MovesOn, files, fsVars
<1>6. CASE MvDir(h)
  <2>1. pc[h] = "mv" /\ (AfterMv(h) \/ Goto(h, "link"))
    BY <1>6 DEF MvDir, At
  <2>2. Goto(h, "link") \/ Return(h, FALSE)
    BY <2>1 DEF AfterMv
  <2>3. /\ OthersKeep(h) /\ acked' = acked
        /\ pc'[h] = "idle" \/ (pc'[h] = "link" /\ req'[h] = req[h])
    <3>1. CASE Goto(h, "link")
      BY <1>1, <1>2, <3>1, GotoGoesOn DEF GoesOn
    <3>2. CASE Return(h, FALSE)
      BY <1>1, <3>2, ReturnIdles DEF Idles, Return
    <3> QED
      BY <2>2, <3>1, <3>2
  <2>4. CASE CanMove(owner(h)) /\ MoveToFiles(owner(h))
    BY <2>1, <2>3, <2>4 DEF PartStep, Moves
  <2>5. CASE UNCHANGED files
    BY <2>1, <2>3, <2>5 DEF PartStep, Looks, Idles, GoesOn, MovesOn
  <2> QED
    BY <1>6, <2>4, <2>5 DEF MvDir, files
<1>7. CASE LinkToUsr(h)
  BY <1>1, <1>2, <1>7, RunGoesOn, ReturnIdles
     DEF LinkToUsr, At, PartStep, Looks, MovesOn, AtDatabase, files
<1>8. CASE SendQuery(h) \/ Lock(h)
  BY <1>1, <1>2, <1>8, GotoGoesOn, ReturnIdles
     DEF SendQuery, Lock, At, PartStep, Looks, MovesOn, AtDatabase, files, fsVars
<1>9. CASE CleanReply(h) \/ RacedReply(h)
  <2>1. pc[h] = "await" /\ UNCHANGED files
    BY <1>9 DEF CleanReply, RacedReply, At, files, fsVars
  <2>2. \E executed, ok \in BOOLEAN : Answered(h, executed, ok)
    <3>1. Succeeds(cmd[h], req[h].sign) \in BOOLEAN
      BY DEF Succeeds
    <3> QED
      BY <1>9, <3>1 DEF CleanReply, RacedReply
  <2>3. Goto(h, "fetch") \/ \E ok \in BOOLEAN : Return(h, ok)
    BY <2>2 DEF Answered
  <2> QED
    BY <1>1, <1>2, <2>1, <2>3, GotoGoesOn, ReturnIdles
       DEF PartStep, Looks, MovesOn, AtDatabase
<1>10. CASE FetchRes(h)
  BY <1>1, <1>2, <1>10, RunGoesOn
     DEF FetchRes, At, PartStep, Looks, MovesOn, AtDatabase, files, fsVars
<1> QED
  BY <1>3, <1>4, <1>5, <1>6, <1>7, <1>8, <1>9, <1>10

LEMMA StepIsPartStep ==
  ASSUME TypeInv, NEW h \in Handlers, Step(h)
  PROVE  PartStep(h) \/ (pc[h] = "fetch" /\ Die)
BY EarlyPartStep, LatePartStep DEF Step

\* The steps around the handlers.
Arrives(h) ==
  /\ pc[h] = "idle" /\ pc'[h] = "mkFiles"
  /\ req'[h] \in Request
  /\ \A g \in Handlers \ {h} : pc'[g] = pc[g] /\ req'[g] = req[g]
  /\ delivered[key(h)'] < MaxDeliver
  /\ delivered' = [delivered EXCEPT ![key(h)'] = @ + 1]
  /\ UNCHANGED <<files, acked>>

Dies ==
  /\ \A h \in Handlers : pc'[h] = "idle"
  /\ fd' = [h \in Handlers |-> "none"]
  /\ UNCHANGED <<dirs, tmp, pub, stored, delivered, acked>>
  /\ ~up'

Elsewhere == UNCHANGED <<pc, req, files, delivered, acked>>

OrphanMoves(x) ==
  /\ x \in orphans /\ CanMove(x[3]) /\ MoveToFiles(x[3])
  /\ UNCHANGED <<pc, req, delivered, acked>>

LEMMA ReceiveArrives ==
  ASSUME TypeInv, NEW h \in Handlers, Receive(h)
  PROVE  Arrives(h) /\ UNCHANGED <<up, restarts>>
<1> PICK k \in Keys, b \in Bodies :
      /\ delivered[k] < MaxDeliver
      /\ delivered' = [delivered EXCEPT ![k] = @ + 1]
      /\ req' = [req EXCEPT ![h] =
                   [usr |-> k[1], sign |-> k[2], part |-> k[3], body |-> b]]
  BY DEF Receive
<1>1. /\ pc[h] = "idle" /\ pc' = [pc EXCEPT ![h] = "mkFiles"]
      /\ UNCHANGED <<files, acked, up, restarts>>
  BY DEF Receive, At, files, fsVars
<1>2. [usr |-> k[1], sign |-> k[2], part |-> k[3], body |-> b] \in Request
  BY DEF Keys, Request
<1>3. req'[h] = [usr |-> k[1], sign |-> k[2], part |-> k[3], body |-> b]
  BY DEF TypeInv, TypeOK
<1>4. key(h)' = k
  BY <1>3 DEF key, Keys
<1>5. /\ pc'[h] = "mkFiles"
      /\ \A g \in Handlers \ {h} : pc'[g] = pc[g] /\ req'[g] = req[g]
  BY <1>1 DEF TypeInv, TypeOK
<1> QED
  BY <1>1, <1>2, <1>3, <1>4, <1>5 DEF Arrives

LEMMA DieDies == ASSUME Die PROVE Dies
BY DEF Die, Dies, fsVars

LEMMA StepDelivers ==
  ASSUME NEW h \in Handlers, Step(h)
  PROVE  UNCHANGED <<delivered, restarts>>
<1>1. Die => UNCHANGED <<delivered, restarts>>
  BY DEF Die
<1>2. CASE \/ MkFilesDir(h) \/ ExistDir(h) \/ MkTmpDir(h) \/ ExistFile(h) \/ Md5Old(h)
           \/ DeletePart(h) \/ OpenPart(h) \/ WritePart(h)
  BY <1>2 DEF MkFilesDir, ExistDir, MkTmpDir, ExistFile, Md5Old, DeletePart, OpenPart,
              WritePart, worldVars
<1>3. CASE \/ Md5New(h) \/ AllPartArrived(h) \/ MvDir(h) \/ LinkToUsr(h)
           \/ SendQuery(h) \/ CleanReply(h) \/ RacedReply(h) \/ FetchRes(h) \/ Lock(h)
  BY <1>1, <1>3 DEF Md5New, AllPartArrived, MvDir, LinkToUsr, SendQuery, CleanReply,
                    RacedReply, FetchRes, Lock, worldVars
<1> QED
  BY <1>2, <1>3 DEF Step

\* Every step of the service is one of these.
LEMMA NextPartStep ==
  ASSUME TypeInv, [Next]_vars
  PROVE  \/ Elsewhere
         \/ Dies
         \/ \E x \in orphans : OrphanMoves(x)
         \/ \E h \in Handlers :
              \/ Arrives(h)
              \/ PartStep(h) /\ delivered' = delivered
<1>1. ASSUME NEW h \in Handlers, Receive(h)
      PROVE  Arrives(h)
  BY <1>1, ReceiveArrives
<1>2. ASSUME NEW h \in Handlers, Step(h)
      PROVE  Dies \/ (PartStep(h) /\ delivered' = delivered)
  BY <1>2, StepIsPartStep, StepDelivers, DieDies
<1>3. Kill => Dies
  BY DieDies DEF Kill
<1>4. (\E u \in Users : CreateUsrDir(u)) \/ (\E w \in Writes : ExecuteLate(w)) => Elsewhere
  BY DEF CreateUsrDir, ExecuteLate, Elsewhere, files, handlerVars, fsVars, worldVars
<1>5. Restart \/ Drained \/ UNCHANGED vars => Elsewhere
  BY DEF Restart, Drained, vars, Elsewhere, files, handlerVars, fsVars
<1>6. ASSUME NEW x \in orphans, OrphanEnds(x)
      PROVE  Elsewhere \/ OrphanMoves(x)
  BY <1>6 DEF OrphanEnds, OrphanMoves, Elsewhere, files
<1> QED
  BY <1>1, <1>2, <1>3, <1>4, <1>5, <1>6 DEF Next

\* An orphan was the mv of a handler when the process died.
LEMMA OrphansCome ==
  ASSUME [Next]_vars, NEW x \in orphans', x \notin orphans
  PROVE  Dies /\ \E h \in Handlers : pc[h] = "mv" /\ x[3] = owner(h)
<1>1. CASE Die
  <2>1. PICK alive \in SUBSET {h \in Handlers : pc[h] = "mv"} :
          orphans' = orphans \cup {<<restarts, h, owner(h)>> : h \in alive}
    BY <1>1 DEF Die
  <2>2. PICK h \in alive : x = <<restarts, h, owner(h)>>
    BY <2>1
  <2> QED
    BY <1>1, <2>2, DieDies
<1>2. CASE ~Die
  <2>1. ASSUME NEW h \in Handlers, Receive(h) \/ Step(h)
        PROVE  FALSE
    BY <1>2, <2>1 DEF Receive, Step, MkFilesDir, ExistDir, MkTmpDir, ExistFile, Md5Old,
       DeletePart, OpenPart, WritePart, Md5New, AllPartArrived, MvDir, LinkToUsr,
       SendQuery, CleanReply, RacedReply, FetchRes, Lock, worldVars
  <2>2. ~Kill /\ ~Restart /\ ~Drained /\ ~UNCHANGED vars
    BY <1>2 DEF Kill, Restart, Drained, vars
  <2>3. (\A u \in Users : ~CreateUsrDir(u)) /\ (\A w \in Writes : ~ExecuteLate(w))
    BY DEF CreateUsrDir, ExecuteLate, worldVars
  <2>4. \A y \in orphans : ~OrphanEnds(y)
    BY DEF OrphanEnds
  <2> QED
    BY <2>1, <2>2, <2>3, <2>4 DEF Next
<1> QED
  BY <1>1, <1>2

\* LsDir found Shards names: every part is there.
LEMMA AllNamesMeans ==
  ASSUME TypeOK, NEW h \in Handlers, AllNames(h), NEW p \in Parts
  PROVE  tmp[<<req[h].usr, req[h].sign, p>>] # Absent
<1> DEFINE here == PartsIn(owner(h))
<1>1. IsFiniteSet(Parts) /\ Cardinality(Parts) = Shards
  <2>1. Shards \in Nat /\ Shards >= 1
    BY UploadAssumption
  <2> QED
    BY <2>1, FS_Interval DEF Parts
<1>2. here \subseteq Parts /\ Cardinality(here) = Cardinality(Parts)
  BY <1>1 DEF PartsIn, AllNames
<1>3. here = Parts
  BY <1>1, <1>2, FS_Subset
<1>4. p \in here
  BY <1>3
<1> QED
  BY <1>4 DEF PartsIn, owner

\* A file appears under tmp by an open only,
LEMMA TmpAppears ==
  ASSUME TypeInv, [Next]_vars, NEW k \in Keys, tmp[k] = Absent, tmp'[k] # Absent
  PROVE  \E h \in Handlers : Opens(h) /\ key(h) = k
<1>1. ~Elsewhere /\ ~Dies
  BY DEF Elsewhere, Dies, files
<1>2. ASSUME NEW h \in Handlers, Arrives(h) \/ Looks(h) \/ Makes(h)
      PROVE  FALSE
  BY <1>2 DEF Arrives, Looks, Makes, files
<1>3. ASSUME NEW h \in Handlers, Removes(h)
      PROVE  FALSE
  BY <1>3 DEF Removes, Removed, TypeInv, TypeOK
<1>4. ASSUME NEW h \in Handlers, Opens(h)
      PROVE  key(h) = k
  BY <1>4 DEF Opens, TypeInv, TypeOK
<1>5. ASSUME NEW h \in Handlers, Stores(h)
      PROVE  FALSE
  <2>1. fd[h] = "tmp" => tmp[key(h)] # Absent
    BY DEF TypeInv, FdInv
  <2> QED
    BY <1>5, <2>1 DEF Stores, WritePart, TypeInv, TypeOK
<1>6. ASSUME (\E h \in Handlers : Moves(h)) \/ \E x \in orphans : OrphanMoves(x)
      PROVE  FALSE
  BY <1>6 DEF Moves, OrphanMoves, MoveToFiles
<1> QED
  BY <1>1, <1>2, <1>3, <1>4, <1>5, <1>6, NextPartStep DEF PartStep

\* and goes by a remove or with its directory.
LEMMA TmpGoes ==
  ASSUME TypeInv, [Next]_vars, NEW k \in Keys, tmp[k] # Absent, tmp'[k] = Absent
  PROVE  \/ \E h \in Handlers :
              \/ Removes(h) /\ key(h) = k
              \/ Moves(h) /\ owner(h) = <<k[1], k[2]>>
         \/ \E x \in orphans : OrphanMoves(x) /\ x[3] = <<k[1], k[2]>>
<1>1. ~Elsewhere /\ ~Dies
  BY DEF Elsewhere, Dies, files
<1>2. ASSUME NEW h \in Handlers, Arrives(h) \/ Looks(h) \/ Makes(h)
      PROVE  FALSE
  BY <1>2 DEF Arrives, Looks, Makes, files
<1>3. ASSUME NEW h \in Handlers, Removes(h)
      PROVE  key(h) = k
  BY <1>3 DEF Removes, Removed, TypeInv, TypeOK
<1>4. ASSUME NEW h \in Handlers, Opens(h)
      PROVE  FALSE
  <2>1. tmp' = [tmp EXCEPT ![key(h)] = IF tmp[key(h)] = Absent THEN Empty ELSE tmp[key(h)]]
    BY <1>4 DEF Opens
  <2>2. Empty # Absent
    BY EmptySeq, UploadAssumption DEF Empty
  <2> QED
    BY <2>1, <2>2 DEF TypeInv, TypeOK
<1>5. ASSUME NEW h \in Handlers, Stores(h)
      PROVE  FALSE
  <2>1. PICK bytes \in Taken(h) :
          tmp' = IF fd[h] = "tmp"
                 THEN [tmp EXCEPT ![key(h)] = Written(bytes, tmp[key(h)])] ELSE tmp
    BY <1>5 DEF Stores, WritePart
  <2>2. fd[h] = "tmp" /\ key(h) = k /\ Written(bytes, tmp[k]) = Absent
    BY <2>1 DEF TypeInv, TypeOK
  <2>3. bytes \in Seq(Byte) /\ tmp[k] \in Seq(Byte)
    BY <1>5, TakenType DEF Stores, TypeInv, TypeOK, Content
  <2>4. Written(bytes, tmp[k]) \in Seq(Byte)
    BY <2>3, WrittenType
  <2> QED
    BY <2>2, <2>4, UploadAssumption
<1>6. ASSUME NEW h \in Handlers, Moves(h)
      PROVE  owner(h) = <<k[1], k[2]>>
  BY <1>6 DEF Moves, MoveToFiles
<1>7. ASSUME NEW x \in orphans, OrphanMoves(x)
      PROVE  x[3] = <<k[1], k[2]>>
  BY <1>7 DEF OrphanMoves, MoveToFiles
<1> QED
  BY <1>1, <1>2, <1>3, <1>4, <1>5, <1>6, <1>7, NextPartStep DEF PartStep
-----------------------------------------------------------------------------
(***************************************************************************)
(* A published file has all its parts.  Between the count of the names and *)
(* the move a part could go: by the remove of a second delivery of that    *)
(* part, or because another handler moved the directory and a third one    *)
(* made a new one.  MoveInv says that neither happens to a directory that  *)
(* a handler, or an mv whose handler died, is about to move.               *)
(***************************************************************************)
Moving(o) ==
  \/ \E h \in Handlers : pc[h] = "mv" /\ owner(h) = o
  \/ \E x \in orphans : x[3] = o

Complete(o) == \A p \in Parts : tmp[<<o[1], o[2], p>>] # Absent

MoveInv == \A o \in Owners : Moving(o) /\ o \in dirs => Complete(o)

LEMMA PublishStep ==
  ASSUME TypeInv, MoveInv, PublishedHasAllParts, [Next]_vars
  PROVE  PublishedHasAllParts'
<1> SUFFICES ASSUME NEW s \in pub', NEW p \in Parts
             PROVE  stored'[<<s, p>>] # Absent
  BY DEF PublishedHasAllParts
<1>1. CASE s \in pub
  BY <1>1, StoredStep DEF PublishedHasAllParts
<1>2. CASE s \notin pub
  <2>1. PICK o \in Owners : Moving(o) /\ CanMove(o) /\ MoveToFiles(o)
    <3>1. ASSUME NEW h \in Handlers, pc[h] = "mv" PROVE owner(h) \in Owners /\ Moving(owner(h))
      BY <3>1, Paths DEF TypeInv, Moving
    <3>2. ASSUME NEW x \in orphans PROVE x[3] \in Owners /\ Moving(x[3])
      BY DEF TypeInv, TypeOK, Orphan, Moving
    <3> QED
      BY <1>2, <3>1, <3>2, StoreChange, WriteToStore
  <2>2. s = o[2] /\ s \in Signs
    BY <1>2, <2>1 DEF MoveToFiles, Owners
  <2>3. tmp[<<o[1], o[2], p>>] # Absent
    BY <2>1 DEF MoveInv, Complete, CanMove
  <2>4. stored'[<<s, p>>] = tmp[<<o[1], o[2], p>>]
    BY <2>1, <2>2 DEF MoveToFiles, Slots
  <2> QED
    BY <2>3, <2>4
<1> QED
  BY <1>1, <1>2

\* A handler that comes to the move has just counted all names.
LEMMA ComesToMove ==
  ASSUME TypeInv, [Next]_vars, NEW g \in Handlers, pc'[g] = "mv", pc[g] # "mv"
  PROVE  /\ pc[g] = "ls" /\ req'[g] = req[g]
         /\ UNCHANGED <<files, delivered>>
         /\ \A h \in Handlers \ {g} : pc'[h] = pc[h] /\ req'[h] = req[h]
         /\ \A p \in Parts : tmp[<<req[g].usr, req[g].sign, p>>] # Absent
<1>1. ~Elsewhere /\ ~Dies /\ \A x \in orphans : ~OrphanMoves(x)
  BY DEF Elsewhere, Dies, OrphanMoves
<1>2. PICK h \in Handlers : Arrives(h) \/ (PartStep(h) /\ delivered' = delivered)
  BY <1>1, NextPartStep
<1>3. h = g
  BY <1>2 DEF Arrives, PartStep, Looks, Makes, Removes, Opens, Stores, Moves, Idles,
              GoesOn, OthersKeep
<1>4. Looks(g) /\ delivered' = delivered
  BY <1>2, <1>3 DEF Arrives, PartStep, Makes, Removes, Opens, Stores, Moves
<1>5. pc[g] = "ls" /\ AllNames(g) /\ GoesOn(g)
  BY <1>4 DEF Looks, MovesOn, Idles, AtDatabase
<1> QED
  BY <1>4, <1>5, AllNamesMeans DEF Looks, GoesOn, OthersKeep, TypeInv

\* A directory about to be moved was so before, or its names were counted now.
LEMMA MovingBefore ==
  ASSUME TypeInv, [Next]_vars, NEW o \in Owners, Moving(o)', ~Moving(o)
  PROVE  \E g \in Handlers :
           /\ pc[g] = "ls" /\ owner(g) = o
           /\ UNCHANGED <<files, delivered>>
           /\ \A h \in Handlers \ {g} : pc'[h] = pc[h] /\ req'[h] = req[h]
           /\ pc'[g] = "mv" /\ req'[g] = req[g] /\ Complete(o)
<1>1. ASSUME NEW x \in orphans', x[3] = o
      PROVE  FALSE
  BY <1>1, OrphansCome DEF Moving
<1>2. PICK g \in Handlers : pc'[g] = "mv" /\ owner(g)' = o
  BY <1>1 DEF Moving
<1>3. CASE pc[g] # "mv"
  <2>1. /\ pc[g] = "ls" /\ req'[g] = req[g]
        /\ UNCHANGED <<files, delivered>>
        /\ \A h \in Handlers \ {g} : pc'[h] = pc[h] /\ req'[h] = req[h]
        /\ \A p \in Parts : tmp[<<req[g].usr, req[g].sign, p>>] # Absent
    BY <1>2, <1>3, ComesToMove
  <2>2. owner(g) = o /\ o[1] = req[g].usr /\ o[2] = req[g].sign
    BY <1>2, <2>1 DEF owner
  <2> QED
    BY <1>2, <2>1, <2>2 DEF Complete
<1>4. CASE pc[g] = "mv"
  <2>1. req'[g] = req[g] \/ Arrives(g)
    BY <1>2, NextPartStep DEF Elsewhere, Dies, OrphanMoves, Arrives, PartStep, Looks, Makes,
       Removes, Opens, Stores, Moves, Idles, GoesOn, OthersKeep
  <2>2. owner(g) = o
    BY <1>2, <1>4, <2>1 DEF Arrives, owner
  <2> QED
    BY <1>4, <2>2 DEF Moving
<1> QED
  BY <1>3, <1>4

\* A handler on its way to the open comes from further back, with the same
\* request.
Early == {"mkFiles", "existDir", "mkTmp", "existFile", "md5Old", "delete", "open"}

LEMMA StaysEarly ==
  ASSUME NEW h \in Handlers, PartStep(h), pc'[h] \in Early
  PROVE  pc[h] \in Early /\ req'[h] = req[h] /\ OthersKeep(h)
<1>1. CASE Looks(h)
  BY <1>1 DEF Looks, MovesOn, Idles, GoesOn, Early, AtDatabase
<1>2. CASE Makes(h) \/ Removes(h) \/ Opens(h) \/ Stores(h) \/ Moves(h)
  BY <1>2 DEF Makes, Removes, Opens, Stores, Moves, GoesOn, Early
<1> QED
  BY <1>1, <1>2 DEF PartStep

LEMMA PartStepOthers ==
  ASSUME NEW h \in Handlers, PartStep(h)
  PROVE  /\ pc[h] # "idle"
         /\ pc'[h] # "idle" => req'[h] = req[h]
         /\ OthersKeep(h)
BY DEF PartStep, Looks, Makes, Removes, Opens, Stores, Moves, Idles, GoesOn
-----------------------------------------------------------------------------
(***************************************************************************)
(* Every part is delivered once.  Then a part has one handler, which is    *)
(* the only one that opens it, and a part that is under tmp was opened.    *)
(***************************************************************************)
Once == \A k \in Keys : delivered[k] <= 1

\* No two handlers at work on the same part.
DistinctParts ==
  \A g, h \in Handlers :
    pc[g] # "idle" /\ pc[h] # "idle" /\ key(g) = key(h) => g = h

\* Part k has come in, and its handler is past the open.
Opened(k) ==
  /\ delivered[k] > 0
  /\ \A h \in Handlers : pc[h] \in Early => key(h) # k

AllOpened(o) == \A p \in Parts : Opened(<<o[1], o[2], p>>)

OnceInv ==
  /\ DistinctParts
  /\ \A h \in Handlers : pc[h] # "idle" => delivered[key(h)] > 0
  /\ \A k \in Keys : tmp[k] # Absent => Opened(k)
  /\ \A o \in Owners : Moving(o) => AllOpened(o)

LEMMA ArrivesOnce ==
  ASSUME TypeInv, NEW h \in Handlers, Arrives(h), Once'
  PROVE  key(h)' \in Keys /\ delivered[key(h)'] = 0
<1>1. key(h)' \in Keys
  BY DEF Arrives, Request, Keys, key
<1>2. delivered'[key(h)'] = delivered[key(h)'] + 1
  BY <1>1 DEF Arrives, TypeInv, TypeOK
<1> QED
  BY <1>1, <1>2 DEF Once, TypeInv, TypeOK

LEMMA DeliveredGrows ==
  ASSUME TypeInv, [Next]_vars, NEW k \in Keys
  PROVE  delivered'[k] >= delivered[k]
<1>1. ASSUME NEW h \in Handlers, Arrives(h) PROVE delivered'[k] >= delivered[k]
  <2>1. key(h)' \in Keys
    BY <1>1 DEF Arrives, Request, Keys, key
  <2> QED
    BY <1>1, <2>1 DEF Arrives, TypeInv, TypeOK
<1>2. delivered' = delivered => delivered'[k] >= delivered[k]
  BY DEF TypeInv, TypeOK
<1> QED
  BY <1>1, <1>2, NextPartStep DEF Elsewhere, Dies, OrphanMoves

LEMMA OpenedStays ==
  ASSUME TypeInv, [Next]_vars, Once', NEW k \in Keys, Opened(k)
  PROVE  Opened(k)'
<1>1. delivered'[k] > 0
  BY DeliveredGrows, NextType DEF Opened, TypeInv, TypeOK
<1> SUFFICES ASSUME NEW h \in Handlers, pc'[h] \in Early, key(h)' = k
             PROVE  FALSE
  BY <1>1 DEF Opened
<1>2. CASE Elsewhere \/ \E x \in orphans : OrphanMoves(x)
  BY <1>2 DEF Elsewhere, OrphanMoves, Opened, key
<1>3. CASE Dies
  BY <1>3 DEF Dies, Early
<1>4. ASSUME NEW g \in Handlers, Arrives(g)
      PROVE  FALSE
  <2>1. CASE g = h
    BY <1>4, <2>1, ArrivesOnce DEF Opened
  <2>2. CASE g # h
    BY <1>4, <2>2 DEF Arrives, Opened, key
  <2> QED
    BY <2>1, <2>2
<1>5. ASSUME NEW g \in Handlers, PartStep(g)
      PROVE  FALSE
  <2>1. CASE g = h
    BY <1>5, <2>1, StaysEarly DEF Opened, key
  <2>2. CASE g # h
    BY <1>5, <2>2, PartStepOthers DEF OthersKeep, Opened, key
  <2> QED
    BY <2>1, <2>2
<1> QED
  BY <1>2, <1>3, <1>4, <1>5, NextPartStep

\* The handlers that are at work after a step were at work before, on the
\* same part, but for one that takes a request.
LEMMA ActiveBefore ==
  ASSUME TypeInv, [Next]_vars, NEW h \in Handlers, pc'[h] # "idle"
  PROVE  \/ pc[h] # "idle" /\ req'[h] = req[h] /\ key(h)' = key(h)
         \/ Arrives(h)
<1>1. CASE Elsewhere \/ Dies \/ \E x \in orphans : OrphanMoves(x)
  BY <1>1 DEF Elsewhere, Dies, OrphanMoves, key
<1>2. ASSUME NEW g \in Handlers, Arrives(g), g # h
      PROVE  pc[h] # "idle" /\ req'[h] = req[h] /\ key(h)' = key(h)
  BY <1>2 DEF Arrives, key
<1>3. ASSUME NEW g \in Handlers, PartStep(g)
      PROVE  req'[h] = req[h] /\ key(h)' = key(h) /\ pc[h] # "idle"
  <2>1. CASE g = h
    <3>1. pc[h] # "idle" /\ req'[h] = req[h]
      BY <1>3, <2>1, PartStepOthers
    <3> QED
      BY <3>1 DEF key
  <2>2. CASE g # h
    <3>1. pc'[h] = pc[h] /\ req'[h] = req[h]
      BY <1>3, <2>2, PartStepOthers DEF OthersKeep
    <3> QED
      BY <3>1 DEF key
  <2> QED
    BY <2>1, <2>2
<1> QED
  BY <1>1, <1>2, <1>3, NextPartStep

LEMMA OnceStep ==
  ASSUME TypeInv, OnceInv, [Next]_vars, Once'
  PROVE  OnceInv'
<1>1. \A h \in Handlers : pc'[h] # "idle" => key(h)' \in Keys /\ delivered'[key(h)'] > 0
  <2> SUFFICES ASSUME NEW h \in Handlers, pc'[h] # "idle"
               PROVE  key(h)' \in Keys /\ delivered'[key(h)'] > 0
    OBVIOUS
  <2>1. CASE Arrives(h)
    <3>1. key(h)' \in Keys /\ delivered[key(h)'] = 0
      BY <2>1, ArrivesOnce
    <3> QED
      BY <2>1, <3>1 DEF Arrives, TypeInv, TypeOK
  <2>2. CASE pc[h] # "idle" /\ key(h)' = key(h)
    <3>1. key(h) \in Keys /\ delivered[key(h)] > 0
      BY <2>2, Paths DEF TypeInv, OnceInv
    <3>2. delivered'[key(h)] >= delivered[key(h)]
      BY <3>1, DeliveredGrows
    <3>3. delivered'[key(h)] > 0
      BY <3>1, <3>2, NextType DEF TypeInv, TypeOK
    <3> QED
      BY <2>2, <3>1, <3>3
  <2> QED
    BY <2>1, <2>2, ActiveBefore
<1>2. DistinctParts'
  <2> SUFFICES ASSUME NEW g \in Handlers, NEW h \in Handlers, g # h,
                      pc'[g] # "idle", pc'[h] # "idle", key(g)' = key(h)'
               PROVE  FALSE
    BY DEF DistinctParts
  <2>1. ~(Arrives(g) /\ Arrives(h))
    BY DEF Arrives
  <2>2. ASSUME NEW x \in Handlers, NEW y \in Handlers, Arrives(x),
               pc[y] # "idle", key(y) = key(x)'
        PROVE  FALSE
    BY <2>2, ArrivesOnce DEF OnceInv
  <2>3. CASE pc[g] # "idle" /\ pc[h] # "idle" /\ key(g)' = key(g) /\ key(h)' = key(h)
    BY <2>3 DEF OnceInv, DistinctParts
  <2> QED
    BY <2>1, <2>2, <2>3, ActiveBefore
<1>3. ASSUME NEW k \in Keys, tmp'[k] # Absent
      PROVE  Opened(k)'
  <2>1. CASE tmp[k] # Absent
    BY <2>1, OpenedStays DEF OnceInv
  <2>2. CASE tmp[k] = Absent
    <3>1. PICK h \in Handlers : Opens(h) /\ key(h) = k
      BY <1>3, <2>2, TmpAppears
    <3>2. pc[h] = "open" /\ pc'[h] = "write" /\ req'[h] = req[h] /\ OthersKeep(h)
      BY <3>1 DEF Opens, GoesOn
    <3>3. key(h)' = k /\ delivered'[k] > 0
      BY <1>1, <3>1, <3>2 DEF key
    <3>4. ASSUME NEW g \in Handlers, pc'[g] \in Early, key(g)' = k
          PROVE  FALSE
      <4>1. g # h
        BY <3>2, <3>4 DEF Early
      <4>2. pc[g] \in Early /\ key(g) = k
        BY <3>2, <3>4, <4>1 DEF OthersKeep, key
      <4>3. pc[g] # "idle" /\ pc[h] # "idle"
        BY <3>2, <4>2 DEF Early
      <4> QED
        BY <3>1, <4>1, <4>2, <4>3 DEF OnceInv, DistinctParts
    <3> QED
      BY <3>3, <3>4 DEF Opened
  <2> QED
    BY <2>1, <2>2
<1>4. ASSUME NEW o \in Owners, Moving(o)'
      PROVE  AllOpened(o)'
  <2>1. AllOpened(o)
    <3>1. CASE Moving(o)
      BY <3>1 DEF OnceInv
    <3>2. CASE ~Moving(o)
      <4>1. Complete(o)
        BY <1>4, <3>2, MovingBefore
      <4>2. \A p \in Parts : <<o[1], o[2], p>> \in Keys
        BY DEF Owners, Keys
      <4> QED
        BY <4>1, <4>2 DEF Complete, AllOpened, OnceInv
    <3> QED
      BY <3>1, <3>2
  <2>2. ASSUME NEW p \in Parts
        PROVE  Opened(<<o[1], o[2], p>>)'
    <3>1. PICK k \in Keys : k = <<o[1], o[2], p>>
      BY DEF Owners, Keys
    <3>2. Opened(k)'
      BY <2>1, <3>1, OpenedStays DEF AllOpened
    <3> QED
      BY <3>1, <3>2
  <2> QED
    BY <2>2 DEF AllOpened
<1> QED
  BY <1>1, <1>2, <1>3, <1>4 DEF OnceInv

LEMMA OnceMove ==
  ASSUME TypeInv, OnceInv, MoveInv, [Next]_vars
  PROVE  MoveInv'
<1> SUFFICES ASSUME NEW o \in Owners, Moving(o)', o \in dirs', NEW p \in Parts
             PROVE  tmp'[<<o[1], o[2], p>>] # Absent
  BY DEF MoveInv, Complete
<1> DEFINE k == <<o[1], o[2], p>>
<1>1. k \in Keys /\ k[1] = o[1] /\ k[2] = o[2] /\ o = <<k[1], k[2]>>
  BY DEF Owners, Keys
<1>2. CASE ~Moving(o)
  BY <1>2, MovingBefore DEF files, Complete
<1>3. CASE Moving(o) /\ tmp'[k] = Absent
  <2>1. Opened(k) /\ \A q \in Parts : Opened(<<o[1], o[2], q>>)
    BY <1>3 DEF OnceInv, AllOpened
  <2>2. o \in dirs
    <3> SUFFICES ASSUME o \notin dirs PROVE FALSE
      OBVIOUS
    <3>1. PICK h \in Handlers : Makes(h) /\ owner(h) = o
      BY NextPartStep DEF Elsewhere, Dies, OrphanMoves, Arrives, PartStep, Looks, Makes,
         Removes, Opens, Stores, Moves, MoveToFiles, files
    <3>2. pc[h] \in Early /\ key(h) = <<o[1], o[2], req[h].part>>
      BY <3>1 DEF Makes, Early, owner, key
    <3>3. req[h].part \in Parts
      BY <3>1, Paths DEF Makes, TypeInv
    <3> QED
      BY <2>1, <3>2, <3>3 DEF Opened
  <2>3. tmp[k] # Absent
    BY <1>3, <2>2 DEF MoveInv, Complete
  <2>4. \/ \E h \in Handlers :
            \/ Removes(h) /\ key(h) = k
            \/ Moves(h) /\ owner(h) = o
        \/ \E x \in orphans : OrphanMoves(x) /\ x[3] = o
    BY <1>1, <1>3, <2>3, TmpGoes
  <2>5. ASSUME NEW h \in Handlers, Removes(h), key(h) = k
        PROVE  FALSE
    BY <2>1, <2>5 DEF Removes, Opened, Early
  <2>6. ~MoveToFiles(o)
    BY DEF MoveToFiles
  <2> QED
    BY <2>4, <2>5, <2>6 DEF Moves, OrphanMoves
<1> QED
  BY <1>2, <1>3

LEMMA OnceBefore ==
  ASSUME TypeInv, [Next]_vars, Once'
  PROVE  Once
<1> SUFFICES ASSUME NEW k \in Keys PROVE delivered[k] <= 1
  BY DEF Once
<1>1. delivered'[k] <= 1 /\ delivered'[k] >= delivered[k]
  BY DeliveredGrows DEF Once
<1> QED
  BY <1>1, NextType DEF TypeInv, TypeOK

LEMMA InitOnce == Init => OnceInv /\ MoveInv /\ PublishedHasAllParts
<1> SUFFICES ASSUME Init PROVE OnceInv /\ MoveInv /\ PublishedHasAllParts
  OBVIOUS
<1>1. \A o : ~Moving(o)
  BY DEF Init, Moving
<1>2. OnceInv
  BY <1>1 DEF Init, OnceInv, DistinctParts
<1>3. MoveInv /\ PublishedHasAllParts
  BY <1>1 DEF Init, MoveInv, PublishedHasAllParts
<1> QED
  BY <1>2, <1>3

OncePublished == Once => OnceInv /\ MoveInv /\ PublishedHasAllParts

LEMMA OncePublishedInvariant == Spec => []OncePublished
<1>1. Init => OncePublished
  BY InitOnce DEF OncePublished
<1>2. TypeInv /\ OncePublished /\ [Next]_vars => OncePublished'
  <2> SUFFICES ASSUME TypeInv, OncePublished, [Next]_vars, Once'
               PROVE  OnceInv' /\ MoveInv' /\ PublishedHasAllParts'
    BY DEF OncePublished
  <2>1. OnceInv /\ MoveInv /\ PublishedHasAllParts
    BY OnceBefore DEF OncePublished
  <2> QED
    BY <2>1, OnceStep, OnceMove, PublishStep
<1> QED
  BY <1>1, <1>2, TypeInvariant, PTL DEF Spec

\* Deliveries are bounded by MaxDeliver.
LEMMA OnceInvariant ==
  ASSUME MaxDeliver <= 1
  PROVE  Spec => []Once
<1>1. Init => Once
  BY DEF Init, Once
<1>2. TypeInv /\ Once /\ [Next]_vars => Once'
  <2> SUFFICES ASSUME TypeInv, Once, [Next]_vars, NEW k \in Keys
               PROVE  delivered'[k] <= 1
    BY DEF Once
  <2>1. ASSUME NEW h \in Handlers, Arrives(h)
        PROVE  delivered'[k] <= 1
    <3>1. key(h)' \in Keys
      BY <2>1 DEF Arrives, Request, Keys, key
    <3> QED
      BY <2>1, <3>1, UploadAssumption DEF Arrives, Once, TypeInv, TypeOK
  <2> QED
    BY <2>1, NextPartStep DEF Once, Elsewhere, Dies, OrphanMoves
<1> QED
  BY <1>1, <1>2, TypeInvariant, PTL DEF Spec

(***************************************************************************)
(* When no part is delivered twice a published file has all its parts:     *)
(* for any number of handlers, users and parts, whatever fails, and        *)
(* however often the process dies.                                         *)
(***************************************************************************)
THEOREM PublishedComplete ==
  ASSUME MaxDeliver <= 1
  PROVE  Spec => []PublishedHasAllParts
<1>1. Once /\ OncePublished => PublishedHasAllParts
  BY DEF OncePublished
<1> QED
  BY <1>1, OnceInvariant, OncePublishedInvariant, PTL
-----------------------------------------------------------------------------
(***************************************************************************)
(* One request at a time, and no mv left behind by a process that was      *)
(* killed: parts may then be delivered again.                              *)
(***************************************************************************)
OneAtATime ==
  \A g, h \in Handlers : pc[g] # "idle" /\ pc[h] # "idle" => g = h

LEMMA AloneMove ==
  ASSUME TypeInv, OneAtATime, OneAtATime', MoveInv, orphans = {}, [Next]_vars
  PROVE  MoveInv'
<1> SUFFICES ASSUME NEW o \in Owners, Moving(o)', o \in dirs'
             PROVE  Complete(o)'
  BY DEF MoveInv
<1>1. CASE ~Moving(o)
  BY <1>1, MovingBefore DEF files, Complete
<1>2. CASE Moving(o)
  <2>1. PICK g \in Handlers : pc[g] = "mv" /\ owner(g) = o
    BY <1>2 DEF Moving
  <2>2. CASE UNCHANGED files
    BY <1>2, <2>2 DEF MoveInv, Complete, files
  <2>3. CASE ~UNCHANGED files
    <3>1. ASSUME NEW h \in Handlers, Arrives(h)
          PROVE  FALSE
      BY <2>3, <3>1 DEF Arrives
    <3>2. PICK h \in Handlers : PartStep(h) \/ Dies
      BY <2>1, <2>3, <3>1, NextPartStep DEF Elsewhere
    <3>3. CASE Dies
      BY <1>2, <3>3 DEF MoveInv, Complete, Dies
    <3>4. CASE PartStep(h)
      <4>1. h = g
        BY <2>1, <3>4, PartStepOthers DEF OneAtATime
      <4>2. Moves(g)
        BY <2>1, <2>3, <3>4, <4>1 DEF PartStep, Looks, Makes, Removes, Opens, Stores
      <4>3. o \notin dirs'
        BY <2>1, <4>2 DEF Moves, MoveToFiles
      <4> QED
        BY <4>3
    <3> QED
      BY <3>2, <3>3, <3>4
  <2> QED
    BY <2>2, <2>3
<1> QED
  BY <1>1, <1>2

\* One handler alone leaves no mv behind when it dies at a result set.
LEMMA AloneOrphans ==
  ASSUME TypeInv, OneAtATime, orphans = {}, "kill" \notin Faults, [Next]_vars
  PROVE  orphans' = {}
<1> SUFFICES ASSUME NEW x \in orphans' PROVE FALSE
  OBVIOUS
<1>1. Dies /\ \E h \in Handlers : pc[h] = "mv"
  BY OrphansCome
<1>2. PICK g \in Handlers : pc[g] = "mv" /\ pc'[g] = "idle"
  BY <1>1 DEF Dies
<1>3. ~Kill
  BY DEF Kill, May
<1>4. ASSUME NEW h \in Handlers, Receive(h) \/ Step(h)
      PROVE  FALSE
  <2>1. CASE Receive(h)
    BY <1>2, <2>1 DEF Receive, At, OneAtATime, TypeInv, TypeOK
  <2>2. CASE Step(h) /\ h # g
    <3>1. pc[h] # "idle"
      BY <2>2, StepIsPartStep, PartStepOthers
    <3> QED
      BY <1>2, <2>2, <3>1 DEF OneAtATime
  <2>3. CASE Step(h) /\ h = g
    BY <1>2, <2>3 DEF Step, MkFilesDir, ExistDir, MkTmpDir, ExistFile, Md5Old,
       DeletePart, OpenPart, WritePart, Md5New, AllPartArrived, MvDir, LinkToUsr,
       SendQuery, CleanReply, RacedReply, FetchRes, Lock, worldVars, At
  <2> QED
    BY <1>4, <2>1, <2>2, <2>3
<1>5. ~Restart /\ ~Drained /\ ~UNCHANGED vars
  BY DEF Restart, Drained, vars
<1>6. (\A u \in Users : ~CreateUsrDir(u)) /\ (\A w \in Writes : ~ExecuteLate(w))
  BY DEF CreateUsrDir, ExecuteLate, worldVars
<1> QED
  BY <1>3, <1>4, <1>5, <1>6 DEF Next

AlonePublished ==
  OneAtATime /\ orphans = {} /\ MoveInv /\ PublishedHasAllParts

LEMMA AloneInvariant ==
  ASSUME \A g, h \in Handlers : g = h, "kill" \notin Faults
  PROVE  Spec => []AlonePublished
<1>1. OneAtATime /\ OneAtATime'
  BY DEF OneAtATime
<1>2. Init => AlonePublished
  BY <1>1, InitOnce DEF AlonePublished, Init
<1>3. TypeInv /\ AlonePublished /\ [Next]_vars => AlonePublished'
  BY <1>1, AloneMove, AloneOrphans, PublishStep DEF AlonePublished
<1> QED
  BY <1>2, <1>3, TypeInvariant, PTL DEF Spec

(***************************************************************************)
(* With one handler, and a process that is not killed, a published file    *)
(* has all its parts however often they are delivered.                     *)
(***************************************************************************)
THEOREM AlonePublishedComplete ==
  ASSUME \A g, h \in Handlers : g = h, "kill" \notin Faults
  PROVE  Spec => []PublishedHasAllParts
<1>1. AlonePublished => PublishedHasAllParts
  BY DEF AlonePublished
<1> QED
  BY <1>1, AloneInvariant, PTL
-----------------------------------------------------------------------------
(***************************************************************************)
(* Every published part is a whole body.  A file is whole, or empty and    *)
(* under the descriptor of its one writer; W says which body fits which    *)
(* part.  WholeInv holds as long as no two handlers work on the same part, *)
(* write() stores all it is given, and DeleteFile works: a part that is    *)
(* opened again then holds what will be written to it, or nothing.         *)
(***************************************************************************)
ShortBody(b) ==
  b \in Seq(Byte) /\ Len(b) <= WRITE_LEN /\ \A i \in 1 .. Len(b) : b[i] # Nul

TmpWhole(W) ==
  \A k \in Keys : tmp[k] # Absent =>
    \/ <<k[3], tmp[k]>> \in W
    \/ \E h \in Handlers : fd[h] = "tmp" /\ key(h) = k

StoredWhole(W) ==
  \A x \in Slots : stored[x] # Absent =>
    \/ <<x[2], stored[x]>> \in W
    \/ \E h \in Handlers : fd[h] = "pub" /\ slot(h) = x

ToBeWritten ==
  \A h \in Handlers :
    /\ fd[h] = "tmp" => tmp[key(h)] \in {Empty, req[h].body}
    /\ fd[h] = "pub" => stored[slot(h)] \in {Empty, req[h].body}
    /\ pc[h] = "open" => tmp[key(h)] \in {Absent, req[h].body}

\* Descriptors on one published part stem from one upload.
OneUpload ==
  \A g, h \in Handlers :
    fd[g] = "pub" /\ fd[h] = "pub" /\ slot(g) = slot(h) => owner(g) = owner(h)

WholeInv(W) == TmpWhole(W) /\ StoredWhole(W) /\ ToBeWritten /\ OneUpload

\* The requests at work carry bodies that fit.
Fits(W) == \A h \in Handlers : pc[h] # "idle" => <<req[h].part, req[h].body>> \in W

LEMMA ShortBodyWritten ==
  ASSUME NEW b, ShortBody(b), NEW old \in {Empty, b}
  PROVE  Written(b, old) = b
<1>1. b \in Seq(Byte) /\ Len(b) \in Nat
  BY LenProperties DEF ShortBody
<1>2. CASE old = Empty
  BY <1>2, ShortBodyIsWritten DEF ShortBody
<1>3. CASE old = b
  <2>1. CStr(b) = b /\ Emitted(b) = b
    BY CStrFacts, EmittedFacts DEF ShortBody
  <2>2. SubSeq(b, Len(b) + 1, Len(b)) = <<>>
    BY <1>1, SubSeqProperties, EmptySeq
  <2>3. b \o <<>> = b
    BY <1>1, ConcatEmptySeq
  <2> QED
    BY <1>3, <2>1, <2>2, <2>3 DEF Written, Overlay
<1> QED
  BY <1>2, <1>3

\* Steps that move nothing: the handler goes on without a descriptor.
LEMMA WholeLooks ==
  ASSUME TypeInv, NEW W, WholeInv(W), NEW h \in Handlers,
         Looks(h) \/ Makes(h) \/ Arrives(h), "remove" \notin Faults
  PROVE  WholeInv(W)'
<1>1. /\ UNCHANGED <<fd, tmp, stored>> /\ fd[h] = "none"
      /\ \A g \in Handlers \ {h} : pc'[g] = pc[g] /\ req'[g] = req[g]
  <2>1. pc[h] # "write"
    BY DEF Looks, Makes, Arrives
  <2> QED
    BY <2>1 DEF Looks, Makes, Arrives, files, TypeInv, FdInv, Idles, GoesOn, OthersKeep
<1>2. \A g \in Handlers \ {h} : key(g)' = key(g) /\ slot(g)' = slot(g) /\ owner(g)' = owner(g)
  BY <1>1 DEF key, slot, owner
<1>3. ASSUME pc'[h] = "open"
      PROVE  tmp[key(h)] \in {Absent, req[h].body} /\ req'[h] = req[h]
  BY <1>3 DEF Looks, Makes, Arrives, MovesOn, May, Idles, GoesOn, AtDatabase
<1>4. TmpWhole(W)' /\ StoredWhole(W)'
  BY <1>1, <1>2 DEF WholeInv, TmpWhole, StoredWhole
<1>5. ToBeWritten'
  <2> SUFFICES ASSUME NEW g \in Handlers
               PROVE  /\ fd'[g] = "tmp" => tmp'[key(g)'] \in {Empty, req'[g].body}
                      /\ fd'[g] = "pub" => stored'[slot(g)'] \in {Empty, req'[g].body}
                      /\ pc'[g] = "open" => tmp'[key(g)'] \in {Absent, req'[g].body}
    BY DEF ToBeWritten
  <2>1. CASE g = h
    BY <1>1, <1>3, <2>1 DEF key
  <2>2. CASE g # h
    BY <1>1, <1>2, <2>2 DEF WholeInv, ToBeWritten
  <2> QED
    BY <2>1, <2>2
<1>6. OneUpload'
  BY <1>1, <1>2 DEF WholeInv, OneUpload
<1> QED
  BY <1>4, <1>5, <1>6 DEF WholeInv

\* What the other handlers keep.
LEMMA OthersPaths ==
  ASSUME NEW h \in Handlers, OthersKeep(h), NEW g \in Handlers, g # h
  PROVE  /\ pc'[g] = pc[g] /\ req'[g] = req[g]
         /\ key(g)' = key(g) /\ slot(g)' = slot(g) /\ owner(g)' = owner(g)
BY DEF OthersKeep, key, slot, owner

LEMMA SamePaths ==
  ASSUME NEW h \in Handlers, req'[h] = req[h]
  PROVE  key(h)' = key(h) /\ slot(h)' = slot(h) /\ owner(h)' = owner(h)
BY DEF key, slot, owner

LEMMA WholeRemoves ==
  ASSUME TypeInv, DistinctParts, NEW W, WholeInv(W), NEW h \in Handlers, Removes(h)
  PROVE  WholeInv(W)'
<1>1. /\ pc[h] = "delete" /\ pc'[h] = "open" /\ req'[h] = req[h] /\ OthersKeep(h)
      /\ stored' = stored /\ tmp' = [tmp EXCEPT ![key(h)] = Absent]
      /\ fd[h] = "none" /\ key(h) \in Keys
  BY Paths DEF Removes, Removed, GoesOn, TypeInv, FdInv
<1>2. fd' = fd
  <2>1. ASSUME NEW g \in Handlers PROVE fd'[g] = fd[g]
    BY <1>1 DEF Removes, TypeInv, FdInv, DistinctParts
  <2> QED
    BY <2>1 DEF Removes, TypeInv, TypeOK
<1>3. \A g \in Handlers : key(g)' = key(g) /\ slot(g)' = slot(g) /\ owner(g)' = owner(g)
  BY <1>1, OthersPaths, SamePaths
<1>4. TmpWhole(W)' /\ StoredWhole(W)'
  BY <1>1, <1>2, <1>3 DEF WholeInv, TmpWhole, StoredWhole, TypeInv, TypeOK
<1>5. ToBeWritten'
  <2> SUFFICES ASSUME NEW g \in Handlers
               PROVE  /\ fd'[g] = "tmp" => tmp'[key(g)] \in {Empty, req'[g].body}
                      /\ fd'[g] = "pub" => stored'[slot(g)] \in {Empty, req'[g].body}
                      /\ pc'[g] = "open" => tmp'[key(g)] \in {Absent, req'[g].body}
    BY <1>3 DEF ToBeWritten
  <2>1. CASE g = h
    BY <1>1, <1>2, <2>1 DEF TypeInv, TypeOK
  <2>2. CASE g # h
    <3>1. pc'[g] = pc[g] /\ req'[g] = req[g]
      BY <1>1, <2>2, OthersPaths
    <3>2. fd[g] # "none" \/ pc[g] = "open" => pc[g] # "idle"
      BY DEF TypeInv, FdInv
    <3>3. pc[g] # "idle" => tmp'[key(g)] = tmp[key(g)]
      <4>1. pc[g] # "idle" => key(g) # key(h)
        BY <1>1, <2>2 DEF DistinctParts
      <4> QED
        BY <1>1, <4>1, Paths DEF TypeInv, TypeOK
    <3> QED
      BY <1>1, <1>2, <3>1, <3>2, <3>3 DEF WholeInv, ToBeWritten
  <2> QED
    BY <2>1, <2>2
<1>6. OneUpload'
  BY <1>2, <1>3 DEF WholeInv, OneUpload
<1> QED
  BY <1>4, <1>5, <1>6 DEF WholeInv

LEMMA WholeOpens ==
  ASSUME TypeInv, DistinctParts, NEW W, WholeInv(W), NEW h \in Handlers, Opens(h)
  PROVE  WholeInv(W)'
<1>1. /\ pc[h] = "open" /\ pc'[h] = "write" /\ req'[h] = req[h] /\ OthersKeep(h)
      /\ stored' = stored /\ fd' = [fd EXCEPT ![h] = "tmp"]
      /\ tmp' = [tmp EXCEPT ![key(h)] = IF tmp[key(h)] = Absent THEN Empty ELSE tmp[key(h)]]
      /\ fd[h] = "none" /\ key(h) \in Keys
  BY Paths DEF Opens, GoesOn, TypeInv, FdInv
<1>2. \A g \in Handlers \ {h} : fd'[g] = fd[g]
  BY <1>1 DEF TypeInv, TypeOK
<1>3. \A g \in Handlers : key(g)' = key(g) /\ slot(g)' = slot(g) /\ owner(g)' = owner(g)
  BY <1>1, OthersPaths, SamePaths
<1>4. fd'[h] = "tmp" /\ tmp'[key(h)] \in {Empty, req[h].body}
  BY <1>1 DEF WholeInv, ToBeWritten, TypeInv, TypeOK
<1>5. TmpWhole(W)'
  <2> SUFFICES ASSUME NEW k \in Keys, tmp'[k] # Absent
               PROVE  \/ <<k[3], tmp'[k]>> \in W
                      \/ \E g \in Handlers : fd'[g] = "tmp" /\ key(g) = k
    BY <1>3 DEF TmpWhole
  <2>1. CASE k = key(h)
    BY <1>4, <2>1
  <2>2. CASE k # key(h)
    <3>1. tmp'[k] = tmp[k]
      BY <1>1, <2>2 DEF TypeInv, TypeOK
    <3>2. CASE <<k[3], tmp[k]>> \in W
      BY <3>1, <3>2
    <3>3. CASE \E g \in Handlers : fd[g] = "tmp" /\ key(g) = k
      BY <1>2, <2>2, <3>3
    <3> QED
      BY <3>1, <3>2, <3>3 DEF WholeInv, TmpWhole
  <2> QED
    BY <2>1, <2>2
<1>6. StoredWhole(W)'
  <2>1. \A g \in Handlers : fd[g] = "pub" => fd'[g] = "pub"
    BY <1>1, <1>2
  <2> QED
    BY <1>1, <1>3, <2>1 DEF WholeInv, StoredWhole
<1>7. ToBeWritten'
  <2> SUFFICES ASSUME NEW g \in Handlers
               PROVE  /\ fd'[g] = "tmp" => tmp'[key(g)] \in {Empty, req'[g].body}
                      /\ fd'[g] = "pub" => stored'[slot(g)] \in {Empty, req'[g].body}
                      /\ pc'[g] = "open" => tmp'[key(g)] \in {Absent, req'[g].body}
    BY <1>3 DEF ToBeWritten
  <2>1. CASE g = h
    BY <1>1, <1>4, <2>1
  <2>2. CASE g # h
    <3>1. pc'[g] = pc[g] /\ req'[g] = req[g] /\ fd'[g] = fd[g]
      BY <1>1, <1>2, <2>2, OthersPaths
    <3>2. fd[g] # "none" \/ pc[g] = "open" => pc[g] # "idle"
      BY DEF TypeInv, FdInv
    <3>3. pc[g] # "idle" => tmp'[key(g)] = tmp[key(g)]
      <4>1. pc[g] # "idle" => key(g) # key(h)
        BY <1>1, <2>2 DEF DistinctParts
      <4> QED
        BY <1>1, <4>1, Paths DEF TypeInv, TypeOK
    <3> QED
      BY <1>1, <3>1, <3>2, <3>3 DEF WholeInv, ToBeWritten
  <2> QED
    BY <2>1, <2>2
<1>8. OneUpload'
  <2>1. \A g \in Handlers : fd'[g] = "pub" => fd[g] = "pub"
    BY <1>2, <1>4
  <2> QED
    BY <1>3, <2>1 DEF WholeInv, OneUpload
<1> QED
  BY <1>5, <1>6, <1>7, <1>8 DEF WholeInv

LEMMA WholeWrites ==
  ASSUME TypeInv, DistinctParts, NEW W, WholeInv(W), Fits(W), NEW h \in Handlers, Stores(h),
         "write" \notin Faults, \A x \in W : ShortBody(x[2])
  PROVE  WholeInv(W)'
<1> DEFINE body == req[h].body
<1>1. /\ pc[h] = "write" /\ pc'[h] = "md5New" /\ req'[h] = req[h] /\ OthersKeep(h)
      /\ fd' = [fd EXCEPT ![h] = "none"] /\ key(h) \in Keys /\ slot(h) \in Slots
  BY Paths DEF Stores, GoesOn, TypeInv, FdInv
<1>2. <<req[h].part, body>> \in W /\ ShortBody(body)
  <2>1. <<req[h].part, body>> \in W
    BY <1>1 DEF Fits
  <2> QED
    BY <2>1
<1>3. Taken(h) = {body}
  BY DEF Taken, May
<1>4. /\ tmp' = IF fd[h] = "tmp" THEN [tmp EXCEPT ![key(h)] = Written(body, tmp[key(h)])] ELSE tmp
      /\ stored' = IF fd[h] = "pub"
                   THEN [stored EXCEPT ![slot(h)] = Written(body, stored[slot(h)])] ELSE stored
  BY <1>3 DEF Stores, WritePart
<1>5. fd[h] = "tmp" => Written(body, tmp[key(h)]) = body
  BY <1>2, ShortBodyWritten DEF WholeInv, ToBeWritten
<1>6. fd[h] = "pub" => Written(body, stored[slot(h)]) = body
  BY <1>2, ShortBodyWritten DEF WholeInv, ToBeWritten
<1>7. tmp' = IF fd[h] = "tmp" THEN [tmp EXCEPT ![key(h)] = body] ELSE tmp
  BY <1>4, <1>5
<1>8. stored' = IF fd[h] = "pub" THEN [stored EXCEPT ![slot(h)] = body] ELSE stored
  BY <1>4, <1>6
<1>9. \A g \in Handlers \ {h} : fd'[g] = fd[g]
  BY <1>1 DEF TypeInv, TypeOK
<1>10. \A g \in Handlers : key(g)' = key(g) /\ slot(g)' = slot(g) /\ owner(g)' = owner(g)
  BY <1>1, OthersPaths, SamePaths
<1>11. TmpWhole(W)'
  <2> SUFFICES ASSUME NEW k \in Keys, tmp'[k] # Absent
               PROVE  \/ <<k[3], tmp'[k]>> \in W
                      \/ \E g \in Handlers : fd'[g] = "tmp" /\ key(g) = k
    BY <1>10 DEF TmpWhole
  <2>1. CASE k = key(h) /\ fd[h] = "tmp"
    <3>1. tmp'[k] = body /\ k[3] = req[h].part
      BY <1>7, <2>1 DEF TypeInv, TypeOK, key
    <3> QED
      BY <1>2, <3>1
  <2>2. CASE ~(k = key(h) /\ fd[h] = "tmp")
    <3>1. tmp'[k] = tmp[k]
      BY <1>7, <2>2 DEF TypeInv, TypeOK
    <3>2. CASE <<k[3], tmp[k]>> \in W
      BY <3>1, <3>2
    <3>3. CASE \E g \in Handlers : fd[g] = "tmp" /\ key(g) = k
      BY <1>9, <2>2, <3>3
    <3> QED
      BY <3>1, <3>2, <3>3 DEF WholeInv, TmpWhole
  <2> QED
    BY <2>1, <2>2
<1>12. StoredWhole(W)'
  <2> SUFFICES ASSUME NEW x \in Slots, stored'[x] # Absent
               PROVE  \/ <<x[2], stored'[x]>> \in W
                      \/ \E g \in Handlers : fd'[g] = "pub" /\ slot(g) = x
    BY <1>10 DEF StoredWhole
  <2>1. CASE x = slot(h) /\ fd[h] = "pub"
    <3>1. stored'[x] = body /\ x[2] = req[h].part
      BY <1>8, <2>1 DEF TypeInv, TypeOK, slot
    <3> QED
      BY <1>2, <3>1
  <2>2. CASE ~(x = slot(h) /\ fd[h] = "pub")
    <3>1. stored'[x] = stored[x]
      BY <1>8, <2>2 DEF TypeInv, TypeOK
    <3>2. CASE <<x[2], stored[x]>> \in W
      BY <3>1, <3>2
    <3>3. CASE \E g \in Handlers : fd[g] = "pub" /\ slot(g) = x
      BY <1>9, <2>2, <3>3
    <3> QED
      BY <3>1, <3>2, <3>3 DEF WholeInv, StoredWhole
  <2> QED
    BY <2>1, <2>2
<1>13. ToBeWritten'
  <2> SUFFICES ASSUME NEW g \in Handlers
               PROVE  /\ fd'[g] = "tmp" => tmp'[key(g)] \in {Empty, req'[g].body}
                      /\ fd'[g] = "pub" => stored'[slot(g)] \in {Empty, req'[g].body}
                      /\ pc'[g] = "open" => tmp'[key(g)] \in {Absent, req'[g].body}
    BY <1>10 DEF ToBeWritten
  <2>1. CASE g = h
    BY <1>1, <2>1 DEF TypeInv, TypeOK
  <2>2. CASE g # h
    <3>1. pc'[g] = pc[g] /\ req'[g] = req[g] /\ fd'[g] = fd[g]
      BY <1>1, <1>9, <2>2, OthersPaths
    <3>2. fd[g] # "none" \/ pc[g] = "open" => pc[g] # "idle"
      BY DEF TypeInv, FdInv
    <3>3. pc[g] # "idle" => key(g) # key(h) /\ key(g) \in Keys /\ slot(g) \in Slots
      BY <1>1, <2>2, Paths DEF DistinctParts, TypeInv
    <3>4. pc[g] # "idle" => tmp'[key(g)] = tmp[key(g)]
      BY <1>7, <3>3 DEF TypeInv, TypeOK
    <3>5. fd[g] = "pub" => stored'[slot(g)] = stored[slot(g)]
      <4>1. ASSUME fd[g] = "pub", fd[h] = "pub" PROVE slot(g) # slot(h)
        BY <3>2, <3>3, <4>1 DEF WholeInv, OneUpload, slot, owner, key
      <4> QED
        BY <1>8, <3>2, <3>3, <4>1 DEF TypeInv, TypeOK
    <3> QED
      BY <3>1, <3>2, <3>4, <3>5 DEF WholeInv, ToBeWritten
  <2> QED
    BY <2>1, <2>2
<1>14. OneUpload'
  <2>1. \A g \in Handlers : fd'[g] = "pub" => fd[g] = "pub"
    BY <1>1, <1>9 DEF TypeInv, TypeOK
  <2> QED
    BY <1>10, <2>1 DEF WholeInv, OneUpload
<1> QED
  BY <1>11, <1>12, <1>13, <1>14 DEF WholeInv

\* The move takes descriptors along; the store has no part of the file yet.
LEMMA WholeMoves ==
  ASSUME TypeInv, NEW W, WholeInv(W), NEW h \in Handlers, Moves(h)
  PROVE  WholeInv(W)'
<1> DEFINE o == owner(h)
<1>1. /\ pc[h] = "mv" /\ OthersKeep(h) /\ pc'[h] \in {"idle", "link"}
      /\ fd[h] = "none" /\ o \in Owners
      /\ stored' = [x \in Slots |->
                      IF x[1] = o[2] THEN tmp[<<o[1], x[1], x[2]>>] ELSE stored[x]]
      /\ tmp' = [k \in Keys |-> IF <<k[1], k[2]>> = o THEN Absent ELSE tmp[k]]
      /\ fd' = [g \in Handlers |->
                  IF fd[g] = "tmp" /\ owner(g) = o THEN "pub" ELSE fd[g]]
  BY Paths DEF Moves, MoveToFiles, AfterRename, TypeInv, FdInv
<1>2. \A p \in Parts : stored[<<o[2], p>>] = Absent
  BY DEF Moves, CanMove, HasFiles, owner
<1>3. ASSUME NEW g \in Handlers, g # h
      PROVE  /\ pc'[g] = pc[g] /\ req'[g] = req[g]
             /\ key(g)' = key(g) /\ slot(g)' = slot(g) /\ owner(g)' = owner(g)
  BY <1>1, <1>3, OthersPaths
<1>4. fd'[h] = "none" /\ pc'[h] # "open"
  BY <1>1
<1>5. ASSUME NEW g \in Handlers, pc[g] # "idle"
      PROVE  /\ key(g) \in Keys /\ slot(g) \in Slots /\ slot(g)[2] \in Parts
             /\ <<key(g)[1], key(g)[2]>> = owner(g) /\ slot(g)[1] = owner(g)[2]
             /\ key(g) = <<owner(g)[1], slot(g)[1], slot(g)[2]>>
  BY <1>5, Paths DEF TypeInv, key, slot, owner
<1>6. \A g \in Handlers : fd[g] # "none" => pc[g] # "idle" /\ g # h
  BY <1>1 DEF TypeInv, FdInv
<1>7. ASSUME NEW g \in Handlers, fd[g] = "pub"
      PROVE  owner(g)[2] # o[2]
  <2>1. stored[slot(g)] # Absent
    BY <1>7 DEF TypeInv, FdInv
  <2>2. slot(g) = <<owner(g)[2], slot(g)[2]>> /\ slot(g)[2] \in Parts
    BY <1>5, <1>6, <1>7 DEF slot, owner
  <2> QED
    BY <1>2, <2>1, <2>2
<1>8. TmpWhole(W)'
  <2> SUFFICES ASSUME NEW k \in Keys, tmp'[k] # Absent
               PROVE  \/ <<k[3], tmp'[k]>> \in W
                      \/ \E g \in Handlers : fd'[g] = "tmp" /\ key(g)' = k
    BY DEF TmpWhole
  <2>1. <<k[1], k[2]>> # o /\ tmp'[k] = tmp[k]
    BY <1>1
  <2>2. ASSUME NEW g \in Handlers, fd[g] = "tmp", key(g) = k
        PROVE  fd'[g] = "tmp" /\ key(g)' = k
    BY <1>1, <1>3, <1>5, <1>6, <2>1, <2>2
  <2> QED
    BY <2>1, <2>2 DEF WholeInv, TmpWhole
<1>9. StoredWhole(W)'
  <2> SUFFICES ASSUME NEW x \in Slots, stored'[x] # Absent
               PROVE  \/ <<x[2], stored'[x]>> \in W
                      \/ \E g \in Handlers : fd'[g] = "pub" /\ slot(g)' = x
    BY DEF StoredWhole
  <2>1. CASE x[1] = o[2]
    <3>1. PICK k \in Keys : k = <<o[1], x[1], x[2]>>
      BY <1>1 DEF Keys, Slots, Owners
    <3>2. stored'[x] = tmp[k] /\ k[3] = x[2] /\ x = <<k[2], k[3]>> /\ <<k[1], k[2]>> = o
      BY <1>1, <2>1, <3>1 DEF Slots, Owners
    <3>3. ASSUME NEW g \in Handlers, fd[g] = "tmp", key(g) = k
          PROVE  fd'[g] = "pub" /\ slot(g)' = x
      <4>1. slot(g) = x
        BY <3>2, <3>3 DEF key, slot
      <4> QED
        BY <1>1, <1>3, <1>5, <1>6, <3>2, <3>3, <4>1
    <3> QED
      BY <3>2, <3>3 DEF WholeInv, TmpWhole
  <2>2. CASE x[1] # o[2]
    <3>1. stored'[x] = stored[x]
      BY <1>1, <2>2
    <3>2. ASSUME NEW g \in Handlers, fd[g] = "pub", slot(g) = x
          PROVE  fd'[g] = "pub" /\ slot(g)' = x
      BY <1>1, <1>3, <1>6, <3>2
    <3> QED
      BY <3>1, <3>2 DEF WholeInv, StoredWhole
  <2> QED
    BY <2>1, <2>2
<1>10. ToBeWritten'
  <2> SUFFICES ASSUME NEW g \in Handlers, g # h
               PROVE  /\ fd'[g] = "tmp" => tmp'[key(g)] \in {Empty, req[g].body}
                      /\ fd'[g] = "pub" => stored'[slot(g)] \in {Empty, req[g].body}
                      /\ pc[g] = "open" => tmp'[key(g)] \in {Absent, req[g].body}
    BY <1>3, <1>4 DEF ToBeWritten
  <2>1. ASSUME fd'[g] = "tmp" PROVE tmp'[key(g)] \in {Empty, req[g].body}
    <3>1. fd[g] = "tmp" /\ owner(g) # o
      BY <1>1, <2>1
    <3>2. tmp'[key(g)] = tmp[key(g)]
      BY <1>1, <1>5, <1>6, <3>1
    <3> QED
      BY <3>1, <3>2 DEF WholeInv, ToBeWritten
  <2>2. ASSUME fd'[g] = "pub" PROVE stored'[slot(g)] \in {Empty, req[g].body}
    <3>1. CASE fd[g] = "tmp" /\ owner(g) = o
      <4>1. stored'[slot(g)] = tmp[key(g)]
        BY <1>1, <1>5, <1>6, <3>1
      <4> QED
        BY <3>1, <4>1 DEF WholeInv, ToBeWritten
    <3>2. CASE fd[g] = "pub"
      <4>1. stored'[slot(g)] = stored[slot(g)]
        BY <1>1, <1>5, <1>6, <1>7, <3>2
      <4> QED
        BY <3>2, <4>1 DEF WholeInv, ToBeWritten
    <3> QED
      BY <1>1, <2>2, <3>1, <3>2
  <2>3. ASSUME pc[g] = "open" PROVE tmp'[key(g)] \in {Absent, req[g].body}
    BY <1>1, <1>5, <2>3 DEF WholeInv, ToBeWritten
  <2> QED
    BY <2>1, <2>2, <2>3
<1>11. OneUpload'
  <2> SUFFICES ASSUME NEW g \in Handlers, NEW f \in Handlers,
                      fd'[g] = "pub", fd'[f] = "pub", slot(g)' = slot(f)'
               PROVE  owner(g)' = owner(f)'
    BY DEF OneUpload
  <2>1. ASSUME NEW x \in Handlers, fd'[x] = "pub"
        PROVE  /\ fd[x] = "pub" \/ (fd[x] = "tmp" /\ owner(x) = o)
               /\ x # h /\ slot(x)' = slot(x) /\ owner(x)' = owner(x)
               /\ slot(x)[1] = owner(x)[2]
    BY <1>1, <1>3, <1>4, <2>1 DEF slot, owner
  <2>2. slot(g) = slot(f) /\ owner(g)[2] = owner(f)[2]
    BY <2>1
  <2>3. CASE fd[g] = "pub" /\ fd[f] = "pub"
    BY <2>1, <2>2, <2>3 DEF WholeInv, OneUpload
  <2>4. CASE ~(fd[g] = "pub" /\ fd[f] = "pub")
    BY <1>7, <2>1, <2>2, <2>4
  <2> QED
    BY <2>3, <2>4
<1> QED
  BY <1>8, <1>9, <1>10, <1>11 DEF WholeInv

LEMMA WholeStep ==
  ASSUME TypeInv, DistinctParts, NEW W, WholeInv(W), Fits(W), [Next]_vars, up',
         orphans = {}, Faults \cap {"write", "remove"} = {}, \A x \in W : ShortBody(x[2])
  PROVE  WholeInv(W)'
<1>1. CASE Elsewhere
  BY <1>1 DEF Elsewhere, files, WholeInv, TmpWhole, StoredWhole, ToBeWritten, OneUpload,
              key, slot, owner
<1>2. ~Dies
  BY DEF Dies
<1>3. ASSUME NEW h \in Handlers, Arrives(h) \/ PartStep(h)
      PROVE  WholeInv(W)'
  BY <1>3, WholeLooks, WholeRemoves, WholeOpens, WholeWrites, WholeMoves DEF PartStep
<1> QED
  BY <1>1, <1>2, <1>3, NextPartStep

\* A process that runs and was never restarted has not died.
LEMMA NeverDiedBefore ==
  ASSUME TypeInv, [Next]_vars, NeverDied'
  PROVE  NeverDied
<1>1. ASSUME NEW h \in Handlers, Step(h)
      PROVE  NeverDied
  <2>1. ~Die
    BY DEF Die, NeverDied
  <2>2. CASE \/ MkFilesDir(h) \/ ExistDir(h) \/ MkTmpDir(h) \/ ExistFile(h) \/ Md5Old(h)
             \/ DeletePart(h) \/ OpenPart(h) \/ WritePart(h)
    BY <2>2 DEF MkFilesDir, ExistDir, MkTmpDir, ExistFile, Md5Old, DeletePart, OpenPart,
                WritePart, worldVars, NeverDied
  <2>3. CASE \/ Md5New(h) \/ AllPartArrived(h) \/ MvDir(h) \/ LinkToUsr(h)
             \/ SendQuery(h) \/ CleanReply(h) \/ RacedReply(h) \/ FetchRes(h) \/ Lock(h)
    BY <2>1, <2>3 DEF Md5New, AllPartArrived, MvDir, LinkToUsr, SendQuery, CleanReply,
                      RacedReply, FetchRes, Lock, worldVars, NeverDied
  <2> QED
    BY <1>1, <2>2, <2>3 DEF Step
<1>2. ASSUME NEW h \in Handlers, Receive(h)
      PROVE  NeverDied
  BY <1>2, ReceiveArrives DEF NeverDied
<1>3. CASE Kill \/ Restart
  BY <1>3 DEF Kill, Die, Restart, NeverDied, TypeInv, TypeOK
<1>4. CASE \/ \E u \in Users : CreateUsrDir(u)
           \/ \E w \in Writes : ExecuteLate(w)
           \/ \E x \in orphans : OrphanEnds(x)
           \/ Drained \/ UNCHANGED vars
  BY <1>4 DEF CreateUsrDir, ExecuteLate, OrphanEnds, Drained, vars, worldVars, NeverDied
<1> QED
  BY <1>1, <1>2, <1>3, <1>4 DEF Next

\* It has left no mv behind.
LEMMA NeverDiedOrphans ==
  ASSUME [Next]_vars, NeverDied', orphans = {}
  PROVE  orphans' = {}
BY OrphansCome DEF Dies, NeverDied

\* Nothing is written any more when all handlers are idle.
LEMMA QuietIsWhole ==
  ASSUME TypeInv, Quiet, NEW W, WholeInv(W), NEW x \in Slots, stored[x] # Absent
  PROVE  <<x[2], stored[x]>> \in W
<1>1. \A h \in Handlers : fd[h] = "none"
  BY DEF Quiet, TypeInv, FdInv
<1> QED
  BY <1>1 DEF WholeInv, StoredWhole

AnyBody == Parts \X Bodies

WholeParts == NeverDied => orphans = {} /\ WholeInv(AnyBody)

LEMMA AnyBodyFits == TypeInv => Fits(AnyBody)
BY DEF TypeInv, ReqInv, Request, Fits, AnyBody

LEMMA InitWhole ==
  ASSUME NEW W, Init
  PROVE  WholeInv(W)
<1>1. TmpWhole(W) /\ StoredWhole(W)
  BY DEF Init, TmpWhole, StoredWhole
<1>2. ToBeWritten /\ OneUpload
  BY DEF Init, ToBeWritten, OneUpload
<1> QED
  BY <1>1, <1>2 DEF WholeInv

LEMMA WholePartsStep ==
  ASSUME \A b \in Bodies : ShortBody(b), Faults \cap {"write", "remove"} = {},
         TypeInv, DistinctParts, WholeParts, [Next]_vars
  PROVE  WholeParts'
<1> SUFFICES ASSUME NeverDied' PROVE orphans' = {} /\ WholeInv(AnyBody)'
  BY DEF WholeParts, AnyBody
<1>1. orphans = {} /\ WholeInv(AnyBody)
  BY NeverDiedBefore DEF WholeParts
<1>2. up' /\ \A x \in AnyBody : ShortBody(x[2])
  BY DEF NeverDied, AnyBody
<1>3. Fits(AnyBody)
  BY AnyBodyFits
<1> QED
  BY <1>1, <1>2, <1>3, WholeStep, NeverDiedOrphans

LEMMA WholePublished ==
  TypeInv /\ WholeParts /\ (NeverDied => PublishedHasAllParts) => PublishedPartsAreWhole
<1> SUFFICES ASSUME TypeInv, WholeParts, PublishedHasAllParts, Quiet, NeverDied,
                    NEW s \in pub, NEW p \in Parts
             PROVE  stored[<<s, p>>] \in Bodies
  BY DEF PublishedPartsAreWhole
<1>1. PICK x \in Slots : x = <<s, p>>
  BY DEF TypeInv, TypeOK, Slots
<1>2. stored[x] # Absent
  BY <1>1 DEF PublishedHasAllParts
<1>3. <<x[2], stored[x]>> \in AnyBody
  BY <1>2, QuietIsWhole DEF WholeParts
<1> QED
  BY <1>1, <1>3 DEF AnyBody

(***************************************************************************)
(* When no part is delivered twice, every published part is, once all      *)
(* requests are answered, a body that a client sent: for any number of     *)
(* handlers, users and files.  write() must store all it is given,         *)
(* DeleteFile must work, and a body must be short enough for one write and *)
(* free of the terminator: any other body fails its md5 check and stays    *)
(* under tmp all the same, where the next part counts it.                  *)
(***************************************************************************)
THEOREM PublishedWhole ==
  ASSUME MaxDeliver <= 1, Faults \cap {"write", "remove"} = {},
         \A b \in Bodies : ShortBody(b)
  PROVE  Spec => []PublishedPartsAreWhole
<1>1. Init => WholeParts
  BY InitWhole DEF WholeParts, Init
<1>2. TypeInv /\ DistinctParts /\ WholeParts /\ [Next]_vars => WholeParts'
  BY WholePartsStep
<1>3. Once /\ OncePublished => DistinctParts /\ PublishedHasAllParts
  BY DEF OncePublished, OnceInv
<1> QED
  BY <1>1, <1>2, <1>3, WholePublished, TypeInvariant, OnceInvariant,
     OncePublishedInvariant, PTL DEF Spec

AliveAlone == NeverDied => orphans = {} /\ MoveInv /\ PublishedHasAllParts

LEMMA AliveAloneStep ==
  ASSUME \A g, h \in Handlers : g = h, TypeInv, AliveAlone, [Next]_vars
  PROVE  AliveAlone'
<1> SUFFICES ASSUME NeverDied'
             PROVE  orphans' = {} /\ MoveInv' /\ PublishedHasAllParts'
  BY DEF AliveAlone
<1>1. orphans = {} /\ MoveInv /\ PublishedHasAllParts
  BY NeverDiedBefore DEF AliveAlone
<1>2. OneAtATime /\ OneAtATime'
  BY DEF OneAtATime
<1> QED
  BY <1>1, <1>2, AloneMove, PublishStep, NeverDiedOrphans

(***************************************************************************)
(* The same with one handler, however often a part is delivered.           *)
(***************************************************************************)
THEOREM AlonePublishedWhole ==
  ASSUME \A g, h \in Handlers : g = h, Faults \cap {"write", "remove"} = {},
         \A b \in Bodies : ShortBody(b)
  PROVE  Spec => []PublishedPartsAreWhole
<1>1. Init => WholeParts /\ AliveAlone
  BY InitWhole, InitOnce DEF WholeParts, AliveAlone, Init
<1>2. DistinctParts
  BY DEF DistinctParts
<1>3. TypeInv /\ WholeParts /\ AliveAlone /\ [Next]_vars => WholeParts' /\ AliveAlone'
  BY <1>2, WholePartsStep, AliveAloneStep
<1>4. AliveAlone => (NeverDied => PublishedHasAllParts)
  BY DEF AliveAlone
<1> QED
  BY <1>1, <1>3, <1>4, WholePublished, TypeInvariant, PTL DEF Spec

-----------------------------------------------------------------------------
(***************************************************************************)
(* An upload whose parts were all answered with success is linked.  The    *)
(* last handler of an upload to count the names finds them all, because    *)
(* an answered part keeps its name until the directory moves; and the      *)
(* handler that moves the directory answers only after its link.           *)
(***************************************************************************)
LEMMA LinksGrow ==
  ASSUME [Next]_vars
  PROVE  links \subseteq links'
<1>1. ASSUME NEW h \in Handlers, Receive(h) \/ (Step(h) /\ ~LinkToUsr(h))
      PROVE  links' = links
  BY <1>1 DEF Receive, Step, MkFilesDir, ExistDir, MkTmpDir, ExistFile, Md5Old,
     DeletePart, OpenPart, WritePart, Md5New, AllPartArrived, MvDir,
     SendQuery, CleanReply, RacedReply, FetchRes, Lock, Die, fsVars
<1>2. ASSUME NEW h \in Handlers, LinkToUsr(h)
      PROVE  links \subseteq links'
  BY <1>2 DEF LinkToUsr
<1>3. CASE \/ \E u \in Users : CreateUsrDir(u)
           \/ \E w \in Writes : ExecuteLate(w)
           \/ \E x \in orphans : OrphanEnds(x)
           \/ Kill \/ Restart \/ Drained \/ UNCHANGED vars
  BY <1>3 DEF CreateUsrDir, ExecuteLate, OrphanEnds, Kill, Die, Restart, Drained, vars, fsVars
<1> QED
  BY <1>1, <1>2, <1>3 DEF Next

\* Success is answered in two places only.
LEMMA Answers ==
  ASSUME TypeInv, [Next]_vars, acked' # acked
  PROVE  \E h \in Handlers :
           /\ Looks(h) /\ pc'[h] = "idle" /\ acked' = acked \cup {key(h)}
           /\ delivered' = delivered
           /\ \/ pc[h] = "ls" /\ AllPartArrived(h)
              \/ pc[h] = "await"
<1>1. ASSUME NEW h \in Handlers,
             \/ Receive(h) \/ MkFilesDir(h) \/ ExistDir(h) \/ MkTmpDir(h) \/ ExistFile(h)
             \/ Md5Old(h) \/ DeletePart(h) \/ OpenPart(h) \/ WritePart(h) \/ Md5New(h)
             \/ MvDir(h) \/ LinkToUsr(h) \/ SendQuery(h) \/ FetchRes(h) \/ Lock(h)
      PROVE  FALSE
  <2>1. ASSUME NEW g \in Handlers, NEW l, Goto(g, l) \/ Return(g, FALSE)
        PROVE  FALSE
    BY <2>1 DEF Goto, Return
  <2>2. ASSUME NEW g \in Handlers, NEW c, NEW l, Run(g, c, l)
        PROVE  FALSE
    BY <2>2 DEF Run
  <2>3. ~Die /\ ~Receive(h)
    BY DEF Die, Receive
  <2>4. ASSUME AfterMv(h) PROVE FALSE
    BY <2>1, <2>4 DEF AfterMv
  <2> QED
    BY <1>1, <2>1, <2>2, <2>3, <2>4 DEF MkFilesDir, ExistDir, MkTmpDir, ExistFile, Md5Old,
       DeletePart, OpenPart, WritePart, Md5New, MvDir, LinkToUsr, SendQuery, FetchRes, Lock
<1>2. ~\/ \E u \in Users : CreateUsrDir(u)
       \/ \E w \in Writes : ExecuteLate(w)
       \/ \E x \in orphans : OrphanEnds(x)
       \/ Kill \/ Restart \/ Drained \/ UNCHANGED vars
  BY DEF CreateUsrDir, ExecuteLate, OrphanEnds, Kill, Die, Restart, Drained, vars
<1>3. PICK h \in Handlers : AllPartArrived(h) \/ CleanReply(h) \/ RacedReply(h)
  BY <1>1, <1>2 DEF Next, Step
<1>4. \/ pc[h] = "ls" /\ AllPartArrived(h)
      \/ pc[h] = "await" /\ (CleanReply(h) \/ RacedReply(h))
  BY <1>3 DEF AllPartArrived, CleanReply, RacedReply, At
<1>5. Step(h)
  BY <1>3 DEF Step
<1>6. PartStep(h) /\ delivered' = delivered
  BY <1>4, <1>5, StepIsPartStep, StepDelivers
<1>7. Looks(h)
  BY <1>4, <1>6 DEF PartStep, Makes, Removes, Opens, Stores, Moves
<1>8. \E res \in BOOLEAN : Return(h, res)
  <2>1. CASE AllPartArrived(h)
    BY <2>1 DEF AllPartArrived, Goto
  <2>2. CASE CleanReply(h) \/ RacedReply(h)
    <3>1. PICK executed, ok \in BOOLEAN : Answered(h, executed, ok)
      <4>1. Succeeds(cmd[h], req[h].sign) \in BOOLEAN
        BY DEF Succeeds
      <4> QED
        BY <2>2, <4>1 DEF CleanReply, RacedReply
    <3> QED
      BY <3>1 DEF Answered, Goto
  <2> QED
    BY <1>3, <2>1, <2>2
<1>9. pc'[h] = "idle" /\ acked' = acked \cup {key(h)}
  BY <1>8, ReturnTo DEF Return, TypeInv
<1> QED
  BY <1>4, <1>6, <1>7, <1>9

\* The parts of an upload.
PartsOf(o) == {k \in Keys : <<k[1], k[2]>> = o}

\* A part of the upload came in and is not going to be answered with success
\* before the file is linked.
Owed(o) ==
  \E k \in PartsOf(o) :
    /\ k \notin acked /\ delivered[k] > 0
    /\ \A h \in Handlers : pc[h] # "idle" /\ key(h) = k => pc[h] = "link"

Opening == {"write", "md5New", "ls", "mv"}

\* The parts that were answered, or are going to be, have their names.
Present(o) ==
  \A k \in PartsOf(o) :
    (k \in acked \/ \E h \in Handlers : pc[h] \in Opening /\ key(h) = k) => tmp[k] # Absent

AckedIsLinked ==
  \A o \in Owners :
    \/ o \in links
    \/ Owed(o)
    \/ Present(o) /\ \E k \in PartsOf(o) : k \notin acked

\* A part that is delivered once is not at work and answered.
AckedOnce ==
  /\ \A h \in Handlers : pc[h] # "idle" => key(h) \notin acked
  /\ \A k \in acked : delivered[k] > 0

\* The part of a handler that died at the move is not answered.
OrphanOwed == \A x \in orphans : x[3] \in links \/ Owed(x[3])

AckInv == AckedOnce /\ AckedIsLinked /\ OrphanOwed

LEMMA AckedOnceStep ==
  ASSUME TypeInv, OnceInv, AckedOnce, [Next]_vars, Once'
  PROVE  AckedOnce'
<1>1. acked \subseteq Keys /\ acked' \subseteq Keys
  BY NextType DEF TypeInv, TypeOK
<1>2. ASSUME NEW h \in Handlers, pc'[h] # "idle"
      PROVE  key(h)' \notin acked
  <2>1. CASE Arrives(h)
    BY <2>1, ArrivesOnce, <1>1 DEF AckedOnce
  <2>2. CASE pc[h] # "idle" /\ key(h)' = key(h)
    BY <2>2 DEF AckedOnce
  <2> QED
    BY <1>2, <2>1, <2>2, ActiveBefore
<1>3. ASSUME NEW k \in acked
      PROVE  delivered'[k] > 0
  <2>1. delivered[k] > 0 /\ delivered'[k] >= delivered[k] /\ k \in Keys
    BY <1>1, <1>3, DeliveredGrows DEF AckedOnce
  <2> QED
    BY <2>1, NextType DEF TypeInv, TypeOK
<1>4. CASE acked' = acked
  BY <1>2, <1>3, <1>4 DEF AckedOnce
<1>5. CASE acked' # acked
  <2>1. PICK h \in Handlers :
          /\ Looks(h) /\ pc'[h] = "idle" /\ acked' = acked \cup {key(h)}
          /\ delivered' = delivered
    BY <1>5, Answers
  <2>2. pc[h] # "idle" /\ OthersKeep(h)
    BY <2>1 DEF Looks, Idles, GoesOn
  <2>3. ASSUME NEW g \in Handlers, pc'[g] # "idle"
        PROVE  key(g)' # key(h)
    BY <2>1, <2>2, <2>3, OthersPaths DEF OnceInv, DistinctParts
  <2>4. delivered'[key(h)] > 0
    BY <2>1, <2>2 DEF OnceInv
  <2> QED
    BY <1>2, <1>3, <2>1, <2>3, <2>4 DEF AckedOnce
<1> QED
  BY <1>4, <1>5

\* Steps of other uploads do not matter.
LEMMA OwedStays ==
  ASSUME TypeInv, OnceInv, AckedOnce, CountInv, [Next]_vars, Once',
         NEW o \in Owners, Owed(o), o \notin links'
  PROVE  Owed(o)'
<1> PICK k \in PartsOf(o) :
      /\ k \notin acked /\ delivered[k] > 0
      /\ \A h \in Handlers : pc[h] # "idle" /\ key(h) = k => pc[h] = "link"
  BY DEF Owed
<1>1. k \in Keys /\ o = <<k[1], k[2]>>
  BY DEF PartsOf
<1>2. delivered'[k] > 0
  BY <1>1, DeliveredGrows, NextType DEF TypeInv, TypeOK
<1>3. k \notin acked'
  <2> SUFFICES ASSUME k \in acked' PROVE FALSE
    OBVIOUS
  <2>1. PICK h \in Handlers :
          /\ Looks(h) /\ acked' = acked \cup {key(h)}
          /\ pc[h] = "ls" \/ pc[h] = "await"
    BY Answers
  <2> QED
    BY <2>1
<1>4. ASSUME NEW h \in Handlers, pc'[h] # "idle", key(h)' = k
      PROVE  pc'[h] = "link"
  <2>1. pc[h] = "link" /\ req'[h] = req[h] /\ owner(h) = o
    <3>1. ~Arrives(h)
      BY <1>4, ArrivesOnce
    <3>2. pc[h] # "idle" /\ req'[h] = req[h] /\ key(h)' = key(h)
      BY <1>4, <3>1, ActiveBefore
    <3> QED
      BY <1>1, <1>4, <3>2 DEF key, owner
  <2>2. pc'[h] \notin AtDatabase
    <3>1. CountInv'
      BY NextCount
    <3> QED
      BY <2>1, <3>1 DEF CountInv, LinkInv, owner
  <2>3. pc'[h] = pc[h] \/ PartStep(h)
    BY <1>4, <2>1, NextPartStep, PartStepOthers DEF Elsewhere, Dies, OrphanMoves, Arrives,
       OthersKeep
  <2> QED
    BY <1>4, <2>1, <2>2, <2>3 DEF PartStep, Looks, Makes, Removes, Opens, Stores, Moves,
       Idles, GoesOn, MovesOn, AtDatabase
<1> QED
  BY <1>2, <1>3, <1>4 DEF Owed, PartsOf

\* The steps that leave the names of the upload's parts where they are.
LEMMA PresentStays ==
  ASSUME TypeInv, [Next]_vars, NEW o \in Owners, Present(o), acked' = acked,
         \A k \in PartsOf(o) : tmp[k] # Absent => tmp'[k] # Absent
  PROVE  Present(o)'
<1> SUFFICES ASSUME NEW k \in PartsOf(o),
                    \/ k \in acked
                    \/ \E h \in Handlers : pc'[h] \in Opening /\ key(h)' = k
             PROVE  tmp'[k] # Absent
  BY DEF Present, PartsOf
<1>1. CASE k \in acked
  BY <1>1 DEF Present
<1>2. ASSUME NEW h \in Handlers, pc'[h] \in Opening, key(h)' = k
      PROVE  tmp'[k] # Absent
  <2>1. pc[h] # "idle" /\ req'[h] = req[h] /\ key(h) = k
    BY <1>2, ActiveBefore DEF Arrives, Opening
  <2>2. CASE pc[h] \in Opening
    BY <2>1, <2>2 DEF Present
  <2>3. CASE pc[h] \notin Opening
    <3>1. PartStep(h)
      BY <1>2, <2>3, NextPartStep, PartStepOthers DEF Elsewhere, Dies, OrphanMoves, Arrives,
         OthersKeep, Opening
    <3>2. Opens(h)
      BY <1>2, <2>3, <3>1 DEF PartStep, Looks, Makes, Removes, Stores, Moves, Idles, GoesOn,
         MovesOn, AtDatabase, Opening
    <3>3. k \in Keys /\ Empty # Absent
      BY EmptySeq, UploadAssumption DEF PartsOf, Empty
    <3> QED
      BY <2>1, <3>2, <3>3 DEF Opens, TypeInv, TypeOK
  <2> QED
    BY <2>2, <2>3
<1> QED
  BY <1>1, <1>2

\* LsDir missed a name.
LEMMA MissingName ==
  ASSUME TypeOK, NEW h \in Handlers, ~AllNames(h)
  PROVE  \E p \in Parts : tmp[<<req[h].usr, req[h].sign, p>>] = Absent
<1> SUFFICES ASSUME \A p \in Parts : tmp[<<req[h].usr, req[h].sign, p>>] # Absent
             PROVE  FALSE
  OBVIOUS
<1>1. PartsIn(owner(h)) = Parts
  BY DEF PartsIn, owner
<1>2. Cardinality(Parts) = Shards
  <2>1. Shards \in Nat /\ Shards >= 1
    BY UploadAssumption
  <2> QED
    BY <2>1, FS_Interval DEF Parts
<1> QED
  BY <1>1, <1>2 DEF AllNames

\* An answer at the count of the names leaves a part that is missing.
LEMMA AnswerLeavesOne ==
  ASSUME TypeInv, AckedOnce, CountInv, [Next]_vars, acked' # acked,
         NEW o \in Owners, o \notin links, Present(o),
         \E k \in PartsOf(o) : k \notin acked,
         \A h \in Handlers : AllPartArrived(h) /\ AllNames(h) => acked' = acked
  PROVE  Present(o)' /\ \E k \in PartsOf(o) : k \notin acked'
<1> PICK h \in Handlers :
      /\ Looks(h) /\ pc'[h] = "idle" /\ acked' = acked \cup {key(h)}
      /\ \/ pc[h] = "ls" /\ AllPartArrived(h)
         \/ pc[h] = "await"
  BY Answers
<1>1. key(h) \in Keys /\ owner(h) \in Owners /\ owner(h) = <<key(h)[1], key(h)[2]>>
  BY Paths DEF TypeInv, Looks, key, owner
<1>2. UNCHANGED tmp /\ OthersKeep(h)
  BY DEF Looks, files, Idles, GoesOn
<1>3. ASSUME NEW k \in PartsOf(o), NEW g \in Handlers, pc'[g] \in Opening, key(g)' = k
      PROVE  pc[g] \in Opening /\ key(g) = k
  BY <1>2, <1>3, OthersPaths DEF Opening
<1>4. CASE owner(h) # o
  <2>1. key(h) \notin PartsOf(o)
    BY <1>1, <1>4 DEF PartsOf
  <2>2. Present(o)'
    BY <1>2, <1>3, <2>1 DEF Present, PartsOf
  <2> QED
    BY <2>1, <2>2
<1>5. CASE owner(h) = o
  <2>1. pc[h] = "ls" /\ ~AllNames(h)
    BY <1>5 DEF CountInv, LinkInv, AtDatabase
  <2>2. key(h) \in PartsOf(o) /\ tmp[key(h)] # Absent
    BY <1>1, <1>5, <2>1 DEF PartsOf, Present, Opening
  <2>3. PICK p \in Parts : tmp[<<req[h].usr, req[h].sign, p>>] = Absent
    BY <2>1, MissingName DEF TypeInv
  <2>4. PICK k \in PartsOf(o) : k = <<req[h].usr, req[h].sign, p>>
    BY <1>1, <1>5 DEF PartsOf, Keys, key, owner
  <2>5. k \notin acked'
    BY <2>2, <2>3, <2>4 DEF Present
  <2>6. Present(o)'
    BY <1>2, <1>3, <2>2 DEF Present, PartsOf
  <2> QED
    BY <2>5, <2>6
<1> QED
  BY <1>4, <1>5

\* A part goes before it is answered, or all go with the move.
LEMMA PresentOrOwed ==
  ASSUME TypeInv, OnceInv, AckedOnce, OrphanOwed, CountInv, [Next]_vars, Once',
         acked' = acked, NEW o \in Owners, o \notin links', Present(o)
  PROVE  Present(o)' \/ Owed(o)'
<1>1. CASE \A k \in PartsOf(o) : tmp[k] # Absent => tmp'[k] # Absent
  BY <1>1, PresentStays
<1>2. CASE ~\A k \in PartsOf(o) : tmp[k] # Absent => tmp'[k] # Absent
  <2>1. PICK k \in PartsOf(o) : tmp[k] # Absent /\ tmp'[k] = Absent
    BY <1>2
  <2>2. k \in Keys /\ o = <<k[1], k[2]>>
    BY <2>1 DEF PartsOf
  <2> SUFFICES ASSUME ~\E x \in orphans : OrphanMoves(x) /\ x[3] = o
               PROVE  Present(o)' \/ Owed(o)'
    <3>1. (\E x \in orphans : x[3] = o) => Owed(o)
      BY LinksGrow DEF OrphanOwed
    <3> QED
      BY <3>1, OwedStays
  <2>3. PICK h \in Handlers : (Removes(h) /\ key(h) = k) \/ (Moves(h) /\ owner(h) = o)
    BY <2>1, <2>2, TmpGoes
  <2>4. /\ key(h) \in Keys /\ pc[h] # "idle" /\ OthersKeep(h)
        /\ owner(h) = <<key(h)[1], key(h)[2]>>
    BY <2>3, Paths DEF Removes, Moves, GoesOn, TypeInv, key, owner
  <2>5. CASE Removes(h) /\ key(h) = k
    <3>1. ASSUME NEW j \in PartsOf(o), j # k PROVE tmp'[j] = tmp[j]
      BY <2>5, <3>1 DEF Removes, Removed, TypeInv, TypeOK, PartsOf
    <3>2. k \notin acked'
      BY <2>4, <2>5 DEF AckedOnce
    <3>3. ASSUME NEW g \in Handlers, pc'[g] \in Opening
          PROVE  pc[g] \in Opening /\ key(g)' = key(g) /\ key(g) # k
      <4>1. g # h
        BY <2>5, <3>3 DEF Removes, Opening
      <4>2. pc'[g] = pc[g] /\ key(g)' = key(g)
        BY <2>4, <4>1, OthersPaths
      <4> QED
        BY <2>4, <2>5, <3>3, <4>1, <4>2 DEF OnceInv, DistinctParts, Opening
    <3> QED
      BY <3>1, <3>2, <3>3 DEF Present, PartsOf
  <2>6. CASE Moves(h) /\ owner(h) = o
    <3>1. key(h) \in PartsOf(o) /\ key(h) \notin acked'
      BY <2>4, <2>6 DEF PartsOf, AckedOnce
    <3>2. PICK j \in PartsOf(o) : j = key(h)
      BY <3>1
    <3>3. delivered'[j] > 0
      <4>1. j \in Keys /\ delivered[j] > 0
        BY <2>4, <3>2 DEF OnceInv
      <4> QED
        BY <4>1, DeliveredGrows, NextType DEF TypeInv, TypeOK
    <3>4. ASSUME NEW g \in Handlers, pc'[g] # "idle", key(g)' = j
          PROVE  pc'[g] = "link"
      <4>1. CASE g = h
        BY <2>6, <3>4, <4>1 DEF Moves
      <4>2. CASE g # h
        BY <2>4, <3>2, <3>4, <4>2, OthersPaths DEF OnceInv, DistinctParts
      <4> QED
        BY <4>1, <4>2
    <3> QED
      BY <3>1, <3>2, <3>3, <3>4 DEF Owed, PartsOf
  <2> QED
    BY <2>3, <2>5, <2>6
<1> QED
  BY <1>1, <1>2

LEMMA OrphanOwedStep ==
  ASSUME TypeInv, OnceInv, AckedOnce, OrphanOwed, CountInv, [Next]_vars, Once'
  PROVE  OrphanOwed'
<1> SUFFICES ASSUME NEW x \in orphans', x[3] \notin links'
             PROVE  Owed(x[3])'
  BY DEF OrphanOwed
<1>1. CASE x \in orphans
  <2>1. x[3] \in Owners
    BY <1>1 DEF TypeInv, TypeOK, Orphan
  <2>2. Owed(x[3])
    BY <1>1, LinksGrow DEF OrphanOwed
  <2> QED
    BY <2>1, <2>2, OwedStays DEF Owed
<1>2. CASE x \notin orphans
  <2>1. Dies
    BY <1>2, OrphansCome
  <2>2. PICK h \in Handlers : pc[h] = "mv" /\ x[3] = owner(h)
    BY <1>2, OrphansCome
  <2>3. key(h) \in Keys /\ owner(h) = <<key(h)[1], key(h)[2]>>
    BY <2>2, Paths DEF TypeInv, key, owner
  <2>4. key(h) \notin acked /\ delivered[key(h)] > 0
    BY <2>2 DEF AckedOnce, OnceInv
  <2>5. PICK k \in PartsOf(x[3]) : k = key(h)
    BY <2>2, <2>3 DEF PartsOf
  <2>6. k \notin acked' /\ delivered'[k] > 0 /\ \A g \in Handlers : pc'[g] = "idle"
    BY <2>1, <2>4, <2>5 DEF Dies
  <2> QED
    BY <2>5, <2>6 DEF Owed, PartsOf
<1> QED
  BY <1>1, <1>2

LEMMA AckedIsLinkedStep ==
  ASSUME TypeInv, OnceInv, CountInv, AckInv, [Next]_vars, Once',
         \A h \in Handlers : AllPartArrived(h) /\ AllNames(h) => acked' = acked
  PROVE  AckInv'
<1>1. AckedOnce'
  BY AckedOnceStep DEF AckInv
<1>2. ASSUME NEW o \in Owners, o \notin links'
      PROVE  Owed(o)' \/ (Present(o)' /\ \E k \in PartsOf(o) : k \notin acked')
  <2>1. o \notin links
    BY <1>2, LinksGrow
  <2>2. CASE Owed(o)
    BY <1>2, <2>2, OwedStays DEF AckInv
  <2>3. CASE Present(o) /\ \E k \in PartsOf(o) : k \notin acked
    <3>1. CASE acked' = acked
      BY <1>2, <2>3, <3>1, PresentOrOwed DEF AckInv
    <3>2. CASE acked' # acked
      BY <2>1, <2>3, <3>2, AnswerLeavesOne DEF AckInv
    <3> QED
      BY <3>1, <3>2
  <2> QED
    BY <2>1, <2>2, <2>3 DEF AckInv, AckedIsLinked
<1>3. AckedIsLinked'
  BY <1>2 DEF AckedIsLinked, PartsOf
<1>4. OrphanOwed'
  BY OrphanOwedStep DEF AckInv
<1> QED
  BY <1>1, <1>3, <1>4 DEF AckInv

LEMMA InitAcked == Init => AckInv
<1> SUFFICES ASSUME Init PROVE AckInv
  OBVIOUS
<1>1. AckedOnce
  BY DEF Init, AckedOnce
<1>2. ASSUME NEW o \in Owners
      PROVE  Present(o) /\ \E k \in PartsOf(o) : k \notin acked
  <2>1. 1 \in Parts
    BY UploadAssumption DEF Parts
  <2>2. <<o[1], o[2], 1>> \in PartsOf(o)
    BY <2>1 DEF PartsOf, Keys, Owners
  <2>3. Present(o)
    BY DEF Init, Present, Opening
  <2> QED
    BY <2>2, <2>3 DEF Init
<1> QED
  BY <1>1, <1>2 DEF AckInv, AckedIsLinked, OrphanOwed, Init

LEMMA AckedMeans ==
  AckInv /\ NoDanglingLink => AckedUploadIsLinked
<1> SUFFICES ASSUME AckInv, NoDanglingLink, NEW o \in Owners,
                    \A p \in Parts : <<o[1], o[2], p>> \in acked
             PROVE  o[2] \in pub /\ o \in links
  BY DEF AckedUploadIsLinked
<1>1. ASSUME NEW k \in PartsOf(o) PROVE k \in acked
  <2>1. k = <<o[1], o[2], k[3]>> /\ k[3] \in Parts
    BY DEF PartsOf, Keys
  <2> QED
    BY <2>1
<1>2. o \in links
  BY <1>1 DEF AckInv, AckedIsLinked, Owed
<1> QED
  BY <1>2 DEF NoDanglingLink

(***************************************************************************)
(* When no part is delivered twice, opendir, mv and popen work, and every  *)
(* part of an upload was answered with success, the file is published and  *)
(* linked to its user: for any number of handlers, users, files and parts, *)
(* whatever else fails, in every state and even after the process died and *)
(* was started again.                                                      *)
(***************************************************************************)
THEOREM AckedLinked ==
  ASSUME MaxDeliver <= 1, Faults \cap {"opendir", "mv", "popen"} = {}
  PROVE  Spec => []AckedUploadIsLinked
<1> DEFINE Inv == Once => AckInv
<1>1. Init => Inv
  BY InitAcked
<1>2. \A h \in Handlers : AllPartArrived(h) /\ AllNames(h) => acked' = acked
  BY DEF AllPartArrived, May, Goto
<1>3. TypeInv /\ OncePublished /\ CountInv /\ Inv /\ [Next]_vars => Inv'
  <2> SUFFICES ASSUME TypeInv, OncePublished, CountInv, Inv, [Next]_vars, Once'
               PROVE  AckInv'
    OBVIOUS
  <2>1. OnceInv /\ AckInv
    BY OnceBefore DEF OncePublished
  <2> QED
    BY <1>2, <2>1, AckedIsLinkedStep
<1>4. Once /\ Inv => AckInv
  OBVIOUS
<1>5. Spec => []NoDanglingLink
  BY NoDangling
<1> HIDE DEF Inv
<1> QED
  BY <1>1, <1>3, <1>4, <1>5, AckedMeans, TypeInvariant, CountInvariant, OnceInvariant,
     OncePublishedInvariant, PTL DEF Spec

-----------------------------------------------------------------------------
(***************************************************************************)
(* Alone on the connection.  With one request at work at a time no exchange *)
(* overlaps another, so a row that the SELECT found is there when the      *)
(* writing statement runs, whatever statements are still executed late.    *)
(***************************************************************************)
AnswerIsTrue(h) ==
  /\ pc[h] = "fetch" => result # "none" /\ (result = "row" => ref[req[h].sign] > 0)
  /\ pc[h] \in {"lock", "query", "await"} /\ cmd[h] = "update" => ref[req[h].sign] > 0

AnswerInv ==
  /\ ~mixed
  /\ result # "none" => \E h \in Handlers : pc[h] = "fetch"
  /\ \A h \in Handlers : AnswerIsTrue(h)

\* Steps up to the link.
LEMMA BeforeLink ==
  ASSUME TypeInv, NEW h \in Handlers, Step(h), pc[h] \notin AtDatabase \cup {"link"}
  PROVE  /\ OthersKeep(h) /\ pc'[h] \notin AtDatabase
         /\ UNCHANGED <<links, ref, result, mixed>>
<1>1. PartStep(h)
  BY StepIsPartStep DEF AtDatabase
<1>2. OthersKeep(h) /\ pc'[h] \notin AtDatabase
  BY <1>1 DEF PartStep, Looks, Makes, Removes, Opens, Stores, Moves, Idles, GoesOn, MovesOn,
              AtDatabase
<1>3. UNCHANGED <<links, ref, result, mixed>>
  BY DEF Step, MkFilesDir, ExistDir, MkTmpDir, ExistFile, Md5Old, DeletePart, OpenPart,
     WritePart, Md5New, AllPartArrived, MvDir, LinkToUsr, SendQuery, CleanReply, RacedReply,
     FetchRes, Lock, fsVars, connVars, At, AtDatabase
<1> QED
  BY <1>2, <1>3

LEMMA AnswerFrame ==
  ASSUME AnswerInv, NEW h \in Handlers, pc[h] \notin AtDatabase, pc'[h] \notin AtDatabase,
         \A g \in Handlers \ {h} : pc[g] = "idle" /\ pc'[g] = "idle",
         UNCHANGED <<result, mixed>>
  PROVE  AnswerInv'
<1>1. \A g \in Handlers : AnswerIsTrue(g)'
  BY DEF AnswerIsTrue, AtDatabase
<1> QED
  BY <1>1 DEF AnswerInv, AtDatabase

\* A statement of the only handler at work.
LEMMA StatementAnswers ==
  ASSUME TypeInv, CountInv, AnswerInv, NEW h \in Handlers,
         \A g \in Handlers \ {h} : pc[g] = "idle" /\ pc'[g] = "idle",
         LinkToUsr(h) \/ SendQuery(h) \/ FetchRes(h) \/ Lock(h)
  PROVE  AnswerInv'
<1> TypeOK
  BY DEF TypeInv
<1>1. CASE LinkToUsr(h)
  <2>1. pc[h] = "link" /\ UNCHANGED <<ref, result, mixed>>
    BY <1>1 DEF LinkToUsr, At, connVars
  <2>2. \/ pc'[h] = "idle"
        \/ pc'[h] = "query" /\ cmd'[h] = "select"
    BY <1>1, ReturnTo, RunTo DEF LinkToUsr, Locations, Statements
  <2>3. result = "none"
    BY <2>1 DEF AnswerInv
  <2> QED
    BY <2>1, <2>2, <2>3 DEF AnswerInv, AnswerIsTrue
<1>2. CASE SendQuery(h) \/ Lock(h)
  <2>1. pc[h] \in {"query", "lock"} /\ UNCHANGED <<ref, result>>
    BY <1>2 DEF SendQuery, Lock, At
  <2>2. result = "none" /\ Busy = {} /\ ~mixed
    BY <2>1 DEF AnswerInv, Busy
  <2>6. ~mixed'
    BY <1>2, <2>2, Zenon DEF SendQuery, Lock
  <2>3. ~mixed' /\ (Goto(h, "await") \/ Goto(h, "query") \/ Return(h, FALSE))
    BY <1>2, <2>6, Zenon DEF SendQuery, Lock
  <2>4. \/ pc'[h] = "idle"
        \/ pc'[h] \in {"await", "query"} /\ req'[h] = req[h] /\ cmd'[h] = cmd[h]
    BY <2>3, GotoTo, ReturnTo DEF Locations
  <2>5. AnswerIsTrue(h)'
    BY <2>1, <2>4 DEF AnswerInv, AnswerIsTrue
  <2> QED
    BY <2>2, <2>1, <2>3, <2>5 DEF AnswerInv, AnswerIsTrue
<1>3. CASE FetchRes(h) /\ ~Die
  <2>1. pc[h] = "fetch" /\ ~mixed
    BY <1>3 DEF FetchRes, At, AnswerInv
  <2>2. result # "none" /\ (result = "row" => ref[req[h].sign] > 0)
    BY <2>1 DEF AnswerInv, AnswerIsTrue
  <2>3. /\ Run(h, IF result = "row" THEN "update" ELSE "insert", "lock")
        /\ result' = "none" /\ UNCHANGED <<ref, mixed>>
    BY <1>3, <2>1 DEF FetchRes, Fetchable
  <2>4. /\ pc'[h] = "lock" /\ req'[h] = req[h]
        /\ cmd'[h] = IF result = "row" THEN "update" ELSE "insert"
    BY <2>3, RunTo DEF Locations, Statements
  <2>5. AnswerIsTrue(h)'
    BY <2>2, <2>3, <2>4 DEF AnswerIsTrue
  <2> QED
    BY <2>1, <2>3, <2>5 DEF AnswerInv, AnswerIsTrue
<1>4. CASE Die
  BY <1>4 DEF Die, AnswerInv, AnswerIsTrue
<1> QED
  BY <1>1, <1>2, <1>3, <1>4

LEMMA ReplyAnswers ==
  ASSUME TypeInv, CountInv, AnswerInv, NEW h \in Handlers,
         \A g \in Handlers \ {h} : pc[g] = "idle" /\ pc'[g] = "idle",
         CleanReply(h)
  PROVE  /\ AnswerInv'
         /\ acked' # acked => ref'[req[h].sign] > 0
<1> DEFINE s0 == req[h].sign
<1>1. pc[h] = "await" /\ TypeOK /\ result = "none"
  BY DEF CleanReply, At, TypeInv, AnswerInv
<1>2. s0 \in Signs /\ ref \in [Signs -> Nat]
  BY <1>1, Paths DEF TypeInv, TypeOK
<1>3. PICK executed, ok \in BOOLEAN : Answered(h, executed, ok)
  <2>1. Succeeds(cmd[h], s0) \in BOOLEAN
    BY DEF Succeeds
  <2> QED
    BY <2>1 DEF CleanReply
<1>4. ~mixed'
  BY DEF CleanReply, AnswerInv
<1>5. cmd[h] \in {"select", "insert", "update"} /\ Executed(cmd[h], s0) \in Nat
  BY <1>1, <1>2 DEF CountInv, SqlInv, TypeOK, Statements, Executed
<1>6. \/ pc'[h] = "idle" /\ result' = "none"
      \/ /\ pc'[h] = "fetch" /\ req'[h] = req[h] /\ ref' = ref
         /\ result' = IF ref[s0] > 0 THEN "row" ELSE "empty"
  <2>1. CASE /\ Answered(h, TRUE, Succeeds(cmd[h], s0))
             /\ result' = IF cmd[h] # "select" THEN result
                          ELSE IF ref[s0] > 0 THEN "row" ELSE "empty"
    <3>1. CASE cmd[h] = "select"
      <4>1. Succeeds(cmd[h], s0) /\ Executed(cmd[h], s0) = ref[s0]
        BY <3>1 DEF Succeeds, Executed
      <4>2. Goto(h, "fetch") /\ ref' = ref
        BY <1>2, <2>1, <3>1, <4>1 DEF Answered, Ran
      <4> QED
        BY <1>1, <2>1, <3>1, <4>2, GotoTo DEF Locations
    <3>2. CASE cmd[h] # "select"
      <4>1. \E res \in BOOLEAN : Return(h, res)
        BY <2>1, <3>2 DEF Answered, Succeeds
      <4> QED
        BY <1>1, <2>1, <3>2, <4>1, ReturnTo
    <3> QED
      BY <3>1, <3>2
  <2>2. CASE UNCHANGED result /\ \E e \in BOOLEAN : Answered(h, e, FALSE)
    <3>1. Return(h, FALSE)
      BY <2>2 DEF Answered
    <3> QED
      BY <1>1, <2>2, <3>1, ReturnTo
  <2> QED
    BY <2>1, <2>2 DEF CleanReply
<1>7. AnswerIsTrue(h)'
  BY <1>6 DEF AnswerIsTrue
<1>8. AnswerInv'
  BY <1>4, <1>6, <1>7 DEF AnswerInv, AnswerIsTrue
<1>9. ASSUME acked' # acked PROVE ref'[s0] > 0
  <2>1. Answered(h, TRUE, Succeeds(cmd[h], s0))
    BY <1>9 DEF CleanReply, Answered, Return
  <2>2. cmd[h] # "select" /\ Succeeds(cmd[h], s0)
    BY <1>9, <2>1 DEF Answered, Succeeds, Goto, Return
  <2>3. ref'[s0] = Executed(cmd[h], s0)
    BY <1>2, <2>1 DEF Answered, Ran
  <2>4. (cmd[h] = "insert" => ref[s0] = 0) /\ (cmd[h] = "update" => ref[s0] > 0)
    BY <1>1, <2>2 DEF AnswerInv, AnswerIsTrue, Succeeds
  <2> QED
    BY <1>2, <1>5, <2>2, <2>3, <2>4 DEF Executed
<1> QED
  BY <1>8, <1>9

LEMMA AnswerServe ==
  ASSUME TypeInv, CountInv, OneAtATime, AnswerInv, NEW h \in Handlers, Step(h)
  PROVE  /\ AnswerInv'
         /\ acked' # acked /\ pc[h] = "await" => ref'[req[h].sign] > 0
<1>1. pc[h] # "idle" /\ \A g \in Handlers \ {h} : pc[g] = "idle" /\ pc'[g] = "idle"
  <2>1. CASE PartStep(h)
    BY <2>1, PartStepOthers DEF OthersKeep, OneAtATime
  <2>2. CASE pc[h] = "fetch" /\ Die
    BY <2>2, DieDies DEF Dies, OneAtATime
  <2> QED
    BY <2>1, <2>2, StepIsPartStep
<1>2. CASE pc[h] \notin AtDatabase \cup {"link"}
  <2>1. pc'[h] \notin AtDatabase /\ UNCHANGED <<result, mixed>>
    BY <1>2, BeforeLink
  <2> QED
    BY <1>1, <1>2, <2>1, AnswerFrame DEF AtDatabase
<1>3. CASE pc[h] \in AtDatabase \cup {"link"}
  <2>1. ~RacedReply(h)
    BY DEF RacedReply, AnswerInv
  <2>2. \/ pc[h] # "await" /\ (LinkToUsr(h) \/ SendQuery(h) \/ FetchRes(h) \/ Lock(h))
        \/ CleanReply(h)
    BY <1>3, <2>1 DEF Step, MkFilesDir, ExistDir, MkTmpDir, ExistFile, Md5Old,
       DeletePart, OpenPart, WritePart, Md5New, AllPartArrived, MvDir, LinkToUsr, SendQuery,
       FetchRes, Lock, At, AtDatabase
  <2> QED
    BY <1>1, <2>2, StatementAnswers, ReplyAnswers
<1> QED
  BY <1>2, <1>3

\* The other handlers stay idle.
LEMMA OthersIdle ==
  ASSUME TypeInv, OneAtATime, OneAtATime', NEW h \in Handlers, Receive(h) \/ Step(h)
  PROVE  \A g \in Handlers \ {h} : pc[g] = "idle" /\ pc'[g] = "idle"
<1>1. CASE Receive(h)
  <2>1. pc'[h] = "mkFiles" /\ \A g \in Handlers \ {h} : pc'[g] = pc[g]
    BY <1>1, ReceiveArrives DEF Arrives
  <2> QED
    BY <2>1 DEF OneAtATime
<1>2. CASE PartStep(h)
  BY <1>2, PartStepOthers DEF OthersKeep, OneAtATime
<1>3. CASE pc[h] = "fetch" /\ Die
  BY <1>3, DieDies DEF Dies, OneAtATime
<1> QED
  BY <1>1, <1>2, <1>3, StepIsPartStep

LEMMA AnswerStep ==
  ASSUME TypeInv, CountInv, OneAtATime, OneAtATime', AnswerInv, [Next]_vars
  PROVE  AnswerInv'
<1>1. ASSUME NEW h \in Handlers, Step(h)
      PROVE  AnswerInv'
  BY <1>1, AnswerServe
<1>2. ASSUME NEW h \in Handlers, Receive(h)
      PROVE  AnswerInv'
  <2>1. pc[h] = "idle" /\ pc'[h] = "mkFiles" /\ UNCHANGED <<result, mixed>>
    BY <1>2, ReceiveArrives DEF Receive, Arrives, connVars
  <2> QED
    BY <1>2, <2>1, OthersIdle, AnswerFrame DEF AtDatabase
<1>3. CASE \/ \E u \in Users : CreateUsrDir(u)
           \/ \E x \in orphans : OrphanEnds(x)
           \/ Restart \/ Drained \/ UNCHANGED vars
  <2>1. UNCHANGED <<pc, req, cmd, ref, result, mixed>>
    BY <1>3 DEF CreateUsrDir, OrphanEnds, Restart, Drained, vars, handlerVars, connVars
  <2> QED
    BY <2>1 DEF AnswerInv, AnswerIsTrue
<1>4. CASE Kill
  BY <1>4 DEF Kill, Die, AnswerInv, AnswerIsTrue
<1>5. ASSUME NEW w \in Writes, ExecuteLate(w)
      PROVE  AnswerInv'
  <2>1. UNCHANGED <<pc, req, cmd, result, mixed>>
    BY <1>5 DEF ExecuteLate, handlerVars, connVars
  <2>2. ASSUME NEW h \in Handlers, pc[h] # "idle", ref[req[h].sign] > 0
        PROVE  ref'[req[h].sign] > 0
    <3>1. req[h].sign \in Signs /\ ref[req[h].sign] \in Nat
      BY <2>2, Paths DEF TypeInv, TypeOK
    <3> QED
      BY <1>5, <2>2, <3>1, ExecuteLateRef
  <2> QED
    BY <2>1, <2>2 DEF AnswerInv, AnswerIsTrue
<1> QED
  BY <1>1, <1>2, <1>3, <1>4, <1>5 DEF Next

(***************************************************************************)
(* When statements do not fail and the process is not killed nothing is    *)
(* executed late: a row that the SELECT did not find is not there when the *)
(* INSERT runs either.                                                     *)
(***************************************************************************)
AnswerIsNew(h) ==
  /\ pc[h] = "fetch" /\ result = "empty" => ref[req[h].sign] = 0
  /\ pc[h] \in {"lock", "query", "await"} /\ cmd[h] = "insert" => ref[req[h].sign] = 0

NothingLate == \A w \in Writes : late[w] = 0

NewInv == NothingLate /\ \A h \in Handlers : AnswerIsNew(h)

\* Steps that send no statement.
LEMMA NewFrame ==
  ASSUME NewInv, NEW h \in Handlers, pc'[h] \notin {"fetch", "lock", "query", "await"},
         \A g \in Handlers \ {h} : pc[g] = "idle" /\ pc'[g] = "idle",
         UNCHANGED late
  PROVE  NewInv'
<1>1. AnswerIsNew(h)' /\ \A g \in Handlers \ {h} : AnswerIsNew(g)'
  BY DEF AnswerIsNew
<1>2. NothingLate'
  BY DEF NewInv, NothingLate
<1> QED
  BY <1>1, <1>2 DEF NewInv

LEMMA StatementNew ==
  ASSUME TypeInv, CountInv, AnswerInv, NewInv, NEW h \in Handlers,
         \A g \in Handlers \ {h} : pc[g] = "idle" /\ pc'[g] = "idle",
         "sql" \notin Faults, LinkToUsr(h) \/ SendQuery(h) \/ FetchRes(h) \/ Lock(h)
  PROVE  NewInv'
<1> TypeOK
  BY DEF TypeInv
<1>1. ASSUME UNCHANGED late, AnswerIsNew(h)'
      PROVE  NewInv'
  BY <1>1 DEF NewInv, NothingLate, AnswerIsNew
<1>2. CASE LinkToUsr(h)
  <2>1. UNCHANGED late
    BY <1>2 DEF LinkToUsr, worldVars
  <2>2. \/ pc'[h] = "idle"
        \/ pc'[h] = "query" /\ cmd'[h] = "select"
    BY <1>2, ReturnTo, RunTo DEF LinkToUsr, Locations, Statements
  <2> QED
    BY <1>1, <2>1, <2>2 DEF AnswerIsNew
<1>3. CASE SendQuery(h) \/ Lock(h)
  <2>1. pc[h] \in {"query", "lock"} /\ UNCHANGED <<ref, result, late>>
    BY <1>3 DEF SendQuery, Lock, At, worldVars
  <2>2. Goto(h, "await") \/ Goto(h, "query") \/ Return(h, FALSE)
    BY <1>3 DEF SendQuery, Lock
  <2>3. \/ pc'[h] = "idle"
        \/ pc'[h] \in {"await", "query"} /\ req'[h] = req[h] /\ cmd'[h] = cmd[h]
    BY <2>2, GotoTo, ReturnTo DEF Locations
  <2> QED
    BY <1>1, <2>1, <2>3 DEF NewInv, AnswerIsNew
<1>4. CASE FetchRes(h)
  <2>1. pc[h] = "fetch" /\ ~mixed /\ result # "none"
    BY <1>4 DEF FetchRes, At, AnswerInv, AnswerIsTrue
  <2>2. /\ Run(h, IF result = "row" THEN "update" ELSE "insert", "lock")
        /\ UNCHANGED <<ref, late>>
    BY <1>4, <2>1 DEF FetchRes, Fetchable, May, worldVars
  <2>3. /\ pc'[h] = "lock" /\ req'[h] = req[h]
        /\ cmd'[h] = "insert" => result = "empty"
    <3>1. result \in {"row", "empty"}
      BY <2>1 DEF TypeOK, Results
    <3> QED
      BY <2>2, <3>1, RunTo DEF Locations, Statements
  <2> QED
    BY <1>1, <2>1, <2>2, <2>3 DEF NewInv, AnswerIsNew
<1> QED
  BY <1>2, <1>3, <1>4

LEMMA ReplyNew ==
  ASSUME TypeInv, CountInv, NewInv, NEW h \in Handlers,
         \A g \in Handlers \ {h} : pc[g] = "idle" /\ pc'[g] = "idle",
         "sql" \notin Faults, CleanReply(h)
  PROVE  NewInv'
<1> DEFINE s0 == req[h].sign
<1>1. pc[h] = "await" /\ TypeOK
  BY DEF CleanReply, At, TypeInv
<1>2. s0 \in Signs /\ ref \in [Signs -> Nat]
  BY <1>1, Paths DEF TypeInv, TypeOK
<1>3. /\ Answered(h, TRUE, Succeeds(cmd[h], s0))
      /\ result' = IF cmd[h] # "select" THEN result
                   ELSE IF ref[s0] > 0 THEN "row" ELSE "empty"
  BY DEF CleanReply, May
<1>4. UNCHANGED late
  BY <1>3 DEF Answered, Ran
<1>5. CASE cmd[h] = "select"
  <2>1. Succeeds(cmd[h], s0) /\ Executed(cmd[h], s0) = ref[s0]
    BY <1>5 DEF Succeeds, Executed
  <2>2. Goto(h, "fetch") /\ ref' = ref
    BY <1>2, <1>3, <1>5, <2>1 DEF Answered, Ran
  <2>3. pc'[h] = "fetch" /\ req'[h] = req[h]
    BY <1>1, <2>2, GotoTo DEF Locations
  <2>4. AnswerIsNew(h)'
    BY <1>2, <1>3, <1>5, <2>2, <2>3 DEF AnswerIsNew
  <2> QED
    BY <1>4, <2>4 DEF NewInv, NothingLate, AnswerIsNew
<1>6. CASE cmd[h] # "select"
  <2>1. \E res \in BOOLEAN : Return(h, res)
    BY <1>3, <1>6 DEF Answered, Succeeds
  <2>2. pc'[h] = "idle"
    BY <1>1, <2>1, ReturnTo
  <2> QED
    BY <1>4, <2>2, NewFrame
<1> QED
  BY <1>5, <1>6

LEMMA NewServe ==
  ASSUME "sql" \notin Faults, TypeInv, CountInv, AnswerInv, NewInv, NEW h \in Handlers,
         \A g \in Handlers \ {h} : pc[g] = "idle" /\ pc'[g] = "idle", Step(h)
  PROVE  NewInv'
<1>1. CASE pc[h] \notin AtDatabase \cup {"link"}
  <2>1. pc'[h] \notin AtDatabase
    BY <1>1, BeforeLink
  <2>2. UNCHANGED late
    BY <1>1 DEF Step, MkFilesDir, ExistDir, MkTmpDir, ExistFile, Md5Old, DeletePart, OpenPart,
     WritePart, Md5New, AllPartArrived, MvDir, LinkToUsr, SendQuery, CleanReply, RacedReply,
     FetchRes, Lock, worldVars, At, AtDatabase
  <2> QED
    BY <2>1, <2>2, NewFrame DEF AtDatabase
<1>2. CASE pc[h] \in AtDatabase \cup {"link"}
  <2>1. ~RacedReply(h)
    BY DEF RacedReply, AnswerInv
  <2>2. LinkToUsr(h) \/ SendQuery(h) \/ CleanReply(h) \/ FetchRes(h) \/ Lock(h)
    BY <1>2, <2>1 DEF Step, MkFilesDir, ExistDir, MkTmpDir, ExistFile, Md5Old,
       DeletePart, OpenPart, WritePart, Md5New, AllPartArrived, MvDir, At, AtDatabase
  <2> QED
    BY <2>2, StatementNew, ReplyNew
<1> QED
  BY <1>1, <1>2

LEMMA NewStep ==
  ASSUME Faults \cap {"sql", "kill"} = {}, OneAtATime, OneAtATime',
         TypeInv, CountInv, AnswerInv, NewInv, [Next]_vars
  PROVE  NewInv'
<1>1. ASSUME NEW h \in Handlers, Step(h)
      PROVE  NewInv'
  BY <1>1, OthersIdle, NewServe
<1>2. ASSUME NEW h \in Handlers, Receive(h)
      PROVE  NewInv'
  <2>1. pc'[h] = "mkFiles" /\ UNCHANGED late
    BY <1>2, ReceiveArrives DEF Receive, Arrives
  <2> QED
    BY <1>2, <2>1, OthersIdle, NewFrame
<1>3. CASE \/ \E u \in Users : CreateUsrDir(u)
           \/ \E x \in orphans : OrphanEnds(x)
           \/ Restart \/ Drained \/ UNCHANGED vars
  <2>1. UNCHANGED <<pc, req, cmd, ref, result, late>>
    BY <1>3 DEF CreateUsrDir, OrphanEnds, Restart, Drained, vars, handlerVars, connVars,
       worldVars
  <2> QED
    BY <2>1 DEF NewInv, NothingLate, AnswerIsNew
<1>4. ~Kill
  BY DEF Kill, May
<1>5. \A w \in Writes : ~ExecuteLate(w)
  BY DEF ExecuteLate, NewInv, NothingLate
<1> QED
  BY <1>1, <1>2, <1>3, <1>4, <1>5 DEF Next

(***************************************************************************)
(* The reference covers the links: each link is counted by the request     *)
(* that made it, or will be when that request has run its statements.      *)
(***************************************************************************)
Pending(s) ==
  IF \E h \in Handlers : pc[h] \in AtDatabase /\ req[h].sign = s THEN 1 ELSE 0

Covered(s) == IsFiniteSet(Linking(s)) /\ Cardinality(Linking(s)) <= ref[s] + Pending(s)

CoverInv == \A s \in Signs : Covered(s)

LEMMA CoverFrame ==
  ASSUME CoverInv, NEW h \in Handlers, pc[h] \notin AtDatabase, pc'[h] \notin AtDatabase,
         \A g \in Handlers \ {h} : pc[g] = "idle" /\ pc'[g] = "idle",
         UNCHANGED <<links, ref>>
  PROVE  CoverInv'
<1>1. \A g \in Handlers : pc[g] \notin AtDatabase /\ pc'[g] \notin AtDatabase
  BY DEF AtDatabase
<1> QED
  BY <1>1 DEF CoverInv, Covered, Pending, Linking

\* A handler that stays among the statements.
LEMMA CoverStays ==
  ASSUME CoverInv, NEW h \in Handlers,
         \A g \in Handlers \ {h} : pc[g] = "idle" /\ pc'[g] = "idle",
         pc[h] \in AtDatabase, pc'[h] \in AtDatabase, req'[h] = req[h],
         UNCHANGED <<links, ref>>
  PROVE  CoverInv'
<1>1. \A g \in Handlers : /\ pc[g] \in AtDatabase <=> g = h
                          /\ pc'[g] \in AtDatabase <=> g = h
  BY DEF AtDatabase
<1> QED
  BY <1>1 DEF CoverInv, Covered, Pending, Linking

LEMMA LinkCovers ==
  ASSUME TypeInv, CoverInv, NEW h \in Handlers,
         \A g \in Handlers \ {h} : pc[g] = "idle" /\ pc'[g] = "idle",
         LinkToUsr(h)
  PROVE  CoverInv'
<1>1. pc[h] = "link" /\ UNCHANGED ref /\ TypeOK
  BY DEF LinkToUsr, At, TypeInv
<1>2. CASE UNCHANGED links /\ Return(h, FALSE)
  <2>1. pc'[h] = "idle"
    BY <1>1, <1>2, ReturnTo
  <2> QED
    BY <1>1, <1>2, <2>1, CoverFrame DEF AtDatabase
<1>3. CASE links' = links \cup {owner(h)} /\ Run(h, "select", "query")
  <2>1. pc'[h] = "query" /\ req'[h] = req[h]
    BY <1>1, <1>3, RunTo DEF Locations, Statements
  <2>2. req[h].usr \in Users /\ req[h].sign \in Signs
    BY <1>1, Paths DEF TypeInv
  <2> SUFFICES ASSUME NEW s \in Signs PROVE Covered(s)'
    BY DEF CoverInv
  <2>3. \A g \in Handlers : pc[g] \notin AtDatabase
    BY <1>1 DEF AtDatabase
  <2>4. IsFiniteSet(Linking(s)) /\ Cardinality(Linking(s)) <= ref[s] /\ ref[s] \in Nat
    BY <1>1, <2>3 DEF CoverInv, Covered, Pending, TypeOK
  <2>5. CASE s = req[h].sign
    <3>1. Linking(s)' = Linking(s) \cup {req[h].usr}
      BY <1>3, <2>2, <2>5 DEF Linking, owner
    <3>2. /\ IsFiniteSet(Linking(s) \cup {req[h].usr})
          /\ Cardinality(Linking(s) \cup {req[h].usr})
               \in {Cardinality(Linking(s)), Cardinality(Linking(s)) + 1}
      BY <2>4, FS_AddElement
    <3>3. Cardinality(Linking(s)) \in Nat
      BY <2>4, FS_CardinalityType
    <3>4. Pending(s)' = 1
      BY <2>1, <2>5 DEF Pending, AtDatabase
    <3>5. Cardinality(Linking(s) \cup {req[h].usr}) <= ref[s] + 1
      BY <2>4, <3>2, <3>3
    <3> QED
      BY <1>1, <3>1, <3>2, <3>4, <3>5 DEF Covered
  <2>6. CASE s # req[h].sign
    <3>1. Linking(s)' = Linking(s)
      BY <1>3, <2>6 DEF Linking, owner
    <3>2. Pending(s)' = 0
      BY <2>1, <2>6 DEF Pending, AtDatabase
    <3> QED
      BY <1>1, <2>4, <3>1, <3>2 DEF Covered
  <2> QED
    BY <2>5, <2>6
<1> QED
  BY <1>2, <1>3 DEF LinkToUsr

\* Between the link and the writing statement.
LEMMA StatementCovers ==
  ASSUME TypeInv, AnswerInv, CoverInv, NEW h \in Handlers,
         \A g \in Handlers \ {h} : pc[g] = "idle" /\ pc'[g] = "idle",
         "sql" \notin Faults, SendQuery(h) \/ Lock(h) \/ FetchRes(h)
  PROVE  CoverInv'
<1>1. pc[h] \in {"query", "lock", "fetch"} /\ TypeOK
  BY DEF SendQuery, Lock, FetchRes, At, TypeInv
<1>2. ~mixed
  BY DEF AnswerInv
<1>3. CASE SendQuery(h) \/ Lock(h)
  <2>1. result = "none"
    BY <1>3 DEF AnswerInv, SendQuery, Lock, At
  <2>2. UNCHANGED <<links, ref>> /\ (Goto(h, "await") \/ Goto(h, "query"))
    BY <1>2, <1>3, <2>1 DEF SendQuery, Lock, May, fsVars
  <2>3. pc'[h] \in {"await", "query"} /\ req'[h] = req[h]
    BY <1>1, <2>2, GotoTo DEF Locations
  <2> QED
    BY <1>1, <2>2, <2>3, CoverStays DEF AtDatabase
<1>4. CASE FetchRes(h)
  <2>1. pc[h] = "fetch" /\ result # "none"
    BY <1>4 DEF FetchRes, At, AnswerInv, AnswerIsTrue
  <2>2. UNCHANGED <<links, ref>> /\ \E c \in Statements : Run(h, c, "lock")
    BY <1>2, <1>4, <2>1 DEF FetchRes, Fetchable, May, fsVars, Statements
  <2>3. pc'[h] = "lock" /\ req'[h] = req[h]
    BY <1>1, <2>2, RunTo DEF Locations
  <2> QED
    BY <1>1, <2>2, <2>3, CoverStays DEF AtDatabase
<1> QED
  BY <1>3, <1>4

LEMMA ReplyCovers ==
  ASSUME TypeInv, CountInv, AnswerInv, NewInv, CoverInv, NEW h \in Handlers,
         \A g \in Handlers \ {h} : pc[g] = "idle" /\ pc'[g] = "idle",
         "sql" \notin Faults, CleanReply(h)
  PROVE  CoverInv'
<1> DEFINE s0 == req[h].sign
<1>1. pc[h] = "await" /\ TypeOK /\ UNCHANGED links
  BY DEF CleanReply, At, fsVars, TypeInv
<1>2. Answered(h, TRUE, Succeeds(cmd[h], s0))
  BY DEF CleanReply, May
<1>3. s0 \in Signs /\ ref \in [Signs -> Nat]
  BY <1>1, Paths DEF TypeInv, TypeOK
<1>4. cmd[h] \in {"select", "insert", "update"} /\ Succeeds(cmd[h], s0)
  BY <1>1 DEF CountInv, SqlInv, NewInv, AnswerIsNew, Succeeds, TypeOK, Statements
<1>5. CASE cmd[h] = "select"
  <2>1. Goto(h, "fetch") /\ ref' = ref
    BY <1>2, <1>3, <1>4, <1>5 DEF Answered, Ran, Executed
  <2>2. pc'[h] = "fetch" /\ req'[h] = req[h]
    BY <1>1, <2>1, GotoTo DEF Locations
  <2> QED
    BY <1>1, <2>1, <2>2, CoverStays DEF AtDatabase
<1>6. CASE cmd[h] \in {"insert", "update"}
  <2>1. Return(h, TRUE) /\ ref' = [ref EXCEPT ![s0] = ref[s0] + 1]
    <3>1. Return(h, TRUE) /\ ref' = [ref EXCEPT ![s0] = Executed(cmd[h], s0)]
      BY <1>2, <1>4, <1>6 DEF Answered, Ran
    <3>2. (cmd[h] = "insert" => ref[s0] = 0) /\ (cmd[h] = "update" => ref[s0] > 0)
      BY <1>1 DEF AnswerInv, AnswerIsTrue, NewInv, AnswerIsNew
    <3>3. Executed(cmd[h], s0) = ref[s0] + 1
      BY <1>3, <1>6, <3>2 DEF Executed
    <3> QED
      BY <3>1, <3>3
  <2>2. pc'[h] = "idle"
    BY <1>1, <2>1, ReturnTo
  <2>3. \A g \in Handlers : /\ pc[g] \in AtDatabase <=> g = h
                            /\ pc'[g] \notin AtDatabase
    BY <1>1, <2>2 DEF AtDatabase
  <2> SUFFICES ASSUME NEW s \in Signs PROVE Covered(s)'
    BY DEF CoverInv
  <2>4. Linking(s)' = Linking(s) /\ Pending(s)' = 0
    BY <1>1, <2>3 DEF Linking, Pending
  <2>5. ref'[s] = ref[s] + Pending(s)
    BY <1>3, <2>1, <2>3 DEF Pending
  <2> QED
    BY <1>3, <2>1, <2>4, <2>5 DEF CoverInv, Covered, Pending
<1> QED
  BY <1>4, <1>5, <1>6

LEMMA CoverStep ==
  ASSUME Faults \cap {"sql", "kill"} = {}, OneAtATime, OneAtATime',
         TypeInv, CountInv, AnswerInv, NewInv, CoverInv, [Next]_vars
  PROVE  CoverInv'
<1>1. ASSUME NEW h \in Handlers, Step(h)
      PROVE  CoverInv'
  <2>1. \A g \in Handlers \ {h} : pc[g] = "idle" /\ pc'[g] = "idle"
    BY <1>1, OthersIdle
  <2>2. CASE pc[h] \notin AtDatabase \cup {"link"}
    <3>1. pc'[h] \notin AtDatabase /\ UNCHANGED <<links, ref>>
      BY <1>1, <2>2, BeforeLink
    <3> QED
      BY <2>1, <2>2, <3>1, CoverFrame
  <2>3. CASE pc[h] \in AtDatabase \cup {"link"}
    <3>1. ~RacedReply(h)
      BY DEF RacedReply, AnswerInv
    <3>2. LinkToUsr(h) \/ SendQuery(h) \/ CleanReply(h) \/ FetchRes(h) \/ Lock(h)
      BY <1>1, <2>3, <3>1 DEF Step, MkFilesDir, ExistDir, MkTmpDir, ExistFile, Md5Old,
         DeletePart, OpenPart, WritePart, Md5New, AllPartArrived, MvDir, At, AtDatabase
    <3> QED
      BY <2>1, <3>2, LinkCovers, StatementCovers, ReplyCovers
  <2> QED
    BY <2>2, <2>3
<1>2. ASSUME NEW h \in Handlers, Receive(h)
      PROVE  CoverInv'
  <2>1. pc[h] = "idle" /\ pc'[h] = "mkFiles" /\ UNCHANGED <<links, ref>>
    BY <1>2, ReceiveArrives DEF Receive, Arrives, fsVars
  <2> QED
    BY <1>2, <2>1, OthersIdle, CoverFrame DEF AtDatabase
<1>3. CASE \/ \E u \in Users : CreateUsrDir(u)
           \/ \E x \in orphans : OrphanEnds(x)
           \/ Restart \/ Drained \/ UNCHANGED vars
  <2>1. UNCHANGED <<pc, req, links, ref>>
    BY <1>3 DEF CreateUsrDir, OrphanEnds, Restart, Drained, vars, handlerVars, fsVars
  <2> QED
    BY <2>1 DEF CoverInv, Covered, Pending, Linking
<1>4. ~Kill
  BY DEF Kill, May
<1>5. \A w \in Writes : ~ExecuteLate(w)
  BY DEF ExecuteLate, NewInv, NothingLate
<1> QED
  BY <1>1, <1>2, <1>3, <1>4, <1>5 DEF Next

LEMMA InitCover == Init => AnswerInv /\ NewInv /\ CoverInv
<1> SUFFICES ASSUME Init PROVE AnswerInv /\ NewInv /\ CoverInv
  OBVIOUS
<1>1. ASSUME NEW s \in Signs PROVE Covered(s)
  <2>1. Linking(s) = {}
    BY DEF Init, Linking
  <2>2. ref[s] + Pending(s) >= 0
    BY DEF Init, Pending
  <2> QED
    BY <2>1, <2>2, FS_EmptySet DEF Covered
<1> QED
  BY <1>1 DEF Init, AnswerInv, AnswerIsTrue, NewInv, NothingLate, AnswerIsNew, CoverInv

LEMMA CoverMeans == TypeInv /\ CoverInv => ReferenceCoversLinks
<1> SUFFICES ASSUME TypeInv, CoverInv, Quiet, NEW s \in Signs
             PROVE  ref[s] >= Cardinality(Linking(s))
  BY DEF ReferenceCoversLinks
<1>1. Pending(s) = 0 /\ ref[s] \in Nat
  BY DEF Quiet, Pending, AtDatabase, TypeInv, TypeOK
<1>2. IsFiniteSet(Linking(s)) /\ Cardinality(Linking(s)) <= ref[s]
  BY <1>1 DEF CoverInv, Covered
<1>3. Cardinality(Linking(s)) \in Nat
  BY <1>2, FS_CardinalityType
<1> QED
  BY <1>1, <1>2, <1>3

(***************************************************************************)
(* With one handler, statements that do not fail and a process that is not *)
(* killed, the reference of a file is at least the number of users that    *)
(* have it whenever the service is quiet: for any number of users, files   *)
(* and deliveries, whatever the file system and the shell do.              *)
(***************************************************************************)
THEOREM AloneReferenceCovers ==
  ASSUME \A g, h \in Handlers : g = h, Faults \cap {"sql", "kill"} = {}
  PROVE  Spec => []ReferenceCoversLinks
<1>1. OneAtATime /\ OneAtATime'
  BY DEF OneAtATime
<1>2. TypeInv /\ CountInv /\ AnswerInv /\ NewInv /\ CoverInv /\ [Next]_vars =>
        AnswerInv' /\ NewInv' /\ CoverInv'
  BY <1>1, AnswerStep, NewStep, CoverStep
<1> QED
  BY <1>2, InitCover, CoverMeans, TypeInvariant, CountInvariant, PTL DEF Spec
=============================================================================
