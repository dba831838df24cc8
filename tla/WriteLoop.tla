----------------------------- MODULE WriteLoop -----------------------------
(***************************************************************************)
(* One call of FileSys::Write, a step per system call.  The file may       *)
(* already exist with an older content (an earlier upload of the part).    *)
(* write() may store fewer bytes than asked, or none, when the disk is     *)
(* full: the code never looks at its result.                               *)
(***************************************************************************)
EXTENDS FileSys

CONSTANTS Bodies,       \* request bodies
          OldFiles      \* contents the path may have before the call

ASSUME ContentsAssumption == Bodies \cup OldFiles \subseteq Seq(Byte)

VARIABLES pc,           \* next system call: "open", "loop", "last", "done"
          str,          \* the argument
          old,          \* the file before the call
          file,         \* the file now
          len,          \* int len
          offset,       \* file position of the descriptor
          short         \* history: some write() stored less than asked

vars == <<pc, str, old, file, len, offset, short>>

Init ==
  /\ pc = "open"
  /\ str \in Bodies
  /\ old \in OldFiles
  /\ file = old
  /\ len = 0
  /\ offset = 0
  /\ short = FALSE

Open_Truncating ==
  /\ pc = "open"
  /\ file' = Empty
  /\ len' = StrLen(str)
  /\ pc' = IF len' > WRITE_LEN THEN "loop" ELSE "last"
  /\ UNCHANGED <<str, old, offset, short>>

\* open(path, O_RDWR | O_CREAT) and strlen
Open ==
  /\ pc = "open"
  /\ len' = StrLen(str)
  /\ pc' = IF len' > WRITE_LEN THEN "loop" ELSE "last"
  /\ UNCHANGED <<str, old, file, offset, short>>

\* content of f once the n first bytes of str are stored at position at
Put(f, at, n) ==
  SubSeq(f, 1, at) \o SubSeq(str, 1, n) \o SubSeq(f, at + n + 1, Len(f))

\* write(fd, s, n): s is always the start of the string
WriteCall(n) ==
  \E stored \in 0 .. n :
    /\ file' = Put(file, offset, stored)
    /\ offset' = offset + stored
    /\ short' = (short \/ stored < n)

Chunk_Overrun ==
  /\ pc = "loop"
  /\ WriteCall(WRITE_LEN)
  /\ len' = len - WRITE_LEN
  /\ pc' = IF len' > 0 THEN "loop" ELSE "last"
  /\ UNCHANGED <<str, old>>

Chunk ==
  /\ pc = "loop"
  /\ WriteCall(WRITE_LEN)
  /\ len' = len - WRITE_LEN
  /\ pc' = IF len' > WRITE_LEN THEN "loop" ELSE "last"
  /\ UNCHANGED <<str, old>>

Last ==
  /\ pc = "last"
  /\ WriteCall(len)
  /\ pc' = "done"
  /\ UNCHANGED <<str, old, len>>

Done == pc = "done" /\ UNCHANGED vars

Next == Open \/ Chunk \/ Last \/ Done

Spec == Init /\ [][Next]_vars
-----------------------------------------------------------------------------
(***************************************************************************)
(* Type correctness of the call's local state.                             *)
(***************************************************************************)
TypeOK ==
  /\ pc \in {"open", "loop", "last", "done"}
  /\ str \in Bodies /\ old \in OldFiles
  /\ file \in Seq(Byte)
  /\ len \in Nat /\ offset \in Nat
  /\ short \in BOOLEAN

(***************************************************************************)
(* When no write() falls short the loop leaves exactly what Written, the   *)
(* operator the server model uses for the whole call, says.                *)
(***************************************************************************)
LoopComputesWritten ==
  (pc = "done" /\ ~short) => file = Written(str, old)

(***************************************************************************)
(* Even when write() falls short, the call never leaves the file shorter   *)
(* than it was and never changes a byte behind the position it reached:    *)
(* what it does not overwrite is the tail of the old file.                 *)
(***************************************************************************)
OldTailSurvives ==
  /\ Len(file) >= Len(old)
  /\ \A i \in offset + 1 .. Len(old) : file[i] = old[i]

(***************************************************************************)
(* Step 4 of the upload ("write the part") and the comment at              *)
(* upload_rpc.cpp:50: after Write on a fresh file the file is the body.    *)
(* True only for bodies of at most WRITE_LEN bytes.                        *)
(***************************************************************************)
BodyIsStored ==
  (pc = "done" /\ ~short /\ old = Empty) => file = str

(***************************************************************************)
(* The same for a body that fits one chunk and holds no Nul.               *)
(***************************************************************************)
ShortBodyIsStored ==
  (Len(str) <= WRITE_LEN /\ \A i \in 1 .. Len(str) : str[i] # Nul) => BodyIsStored
=============================================================================
