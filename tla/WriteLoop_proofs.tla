-------------------------- MODULE WriteLoop_proofs --------------------------
(***************************************************************************)
(* Theorems about the loop of FileSys::Write, for every WRITE_LEN, every   *)
(* body and every content of the file before the call.                     *)
(***************************************************************************)
EXTENDS WriteLoop, FileSys_proofs, Arithmetic

LEMMA Contents ==
  /\ \A s \in Bodies : s \in Seq(Byte)
  /\ \A s \in OldFiles : s \in Seq(Byte)
BY ContentsAssumption

\* What write(fd, str, n) at position at does to a file.
LEMMA PutFacts ==
  ASSUME str \in Seq(Byte), NEW f \in Seq(Byte),
         NEW at \in 0 .. Len(f), NEW n \in 0 .. Len(str)
  PROVE  /\ Put(f, at, n) \in Seq(Byte)
         /\ Len(Put(f, at, n)) = IF at + n <= Len(f) THEN Len(f) ELSE at + n
         /\ \A i \in 1 .. at : Put(f, at, n)[i] = f[i]
         /\ \A i \in at + 1 .. at + n : Put(f, at, n)[i] = str[i - at]
         /\ \A i \in at + n + 1 .. Len(f) : Put(f, at, n)[i] = f[i]
<1> DEFINE a == SubSeq(f, 1, at)
           b == SubSeq(str, 1, n)
           c == SubSeq(f, at + n + 1, Len(f))
<1>1. Len(f) \in Nat /\ Len(str) \in Nat /\ at \in Nat /\ n \in Nat
  BY LenProperties
<1>2. /\ \A i \in 1 .. at : f[i] \in Byte
      /\ \A i \in 1 .. n : str[i] \in Byte
      /\ \A i \in at + n + 1 .. Len(f) : f[i] \in Byte
  BY <1>1, ElementOfSeq
<1>3. /\ a \in Seq(Byte) /\ Len(a) = at
      /\ \A i \in 1 .. at : a[i] = f[i]
  BY <1>1, <1>2, SubSeqProperties
<1>4. /\ b \in Seq(Byte) /\ Len(b) = n
      /\ \A i \in 1 .. n : b[i] = str[i]
  BY <1>1, <1>2, SubSeqProperties
<1>5. /\ c \in Seq(Byte) /\ Len(c) \in Nat
      /\ Len(c) = IF at + n <= Len(f) THEN Len(f) - (at + n) ELSE 0
      /\ \A i \in 1 .. Len(f) - (at + n) : c[i] = f[at + n + i]
  <2>1. /\ c \in Seq(Byte)
        /\ Len(c) = IF at + n + 1 <= Len(f) THEN Len(f) - (at + n + 1) + 1 ELSE 0
        /\ \A i \in 1 .. Len(f) - (at + n + 1) + 1 : c[i] = f[(at + n + 1) + i - 1]
    BY <1>1, <1>2, SubSeqProperties
  <2> QED
    BY <1>1, <2>1
<1> HIDE DEF a, b, c
<1> DEFINE ab == a \o b
<1>6. /\ ab \in Seq(Byte) /\ Len(ab) = at + n
      /\ \A i \in 1 .. at + n : ab[i] = IF i <= at THEN a[i] ELSE b[i - at]
  BY <1>3, <1>4, ConcatProperties
<1>7. Put(f, at, n) = ab \o c
  BY DEF Put, a, b, c
<1> HIDE DEF ab
<1> DEFINE p == ab \o c
<1>8. /\ p \in Seq(Byte) /\ Len(p) = Len(ab) + Len(c)
      /\ \A i \in 1 .. Len(ab) + Len(c) : p[i] = IF i <= Len(ab) THEN ab[i] ELSE c[i - Len(ab)]
  BY <1>5, <1>6, ConcatProperties
<1> HIDE DEF p
<1>9. Len(ab) = at + n /\ Len(c) = IF at + n <= Len(f) THEN Len(f) - (at + n) ELSE 0
  BY <1>5, <1>6
<1>10. Len(p) = Len(ab) + Len(c) /\ Len(c) \in Nat
  BY <1>5, <1>8
<1>11. Len(p) = IF at + n <= Len(f) THEN Len(f) ELSE at + n
  <2>1. CASE at + n <= Len(f)
    BY <1>1, <1>9, <1>10, <2>1
  <2>2. CASE ~(at + n <= Len(f))
    BY <1>1, <1>9, <1>10, <2>2
  <2> QED
    BY <2>1, <2>2
<1>12. \A i \in 1 .. at + n + Len(c) : p[i] = IF i <= at + n THEN ab[i] ELSE c[i - (at + n)]
  BY <1>8, <1>9
<1>13. ASSUME NEW i \in 1 .. at
       PROVE  p[i] = f[i]
  <2>1. i \in 1 .. at + n /\ i \in 1 .. at + n + Len(c) /\ i <= at + n /\ i <= at
    BY <1>1, <1>10
  <2> QED
    BY <1>3, <1>6, <1>12, <2>1
<1>14. ASSUME NEW i \in at + 1 .. at + n
       PROVE  p[i] = str[i - at]
  <2>1. /\ i \in 1 .. at + n /\ i \in 1 .. at + n + Len(c) /\ i <= at + n /\ ~(i <= at)
        /\ i - at \in 1 .. n
    BY <1>1, <1>10
  <2> QED
    BY <1>4, <1>6, <1>12, <2>1
<1>15. ASSUME NEW i \in at + n + 1 .. Len(f)
       PROVE  p[i] = f[i]
  <2>1. /\ i \in 1 .. at + n + Len(c) /\ ~(i <= at + n)
        /\ i - (at + n) \in 1 .. Len(f) - (at + n)
        /\ at + n + (i - (at + n)) = i
    <3>1. at + n <= Len(f)
      BY <1>1
    <3> QED
      BY <1>1, <1>5, <3>1
  <2> QED
    BY <1>5, <1>12, <2>1
<1> QED
  BY <1>7, <1>8, <1>11, <1>13, <1>14, <1>15 DEF p
-----------------------------------------------------------------------------
(***************************************************************************)
(* The descriptor never leaves the file, the loop never asks for more      *)
(* bytes than the string has, and what was not overwritten is old.         *)
(***************************************************************************)
FileInv ==
  /\ TypeOK
  /\ pc = "open" => file = old /\ offset = 0 /\ len = 0
  /\ pc # "open" => len <= StrLen(str)
  /\ pc = "loop" => len > WRITE_LEN
  /\ pc \in {"last", "done"} => len <= WRITE_LEN
  /\ offset <= Len(file)
  /\ OldTailSurvives

LEMMA InitFile == Init => FileInv
<1> SUFFICES ASSUME Init PROVE FileInv
  OBVIOUS
<1>1. file \in Seq(Byte) /\ Len(file) \in Nat
  BY Contents, LenProperties DEF Init
<1>2. OldTailSurvives
  BY <1>1 DEF Init, OldTailSurvives
<1>3. TypeOK
  BY <1>1 DEF Init, TypeOK
<1> QED
  BY <1>1, <1>2, <1>3 DEF Init, FileInv

\* A write() of at most n bytes of the string.
LEMMA WriteFile ==
  ASSUME FileInv, NEW n \in 0 .. StrLen(str), WriteCall(n), UNCHANGED old
  PROVE  /\ file' \in Seq(Byte) /\ offset' \in Nat /\ offset' <= Len(file')
         /\ short' \in BOOLEAN /\ OldTailSurvives'
<1>1. PICK stored \in 0 .. n :
        /\ file' = Put(file, offset, stored)
        /\ offset' = offset + stored
        /\ short' = (short \/ stored < n)
  BY DEF WriteCall
<1>2. /\ str \in Seq(Byte) /\ file \in Seq(Byte) /\ old \in Seq(Byte)
      /\ Len(file) \in Nat /\ Len(str) \in Nat /\ Len(old) \in Nat
  BY Contents, LenProperties DEF FileInv, TypeOK
<1>3. stored \in 0 .. Len(str) /\ stored \in Nat /\ offset \in 0 .. Len(file)
  BY <1>2, StrLenFacts DEF FileInv, TypeOK
<1>4. /\ file' \in Seq(Byte)
      /\ Len(file') = IF offset + stored <= Len(file) THEN Len(file) ELSE offset + stored
      /\ \A i \in offset + stored + 1 .. Len(file) : file'[i] = file[i]
  BY <1>1, <1>2, <1>3, PutFacts
<1>5. OldTailSurvives'
  BY <1>1, <1>2, <1>3, <1>4 DEF FileInv, OldTailSurvives
<1> QED
  BY <1>1, <1>3, <1>4, <1>5 DEF FileInv, TypeOK

LEMMA NextFile == FileInv /\ [Next]_vars => FileInv'
<1> SUFFICES ASSUME FileInv, [Next]_vars PROVE FileInv'
  OBVIOUS
<1>1. /\ str \in Seq(Byte) /\ Len(str) \in Nat /\ StrLen(str) \in 0 .. Len(str)
      /\ WRITE_LEN \in Nat \ {0}
  BY Contents, LenProperties, StrLenFacts, WriteLenAssumption DEF FileInv, TypeOK
<1>2. CASE Open
  BY <1>1, <1>2 DEF Open, FileInv, TypeOK, OldTailSurvives
<1>3. CASE Chunk
  <2>1. /\ pc = "loop" /\ WriteCall(WRITE_LEN) /\ len' = len - WRITE_LEN
        /\ pc' = IF len' > WRITE_LEN THEN "loop" ELSE "last"
        /\ UNCHANGED <<str, old>>
    BY <1>3 DEF Chunk
  <2>2. len \in Nat /\ len > WRITE_LEN /\ len <= StrLen(str)
    BY <2>1 DEF FileInv, TypeOK
  <2>3. /\ file' \in Seq(Byte) /\ offset' \in Nat /\ offset' <= Len(file')
        /\ short' \in BOOLEAN /\ OldTailSurvives'
    BY <1>1, <2>1, <2>2, WriteFile
  <2> QED
    BY <1>1, <2>1, <2>2, <2>3 DEF FileInv, TypeOK
<1>4. CASE Last
  <2>1. /\ pc = "last" /\ WriteCall(len) /\ pc' = "done" /\ UNCHANGED <<str, old, len>>
    BY <1>4 DEF Last
  <2>2. len \in 0 .. StrLen(str)
    BY <1>1, <2>1 DEF FileInv, TypeOK
  <2>3. /\ file' \in Seq(Byte) /\ offset' \in Nat /\ offset' <= Len(file')
        /\ short' \in BOOLEAN /\ OldTailSurvives'
    BY <2>1, <2>2, WriteFile
  <2> QED
    BY <2>1, <2>2, <2>3 DEF FileInv, TypeOK
<1>5. CASE UNCHANGED vars
  BY <1>5 DEF vars, FileInv, TypeOK, OldTailSurvives
<1> QED
  BY <1>2, <1>3, <1>4, <1>5 DEF Next, Done

LEMMA FileInvariant == Spec => []FileInv
BY InitFile, NextFile, PTL DEF Spec

(***************************************************************************)
(* Every state of the call is well typed: the position and the length stay *)
(* inside the file and the string.                                         *)
(***************************************************************************)
THEOREM LoopTypeCorrect == Spec => []TypeOK
<1>1. FileInv => TypeOK
  BY DEF FileInv
<1> QED
  BY <1>1, FileInvariant, PTL

(***************************************************************************)
(* However the disk fails, Write never shortens the file and never changes *)
(* a byte behind the position it reached.                                  *)
(***************************************************************************)
THEOREM OldTail == Spec => []OldTailSurvives
<1>1. FileInv => OldTailSurvives
  BY DEF FileInv
<1> QED
  BY <1>1, FileInvariant, PTL
-----------------------------------------------------------------------------
(***************************************************************************)
(* As long as no write() falls short, the position is a multiple of        *)
(* WRITE_LEN before every write, stated through the remainders it leaves,  *)
(* and the bytes before it are those of Emitted.                           *)
(***************************************************************************)
Aligned == \A r \in 0 .. WRITE_LEN - 1 : (offset + r) % WRITE_LEN = r

FullInv ==
  ~short =>
    /\ pc \notin {"open", "done"} => offset + len = StrLen(str)
    /\ pc = "done" => offset = StrLen(str)
    /\ pc # "done" => Aligned
    /\ \A i \in 1 .. offset : file[i] = str[((i - 1) % WRITE_LEN) + 1]
    /\ Len(file) = Len(old) \/ Len(file) = offset

\* A write() of n bytes, all of them stored.
LEMMA WriteFull ==
  ASSUME FileInv, FullInv, pc \in {"loop", "last"}, ~short',
         NEW n \in 0 .. StrLen(str), n <= WRITE_LEN, WriteCall(n), UNCHANGED <<str, old>>
  PROVE  /\ ~short /\ offset' = offset + n
         /\ \A i \in 1 .. offset' : file'[i] = str'[((i - 1) % WRITE_LEN) + 1]
         /\ Len(file') = Len(old') \/ Len(file') = offset'
<1>1. /\ ~short /\ offset' = offset + n /\ file' = Put(file, offset, n)
  <2>1. PICK stored \in 0 .. n :
          /\ file' = Put(file, offset, stored)
          /\ offset' = offset + stored
          /\ short' = (short \/ stored < n)
    BY DEF WriteCall
  <2>2. ~short /\ ~(stored < n)
    BY <2>1
  <2>3. stored = n
    BY <2>2, StrLenFacts, Contents, LenProperties DEF FileInv, TypeOK
  <2> QED
    BY <2>1, <2>2, <2>3
<1>2. /\ str \in Seq(Byte) /\ file \in Seq(Byte) /\ old \in Seq(Byte)
      /\ Len(file) \in Nat /\ Len(str) \in Nat /\ Len(old) \in Nat
      /\ offset \in 0 .. Len(file)
  BY Contents, LenProperties DEF FileInv, TypeOK
<1>3. n \in 0 .. Len(str) /\ n \in Nat /\ WRITE_LEN \in Nat \ {0}
  BY <1>2, StrLenFacts, WriteLenAssumption
<1>4. /\ Len(file') = IF offset + n <= Len(file) THEN Len(file) ELSE offset + n
      /\ \A i \in 1 .. offset : file'[i] = file[i]
      /\ \A i \in offset + 1 .. offset + n : file'[i] = str[i - offset]
  BY <1>1, <1>2, <1>3, PutFacts
<1>5. ASSUME NEW i \in 1 .. offset + n
      PROVE  file'[i] = str[((i - 1) % WRITE_LEN) + 1]
  <2>1. CASE i <= offset
    BY <1>1, <1>2, <1>3, <1>4, <2>1 DEF FullInv
  <2>2. CASE i > offset
    <3>1. i - offset - 1 \in 0 .. WRITE_LEN - 1
      BY <1>2, <1>3, <2>2
    <3>2. (offset + (i - offset - 1)) % WRITE_LEN = i - offset - 1
      BY <1>1, <3>1 DEF FullInv, Aligned
    <3>3. offset + (i - offset - 1) = i - 1 /\ (i - offset - 1) + 1 = i - offset
      BY <1>2, <1>3
    <3>4. file'[i] = str[i - offset]
      BY <1>2, <1>3, <1>4, <2>2
    <3> QED
      BY <3>2, <3>3, <3>4
  <2> QED
    BY <1>2, <1>3, <2>1, <2>2
<1>6. Len(file') = Len(old) \/ Len(file') = offset + n
  <2>1. Len(file) = Len(old) \/ Len(file) = offset
    BY <1>1 DEF FullInv
  <2>2. Len(file) >= Len(old)
    BY DEF FileInv, OldTailSurvives
  <2> QED
    BY <1>2, <1>3, <1>4, <2>1, <2>2
<1> QED
  BY <1>1, <1>5, <1>6

LEMMA NextFull == FileInv /\ FullInv /\ [Next]_vars => FullInv'
<1> SUFFICES ASSUME FileInv, FullInv, [Next]_vars, ~short' PROVE FullInv'
  BY DEF FullInv
<1>1. /\ str \in Seq(Byte) /\ Len(str) \in Nat /\ StrLen(str) \in 0 .. Len(str)
      /\ WRITE_LEN \in Nat \ {0} /\ offset \in Nat /\ len \in Nat
  BY Contents, LenProperties, StrLenFacts, WriteLenAssumption DEF FileInv, TypeOK
<1>2. CASE Open
  BY <1>1, <1>2 DEF Open, FileInv, FullInv, Aligned
<1>3. CASE Chunk
  <2>1. /\ pc = "loop" /\ WriteCall(WRITE_LEN) /\ len' = len - WRITE_LEN
        /\ pc' \in {"loop", "last"} /\ UNCHANGED <<str, old>>
    BY <1>3 DEF Chunk
  <2>2. WRITE_LEN \in 0 .. StrLen(str) /\ len > WRITE_LEN
    BY <1>1, <2>1 DEF FileInv
  <2>3. /\ ~short /\ offset' = offset + WRITE_LEN
        /\ \A i \in 1 .. offset' : file'[i] = str'[((i - 1) % WRITE_LEN) + 1]
        /\ Len(file') = Len(old') \/ Len(file') = offset'
    BY <1>1, <2>1, <2>2, WriteFull
  <2>4. Aligned'
    <3> SUFFICES ASSUME NEW r \in 0 .. WRITE_LEN - 1
                 PROVE  (offset' + r) % WRITE_LEN = r
      BY DEF Aligned
    <3>1. (offset + r) % WRITE_LEN = r
      BY <2>1, <2>3 DEF FullInv, Aligned
    <3>2. offset + r \in Nat /\ offset' + r = (offset + r) + WRITE_LEN
      BY <1>1, <2>3
    <3> QED
      BY <1>1, <3>1, <3>2, AddModulus
  <2>5. offset' + len' = StrLen(str')
    BY <1>1, <2>1, <2>3 DEF FullInv
  <2> QED
    BY <2>1, <2>3, <2>4, <2>5 DEF FullInv
<1>4. CASE Last
  <2>1. /\ pc = "last" /\ WriteCall(len) /\ pc' = "done" /\ UNCHANGED <<str, old, len>>
    BY <1>4 DEF Last
  <2>2. len \in 0 .. StrLen(str) /\ len <= WRITE_LEN
    BY <1>1, <2>1 DEF FileInv
  <2>3. /\ ~short /\ offset' = offset + len
        /\ \A i \in 1 .. offset' : file'[i] = str'[((i - 1) % WRITE_LEN) + 1]
        /\ Len(file') = Len(old') \/ Len(file') = offset'
    BY <2>1, <2>2, WriteFull
  <2>4. offset' = StrLen(str')
    BY <2>1, <2>3 DEF FullInv
  <2> QED
    BY <2>1, <2>3, <2>4 DEF FullInv
<1>5. CASE UNCHANGED vars
  BY <1>5 DEF vars, FullInv, Aligned
<1> QED
  BY <1>2, <1>3, <1>4, <1>5 DEF Next, Done

LEMMA FullInvariant == Spec => []FullInv
<1>1. Init => FullInv
  <2> SUFFICES ASSUME Init PROVE FullInv
    OBVIOUS
  <2>1. \A r \in 0 .. WRITE_LEN - 1 : (0 + r) % WRITE_LEN = r
    BY ModFacts, WriteLenAssumption
  <2> QED
    BY <2>1 DEF Init, FullInv, Aligned
<1> QED
  BY <1>1, NextFull, FileInvariant, PTL DEF Spec

\* Written, byte by byte.
LEMMA WrittenBytes ==
  ASSUME NEW s \in Seq(Byte), NEW o \in Seq(Byte)
  PROVE  /\ Written(s, o) \in Seq(Byte)
         /\ Len(Written(s, o)) = IF StrLen(s) <= Len(o) THEN Len(o) ELSE StrLen(s)
         /\ \A i \in 1 .. StrLen(s) : Written(s, o)[i] = s[((i - 1) % WRITE_LEN) + 1]
         /\ \A i \in StrLen(s) + 1 .. Len(o) : Written(s, o)[i] = o[i]
<1> DEFINE n == StrLen(s)
           e == Emitted(CStr(s))
           c == SubSeq(o, n + 1, Len(o))
<1>1. /\ Len(s) \in Nat /\ Len(o) \in Nat /\ n \in 0 .. Len(s) /\ n \in Nat
  BY LenProperties, StrLenFacts
<1>2. e \in Seq(Byte) /\ Len(e) = n
  BY CStrFacts, EmittedFacts
<1>3. \A i \in 1 .. n : CStr(s)[i] = s[i]
  BY <1>1, ElementOfSeq, SubSeqProperties DEF CStr
<1>4. ASSUME NEW i \in 1 .. n
      PROVE  e[i] = s[((i - 1) % WRITE_LEN) + 1]
  <2>0. i - 1 \in Nat
    BY <1>1
  <2>1. (i - 1) % WRITE_LEN \in 0 .. (i - 1)
    BY <2>0, ModFacts
  <2>2. ((i - 1) % WRITE_LEN) + 1 \in 1 .. n
    BY <1>1, <2>0, <2>1
  <2>3. e[i] = CStr(s)[((i - 1) % WRITE_LEN) + 1]
    BY CStrFacts DEF Emitted
  <2> QED
    BY <1>3, <2>2, <2>3
<1>5. /\ c \in Seq(Byte)
      /\ Len(c) = IF n <= Len(o) THEN Len(o) - n ELSE 0
      /\ \A i \in 1 .. Len(o) - n : c[i] = o[n + i]
  <2>1. \A i \in n + 1 .. Len(o) : o[i] \in Byte
    BY <1>1, ElementOfSeq
  <2>2. /\ c \in Seq(Byte)
        /\ Len(c) = IF n + 1 <= Len(o) THEN Len(o) - (n + 1) + 1 ELSE 0
        /\ \A i \in 1 .. Len(o) - (n + 1) + 1 : c[i] = o[(n + 1) + i - 1]
    BY <1>1, <2>1, SubSeqProperties
  <2> QED
    BY <1>1, <2>2
<1>6. Written(s, o) = e \o c
  BY <1>2 DEF Written, Overlay
<1> HIDE DEF n, e, c
<1> DEFINE w == e \o c
<1>7. /\ w \in Seq(Byte) /\ Len(w) = n + Len(c)
      /\ \A i \in 1 .. n + Len(c) : w[i] = IF i <= n THEN e[i] ELSE c[i - n]
  BY <1>2, <1>5, ConcatProperties
<1> HIDE DEF w
<1>8. Len(w) = n + Len(c) /\ Len(c) = IF n <= Len(o) THEN Len(o) - n ELSE 0
  BY <1>5, <1>7
<1>9. Len(w) = IF n <= Len(o) THEN Len(o) ELSE n
  BY <1>1, <1>8
<1>10. ASSUME NEW i \in 1 .. n
       PROVE  w[i] = s[((i - 1) % WRITE_LEN) + 1]
  <2>1. i \in 1 .. n + Len(c) /\ i <= n
    BY <1>1, <1>8
  <2> QED
    BY <1>4, <1>7, <2>1
<1>11. ASSUME NEW i \in n + 1 .. Len(o)
       PROVE  w[i] = o[i]
  <2>1. /\ i \in 1 .. n + Len(c) /\ ~(i <= n)
        /\ i - n \in 1 .. Len(o) - n /\ n + (i - n) = i
    BY <1>1, <1>8
  <2> QED
    BY <1>5, <1>7, <2>1
<1> QED
  BY <1>6, <1>7, <1>9, <1>10, <1>11 DEF n, w

LEMMA LoopIsWritten ==
  ASSUME FileInv, FullInv
  PROVE  LoopComputesWritten
<1> SUFFICES ASSUME pc = "done", ~short PROVE file = Written(str, old)
  BY DEF LoopComputesWritten
<1>1. /\ str \in Seq(Byte) /\ file \in Seq(Byte) /\ old \in Seq(Byte)
      /\ Len(file) \in Nat /\ Len(old) \in Nat /\ StrLen(str) \in Nat
  BY Contents, LenProperties, StrLenFacts DEF FileInv, TypeOK
<1>2. /\ offset = StrLen(str) /\ offset <= Len(file) /\ Len(file) >= Len(old)
      /\ Len(file) = Len(old) \/ Len(file) = offset
      /\ \A i \in 1 .. offset : file[i] = str[((i - 1) % WRITE_LEN) + 1]
      /\ \A i \in offset + 1 .. Len(old) : file[i] = old[i]
  BY DEF FileInv, FullInv, OldTailSurvives
<1> DEFINE w == Written(str, old)
<1>3. /\ w \in Seq(Byte) /\ Len(w) = Len(file)
      /\ \A i \in 1 .. offset : w[i] = str[((i - 1) % WRITE_LEN) + 1]
      /\ \A i \in offset + 1 .. Len(old) : w[i] = old[i]
  BY <1>1, <1>2, WrittenBytes
<1> HIDE DEF w
<1>4. \A i \in 1 .. Len(file) : file[i] = w[i]
  BY <1>1, <1>2, <1>3
<1> QED
  BY <1>1, <1>3, <1>4, SeqEqual DEF w

(***************************************************************************)
(* When no write() falls short the loop computes Written, the operator by  *)
(* which the model of the service takes the call as one step.              *)
(***************************************************************************)
THEOREM LoopComputes == Spec => []LoopComputesWritten
BY LoopIsWritten, FileInvariant, FullInvariant, PTL

(***************************************************************************)
(* A body of at most WRITE_LEN bytes without a Nul is what a fresh file    *)
(* holds after the call.                                                   *)
(***************************************************************************)
THEOREM ShortBodyStored == Spec => []ShortBodyIsStored
<1>1. FileInv /\ FullInv => ShortBodyIsStored
  BY LoopIsWritten, ShortBodyIsWritten, Contents
     DEF LoopComputesWritten, ShortBodyIsStored, BodyIsStored, FileInv, TypeOK
<1> QED
  BY <1>1, FileInvariant, FullInvariant, PTL
=============================================================================
