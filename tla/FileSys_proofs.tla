--------------------------- MODULE FileSys_proofs ---------------------------
(***************************************************************************)
(* What FileSys::Write leaves in a file, for bodies and files of every     *)
(* length and every WRITE_LEN: the result is always a sequence of bytes at *)
(* least as long as the body up to its first Nul, and for a body of at     *)
(* most WRITE_LEN bytes without a Nul, on a fresh file, it is the body.    *)
(***************************************************************************)
EXTENDS FileSys, FiniteSetTheorems, SequenceTheorems, Integers, TLAPS

\* The remainder that picks the byte of a chunk.
LEMMA ModFacts ==
  ASSUME NEW a \in Nat
  PROVE  /\ a % WRITE_LEN \in 0 .. a
         /\ a < WRITE_LEN => a % WRITE_LEN = a
BY WriteLenAssumption, SMT

\* strlen stops inside the string, and at its end when there is no Nul.
LEMMA StrLenFacts ==
  ASSUME NEW str \in Seq(Byte)
  PROVE  /\ StrLen(str) \in 0 .. Len(str)
         /\ (\A i \in 1 .. Len(str) : str[i] # Nul) => StrLen(str) = Len(str)
<1> DEFINE before == {i \in 1 .. Len(str) : \A j \in 1 .. i : str[j] # Nul}
<1>1. Len(str) \in Nat
  BY LenProperties
<1>2. IsFiniteSet(1 .. Len(str)) /\ Cardinality(1 .. Len(str)) = Len(str)
  BY <1>1, FS_Interval
<1>3. IsFiniteSet(before) /\ Cardinality(before) <= Len(str)
  BY <1>2, FS_Subset
<1>4. Cardinality(before) \in Nat
  BY <1>3, FS_CardinalityType
<1>5. (\A i \in 1 .. Len(str) : str[i] # Nul) => before = 1 .. Len(str)
  BY <1>1
<1>6. StrLen(str) = Cardinality(before)
  BY DEF StrLen
<1> HIDE DEF before
<1> QED
  BY <1>1, <1>2, <1>3, <1>4, <1>5, <1>6

LEMMA CStrFacts ==
  ASSUME NEW str \in Seq(Byte)
  PROVE  /\ CStr(str) \in Seq(Byte)
         /\ Len(CStr(str)) = StrLen(str)
         /\ (\A i \in 1 .. Len(str) : str[i] # Nul) => CStr(str) = str
<1>1. Len(str) \in Nat /\ StrLen(str) \in 0 .. Len(str)
  BY LenProperties, StrLenFacts
<1>2. \A i \in 1 .. StrLen(str) : str[i] \in Byte
  BY <1>1, ElementOfSeq
<1>3. /\ CStr(str) \in Seq(Byte)
      /\ Len(CStr(str)) = StrLen(str)
      /\ \A i \in 1 .. StrLen(str) : CStr(str)[i] = str[i]
  BY <1>1, <1>2, SubSeqProperties DEF CStr
<1>4. ASSUME \A i \in 1 .. Len(str) : str[i] # Nul
      PROVE  CStr(str) = str
  BY <1>3, <1>4, StrLenFacts, SeqEqual
<1> QED
  BY <1>3, <1>4

LEMMA IntervalFrom1 ==
  ASSUME NEW n \in Nat
  PROVE  IsFiniteSet(1 .. n) /\ Cardinality(1 .. n) = n
<1>1. /\ IsFiniteSet(1 .. n)
      /\ Cardinality(1 .. n) = IF 1 > n THEN 0 ELSE n - 1 + 1
  BY FS_Interval
<1> QED
  BY <1>1

\* A C string has no Nul.
LEMMA CStrHasNoNul ==
  ASSUME NEW str \in Seq(Byte)
  PROVE  \A i \in 1 .. Len(CStr(str)) : CStr(str)[i] # Nul
<1> DEFINE before == {i \in 1 .. Len(str) : \A j \in 1 .. i : str[j] # Nul}
<1>1. Len(str) \in Nat /\ StrLen(str) \in 0 .. Len(str)
  BY LenProperties, StrLenFacts
<1>2. ASSUME NEW i \in 1 .. StrLen(str)
      PROVE  i \in before
  <2> SUFFICES ASSUME i \notin before PROVE FALSE
    OBVIOUS
  <2>1. before \subseteq 1 .. i - 1
    BY <1>1
  <2>2. IsFiniteSet(1 .. i - 1) /\ Cardinality(1 .. i - 1) = i - 1
    BY <1>1, IntervalFrom1
  <2>3. IsFiniteSet(before) /\ Cardinality(before) <= i - 1
    BY <2>1, <2>2, FS_Subset
  <2>4. StrLen(str) = Cardinality(before)
    BY DEF StrLen
  <2> HIDE DEF before
  <2> QED
    BY <1>1, <2>3, <2>4
<1>3. \A i \in 1 .. StrLen(str) : str[i] \in Byte /\ str[i] # Nul
  BY <1>1, <1>2, ElementOfSeq
<1>4. /\ Len(CStr(str)) = StrLen(str)
      /\ \A i \in 1 .. StrLen(str) : CStr(str)[i] = str[i]
  BY <1>1, <1>3, SubSeqProperties DEF CStr
<1> QED
  BY <1>3, <1>4

\* Without a Nul of its own, a string is read to its end, and on behind it.
LEMMA CStrReadsOn ==
  ASSUME NEW str \in Seq(Byte), NEW behind \in Seq(Byte),
         \A i \in 1 .. Len(str) : str[i] # Nul
  PROVE  LET read == CStr(str \o behind)
         IN  /\ Len(read) >= Len(str)
             /\ \A i \in 1 .. Len(str) : read[i] = str[i]
<1> DEFINE all == str \o behind
           before == {i \in 1 .. Len(all) : \A j \in 1 .. i : all[j] # Nul}
<1>1. /\ Len(str) \in Nat /\ Len(behind) \in Nat
      /\ all \in Seq(Byte) /\ Len(all) = Len(str) + Len(behind)
      /\ \A i \in 1 .. Len(str) : all[i] = str[i]
  BY LenProperties, ConcatProperties
<1> HIDE DEF all
<1>2. 1 .. Len(str) \subseteq before
  BY <1>1
<1>3. IsFiniteSet(1 .. Len(all)) /\ Cardinality(1 .. Len(str)) = Len(str)
  BY <1>1, IntervalFrom1
<1>4. IsFiniteSet(before)
  BY <1>3, FS_Subset
<1>5. Cardinality(before) >= Len(str)
  <2>1. Cardinality(before) \in Nat
    BY <1>4, FS_CardinalityType
  <2>2. Cardinality(1 .. Len(str)) <= Cardinality(before)
    BY <1>2, <1>4, FS_Subset
  <2> HIDE DEF before
  <2> QED
    BY <1>1, <1>3, <2>1, <2>2
<1>6. StrLen(all) = Cardinality(before) /\ StrLen(all) \in 0 .. Len(all)
  BY <1>1, StrLenFacts DEF StrLen
<1> HIDE DEF before
<1>7. \A i \in 1 .. StrLen(all) : all[i] \in Byte
  BY <1>1, <1>6, ElementOfSeq
<1>8. /\ Len(CStr(all)) = StrLen(all)
      /\ \A i \in 1 .. StrLen(all) : CStr(all)[i] = all[i]
  BY <1>1, <1>6, <1>7, SubSeqProperties DEF CStr
<1>9. Len(CStr(all)) >= Len(str) /\ \A i \in 1 .. Len(str) : CStr(all)[i] = str[i]
  BY <1>1, <1>5, <1>6, <1>8
<1> QED
  BY <1>9 DEF all

\* The chunks together are as long as the string; only the first chunk is
\* the string's own.
LEMMA EmittedFacts ==
  ASSUME NEW s \in Seq(Byte)
  PROVE  /\ Emitted(s) \in Seq(Byte)
         /\ Len(Emitted(s)) = Len(s)
         /\ Len(s) <= WRITE_LEN => Emitted(s) = s
<1>1. Len(s) \in Nat
  BY LenProperties
<1>2. \A i \in 1 .. Len(s) : ((i - 1) % WRITE_LEN) + 1 \in 1 .. Len(s)
  <2> SUFFICES ASSUME NEW i \in 1 .. Len(s)
               PROVE  ((i - 1) % WRITE_LEN) + 1 \in 1 .. Len(s)
    OBVIOUS
  <2>1. i - 1 \in Nat
    BY <1>1
  <2>2. (i - 1) % WRITE_LEN \in 0 .. (i - 1)
    BY <2>1, ModFacts
  <2> QED
    BY <1>1, <2>1, <2>2
<1>3. \A i \in 1 .. Len(s) : s[((i - 1) % WRITE_LEN) + 1] \in Byte
  BY <1>2, ElementOfSeq
<1>4. Emitted(s) \in [1 .. Len(s) -> Byte]
  BY <1>3 DEF Emitted
<1>5. Emitted(s) \in Seq(Byte) /\ Len(Emitted(s)) = Len(s)
  BY <1>1, <1>4, SeqDef, LenProperties
<1>6. ASSUME Len(s) <= WRITE_LEN
      PROVE  Emitted(s) = s
  <2>1. \A i \in 1 .. Len(s) : (i - 1) % WRITE_LEN = i - 1
    BY <1>1, <1>6, ModFacts, WriteLenAssumption
  <2>2. \A i \in 1 .. Len(s) : Emitted(s)[i] = s[i]
    BY <1>1, <2>1 DEF Emitted
  <2> QED
    BY <1>5, <2>2, SeqEqual
<1> QED
  BY <1>5, <1>6

LEMMA OverlayFacts ==
  ASSUME NEW new \in Seq(Byte), NEW old \in Seq(Byte)
  PROVE  /\ Overlay(new, old) \in Seq(Byte)
         /\ Len(Overlay(new, old)) >= Len(new)
         /\ Overlay(new, Empty) = new
<1>1. Len(new) \in Nat /\ Len(old) \in Nat
  BY LenProperties
<1>2. \A i \in Len(new) + 1 .. Len(old) : old[i] \in Byte
  BY <1>1, ElementOfSeq
<1>3. /\ SubSeq(old, Len(new) + 1, Len(old)) \in Seq(Byte)
      /\ Len(SubSeq(old, Len(new) + 1, Len(old))) \in Nat
  BY <1>1, <1>2, SubSeqProperties
<1>4. Overlay(new, old) \in Seq(Byte) /\ Len(Overlay(new, old)) >= Len(new)
  BY <1>1, <1>3, ConcatProperties DEF Overlay
<1>5. SubSeq(Empty, Len(new) + 1, Len(Empty)) = << >>
  <2>1. Len(Empty) = 0
    BY EmptySeq DEF Empty
  <2>2. /\ SubSeq(Empty, Len(new) + 1, 0) \in Seq(Byte)
        /\ Len(SubSeq(Empty, Len(new) + 1, 0)) = 0
    BY <1>1, SubSeqProperties, \A i \in Len(new) + 1 .. 0 : Empty[i] \in Byte
  <2> QED
    BY <2>1, <2>2, EmptySeq
<1>6. Overlay(new, Empty) = new
  BY <1>5, ConcatEmptySeq DEF Overlay
<1> QED
  BY <1>4, <1>6

(***************************************************************************)
(* Write always leaves a sequence of bytes: the type of the files in the   *)
(* models that use it.                                                     *)
(***************************************************************************)
THEOREM WrittenType ==
  ASSUME NEW str \in Seq(Byte), NEW old \in Seq(Byte)
  PROVE  Written(str, old) \in Seq(Byte)
BY CStrFacts, EmittedFacts, OverlayFacts DEF Written

(***************************************************************************)
(* A body of at most WRITE_LEN bytes that holds no Nul is what a fresh     *)
(* file contains after Write, so its md5 check can succeed.                *)
(***************************************************************************)
THEOREM ShortBodyIsWritten ==
  ASSUME NEW str \in Seq(Byte), Len(str) <= WRITE_LEN,
         \A i \in 1 .. Len(str) : str[i] # Nul
  PROVE  Written(str, Empty) = str
<1>1. CStr(str) = str
  BY CStrFacts
<1>2. Emitted(str) = str
  BY EmittedFacts
<1> QED
  BY <1>1, <1>2, OverlayFacts DEF Written
=============================================================================
