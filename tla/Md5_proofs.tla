----------------------------- MODULE Md5_proofs -----------------------------
(***************************************************************************)
(* Theorems about the buffering of class MD5, for every word size, every   *)
(* transform, every cut of a text of any length and any number of calls.   *)
(***************************************************************************)
EXTENDS Md5, SequenceTheorems, Arithmetic, TLAPS
-----------------------------------------------------------------------------
(***************************************************************************)
(* The 64-bit count.                                                       *)
(***************************************************************************)
CountOf(n) == <<(8 * n) % WORD, (n \div (WORD \div 8)) % WORD>>

\* A word is some number of blocks of bits, and eight times an eighth.
LEMMA WordFacts ==
  /\ WORD \in Nat \ {0} /\ WORD \div 8 \in Nat \ {0} /\ WORD = 8 * (WORD \div 8)
  /\ WORD \div 512 \in Nat /\ WORD = 512 * (WORD \div 512)
BY Md5Assumption

\* Bytes and bits have the same quotient.
LEMMA Eighth ==
  ASSUME NEW n \in Nat
  PROVE  n \div (WORD \div 8) = (8 * n) \div WORD
<1> DEFINE e == WORD \div 8
           q == n \div e
           r == n % e
           b == 8 * n
<1>1. e \in Nat \ {0} /\ WORD = 8 * e /\ WORD \in Nat \ {0}
  BY WordFacts
<1> HIDE DEF e
<1>2. q \in Int /\ r \in 0 .. e - 1 /\ n = e * q + r
  BY <1>1, DivMod
<1>3. b \in Nat
  OBVIOUS
<1> HIDE DEF q, r
<1>4. WORD * q = 8 * (e * q)
  BY <1>1, <1>2
<1>5. b = WORD * q + 8 * r
  BY <1>1, <1>2, <1>4
<1>6. 8 * r \in 0 .. WORD - 1
  BY <1>1, <1>2
<1> HIDE DEF b
<1>7. b \div WORD = q
  BY <1>1, <1>2, <1>3, <1>5, <1>6, DivModOf
<1> QED
  BY <1>7 DEF q, e, b

\* The count of n and length more bytes, computed from the words.
LEMMA CountedFacts ==
  ASSUME NEW n \in Nat, NEW length \in Nat, count = CountOf(n)
  PROVE  Counted(length) = CountOf(n + length)
<1> DEFINE a == 8 * n
           b == 8 * length
           c == 8 * (n + length)
<1>1. a \in Nat /\ b \in Nat /\ c \in Nat /\ c = a + b /\ WORD \in Nat \ {0} /\ n + length \in Nat
  BY WordFacts
<1>2. count = <<a % WORD, (a \div WORD) % WORD>>
  BY Eighth DEF CountOf
<1>3. CountOf(n + length) = <<c % WORD, (c \div WORD) % WORD>>
  BY <1>1, Eighth DEF CountOf
<1>4. length \div (WORD \div 8) = b \div WORD
  BY Eighth
<1> HIDE DEF a, b, c
<1> DEFINE qa == a \div WORD
           ra == a % WORD
           qb == b \div WORD
           rb == b % WORD
           s == (ra + rb) % WORD
           carry == IF s < rb THEN 1 ELSE 0
<1>5. Counted(length) = <<s, ((qa % WORD) + carry + qb) % WORD>>
  <2>1. (8 * length) % WORD = rb
    BY DEF b
  <2>2. count[1] = ra /\ count[2] = qa % WORD
    BY <1>2
  <2> QED
    BY <1>4, <2>1, <2>2 DEF Counted
<1>6. /\ qa \in Nat /\ ra \in 0 .. WORD - 1 /\ a = WORD * qa + ra
      /\ qb \in Nat /\ rb \in 0 .. WORD - 1 /\ b = WORD * qb + rb
  BY <1>1, DivMod, DivNat
<1>7. carry \in Nat
  OBVIOUS
<1> HIDE DEF qa, ra, qb, rb, s
<1>8. c % WORD = s /\ c \div WORD = qa + qb + carry
  <2>1. s = (ra + rb) % WORD
    BY DEF s
  <2> QED
    BY <1>1, <1>6, <2>1, SumWithCarry
<1> HIDE DEF carry
<1>9. qa % WORD \in 0 .. WORD - 1
  BY <1>1, <1>6, DivMod
<1> DEFINE more == carry + qb
<1>10. more \in Nat /\ (qa % WORD) + carry + qb = (qa % WORD) + more /\ qa + qb + carry = qa + more
  BY <1>6, <1>7, <1>9
<1> HIDE DEF more
<1>11. ((qa % WORD) + more) % WORD = (qa + more) % WORD
  <2>1. more \in Nat /\ qa \in Nat /\ WORD \in Nat \ {0}
    BY <1>1, <1>6, <1>10
  <2> QED
    BY <2>1, RemainderOfSum
<1> QED
  BY <1>3, <1>5, <1>8, <1>10, <1>11

\* The count has the right type and says how many bytes the buffer holds.
LEMMA CountFacts ==
  ASSUME NEW n \in Nat
  PROVE  /\ CountOf(n) \in (0 .. WORD - 1) \X (0 .. WORD - 1)
         /\ count = CountOf(n) => Held = n % 64
<1> DEFINE a == 8 * n
           q == a \div WORD
           r == a % WORD
           k == WORD \div 512
<1>0. a \in Nat /\ WORD \in Nat \ {0}
  BY WordFacts
<1>1. CountOf(n) = <<r, q % WORD>>
  BY Eighth DEF CountOf
<1>2. a = 8 * n
  OBVIOUS
<1> HIDE DEF a
<1>3. q \in Nat /\ r \in 0 .. WORD - 1 /\ a = WORD * q + r
  BY <1>0, DivMod, DivNat
<1>4. k \in Nat /\ WORD = 512 * k
  BY WordFacts
<1> HIDE DEF q, r, k
<1>5. q % WORD \in 0 .. WORD - 1
  BY <1>0, <1>3, DivMod
<1>6. k * q \in Nat /\ WORD * q = 512 * (k * q) /\ r \in Nat
  BY <1>0, <1>3, <1>4
<1>7. (r \div 8) % 64 = n % 64
  <2> DEFINE z == k * q
  <2>1. z \in Nat /\ 8 * n = 512 * z + r
    BY <1>2, <1>3, <1>6
  <2> HIDE DEF z
  <2>2. r \div 8 = n - 64 * z
    BY <1>6, <2>1
  <2> QED
    BY <1>6, <2>1, <2>2
<1>8. count = CountOf(n) => Held = n % 64
  BY <1>1, <1>7 DEF Held, blocksize
<1> QED
  BY <1>1, <1>3, <1>5, <1>8

LEMMA CountOfZero == CountOf(0) = <<0, 0>>
<1>1. WORD \in Nat \ {0} /\ WORD \div 8 \in Nat \ {0}
  BY WordFacts
<1>2. 0 % WORD = 0 /\ 0 \div (WORD \div 8) = 0
  BY <1>1, DivModOf, 0 = WORD * 0 + 0, 0 = (WORD \div 8) * 0 + 0
<1> QED
  BY <1>2 DEF CountOf
-----------------------------------------------------------------------------
(***************************************************************************)
(* The invariant: where the bytes of the stream are, at every step of      *)
(* update().                                                               *)
(***************************************************************************)
Hashed ==
  \A k \in 1 .. Len(blocks) : \A j \in 1 .. 64 :
    blocks[k][j] = stream[64 * (k - 1) + j]

HoldsTail(n) == \A j \in 1 .. n : buffer[j] = stream[64 * Len(blocks) + j]

InputIsTail ==
  /\ Len(input) <= Len(stream)
  /\ \A j \in 1 .. Len(input) : stream[Len(stream) - Len(input) + j] = input[j]

Quiet ==
  /\ 64 * Len(blocks) <= Len(stream) /\ Len(stream) < 64 * Len(blocks) + 64
  /\ HoldsTail(Len(stream) - 64 * Len(blocks))

Filling ==
  /\ i = 0
  /\ 64 * Len(blocks) + index + Len(input) = Len(stream)
  /\ index + Len(input) >= 64
  /\ HoldsTail(index)
  /\ InputIsTail

Chunking ==
  /\ index = 0
  /\ 64 * Len(blocks) + Len(input) = Len(stream) + i
  /\ InputIsTail

Resting ==
  /\ 64 * Len(blocks) + index + Len(input) = Len(stream) + i
  /\ index + Len(input) < 64 + i
  /\ HoldsTail(index)
  /\ InputIsTail

Md5Inv ==
  /\ TypeOK
  /\ count = CountOf(Len(stream))
  /\ Hashed
  /\ pc \in {"idle", "bits", "store"} => Quiet
  /\ pc = "fill" => Filling
  /\ pc = "chunk" => Chunking
  /\ pc = "rest" => Resting
-----------------------------------------------------------------------------
LEMMA Lengths ==
  ASSUME TypeOK
  PROVE  Len(blocks) \in Nat /\ Len(input) \in Nat /\ Len(stream) \in Nat
BY LenProperties DEF TypeOK

\* What memcpy leaves in the buffer.
LEMMA CopyFacts ==
  ASSUME buffer \in Block, NEW data \in Seq(Byte), NEW at \in 0 .. 64
  PROVE  /\ Copy(at, data) \in Block
         /\ \A j \in 1 .. 64 : Copy(at, data)[j] =
              IF at < j /\ j <= at + Len(data) THEN data[j - at] ELSE buffer[j]
<1>1. Len(data) \in Nat
  BY LenProperties
<1>2. \A j \in 1 .. 64 : at < j /\ j <= at + Len(data) => data[j - at] \in Byte
  BY <1>1, ElementOfSeq
<1> QED
  BY <1>2 DEF Copy, Block, blocksize

\* A range of a text.
LEMMA RangeFacts ==
  ASSUME NEW s \in Seq(Byte), NEW from \in Nat, NEW to \in Nat,
         from <= to, to <= Len(s)
  PROVE  /\ SubSeq(s, from + 1, to) \in Seq(Byte)
         /\ Len(SubSeq(s, from + 1, to)) = to - from
         /\ \A j \in 1 .. to - from : SubSeq(s, from + 1, to)[j] = s[from + j]
<1>1. \A j \in from + 1 .. to : s[j] \in Byte
  BY ElementOfSeq, LenProperties
<1> DEFINE t == SubSeq(s, from + 1, to)
<1>2. /\ t \in Seq(Byte)
      /\ Len(t) = IF from + 1 <= to THEN to - (from + 1) + 1 ELSE 0
      /\ \A j \in 1 .. to - (from + 1) + 1 : t[j] = s[(from + 1) + j - 1]
  BY <1>1, SubSeqProperties
<1> HIDE DEF t
<1>3. Len(t) = to - from
  BY <1>2
<1>4. \A j \in 1 .. to - from : t[j] = s[from + j]
  <2> SUFFICES ASSUME NEW j \in 1 .. to - from
               PROVE  t[j] = s[from + j]
    OBVIOUS
  <2>1. j \in 1 .. to - (from + 1) + 1 /\ (from + 1) + j - 1 = from + j
    OBVIOUS
  <2> QED
    BY <1>2, <2>1
<1> QED
  BY <1>2, <1>3, <1>4 DEF t

\* One more block given to transform().
LEMMA ApplyFacts ==
  ASSUME TypeOK, Hashed, NEW block \in Block,
         \A j \in 1 .. 64 : block[j] = stream[64 * Len(blocks) + j],
         blocks' = Append(blocks, block), stream' = stream
  PROVE  Hashed' /\ blocks' \in Seq(Block) /\ Len(blocks') = Len(blocks) + 1
<1>1. blocks \in Seq(Block) /\ Len(blocks) \in Nat
  BY Lengths DEF TypeOK
<1>2. /\ blocks' \in Seq(Block) /\ Len(blocks') = Len(blocks) + 1
      /\ \A k \in 1 .. Len(blocks) : blocks'[k] = blocks[k]
      /\ blocks'[Len(blocks) + 1] = block
  BY <1>1, AppendProperties
<1>3. ASSUME NEW k \in 1 .. Len(blocks) + 1, NEW j \in 1 .. 64
      PROVE  blocks'[k][j] = stream[64 * (k - 1) + j]
  <2>1. CASE k = Len(blocks) + 1
    <3>1. 64 * (k - 1) + j = 64 * Len(blocks) + j
      BY <1>1, <2>1
    <3>2. blocks'[k] = block
      BY <1>2, <2>1
    <3>3. block[j] = stream[64 * Len(blocks) + j]
      OBVIOUS
    <3> QED
      BY <3>1, <3>2, <3>3
  <2>2. CASE k \in 1 .. Len(blocks)
    <3>1. blocks'[k] = blocks[k]
      BY <1>2, <2>2
    <3>2. blocks[k][j] = stream[64 * (k - 1) + j]
      BY <2>2 DEF Hashed
    <3> QED
      BY <3>1, <3>2
  <2>3. k = Len(blocks) + 1 \/ k \in 1 .. Len(blocks)
    <3> DEFINE B == Len(blocks)
    <3>1. B \in Nat /\ k \in 1 .. B + 1
      BY <1>1
    <3> HIDE DEF B
    <3>2. k = B + 1 \/ k \in 1 .. B
      BY <3>1
    <3> QED
      BY <3>2 DEF B
  <2> QED
    BY <2>1, <2>2, <2>3
<1> QED
  BY <1>2, <1>3 DEF Hashed

\* An update() begins.
LEMMA BeginFacts ==
  ASSUME Md5Inv, pc \in {"idle", "bits", "store"},
         NEW data \in Seq(Byte), NEW next \in {"idle", "bits", "store"},
         Begin(data, next), buffer' = buffer, blocks' = blocks
  PROVE  /\ count' \in (0 .. WORD - 1) \X (0 .. WORD - 1)
         /\ pc' \in {"fill", "rest"} /\ return' \in {"idle", "bits", "store"}
         /\ input' \in Seq(Byte) /\ index' \in 0 .. 63 /\ i' \in 0 .. Len(input')
         /\ stream' \in Seq(Byte)
         /\ count' = CountOf(Len(stream'))
         /\ Hashed'
         /\ pc' = "fill" => Filling'
         /\ pc' = "rest" => Resting'
<1> DEFINE L == Len(stream)
           B == Len(blocks)
           N == Len(data)
<1>1. L \in Nat /\ B \in Nat /\ N \in Nat /\ stream \in Seq(Byte)
  BY Lengths, LenProperties DEF Md5Inv, TypeOK
<1>2. 64 * B <= L /\ L < 64 * B + 64 /\ HoldsTail(L - 64 * B)
  BY DEF Md5Inv, Quiet
<1>3. stream' = stream \o data /\ input' = data /\ i' = 0 /\ index' = Held
      /\ count' = Counted(N) /\ return' = next
  BY DEF Begin
<1>4. /\ stream' \in Seq(Byte) /\ Len(stream') = L + N
      /\ \A j \in 1 .. L + N : stream'[j] = IF j <= L THEN stream[j] ELSE data[j - L]
  BY <1>1, <1>3, ConcatProperties
<1>5. count = CountOf(L)
  BY DEF Md5Inv
<1>6. count' = CountOf(L + N) /\ L + N \in Nat
  BY <1>1, <1>3, <1>5, CountedFacts
<1>7. count' \in (0 .. WORD - 1) \X (0 .. WORD - 1)
  BY <1>6, CountFacts
<1>8. index' = L % 64
  BY <1>1, <1>3, <1>5, CountFacts
<1> HIDE DEF L, B, N
<1>9. index' = L - 64 * B /\ index' \in 0 .. 63
  BY <1>1, <1>2, <1>8
<1>10. Hashed'
  <2> SUFFICES ASSUME NEW k \in 1 .. B, NEW j \in 1 .. 64
               PROVE  blocks[k][j] = stream'[64 * (k - 1) + j]
    BY DEF Hashed, B
  <2>1. blocks[k][j] = stream[64 * (k - 1) + j]
    BY DEF Md5Inv, Hashed, B
  <2>2. 64 * (k - 1) + j \in 1 .. L
    BY <1>1, <1>2
  <2> QED
    BY <1>1, <1>4, <2>1, <2>2
<1>11. HoldsTail(index)'
  <2> SUFFICES ASSUME NEW j \in 1 .. index'
               PROVE  buffer[j] = stream'[64 * B + j]
    BY DEF HoldsTail, B
  <2>1. j \in 1 .. L - 64 * B /\ 64 * B + j \in 1 .. L
    BY <1>1, <1>2, <1>9
  <2>2. buffer[j] = stream[64 * B + j]
    BY <1>2, <2>1 DEF HoldsTail, B
  <2> QED
    BY <1>1, <1>4, <2>1, <2>2
<1>12. InputIsTail'
  <2>1. Len(input') = N /\ Len(stream') = L + N
    BY <1>3, <1>4 DEF N
  <2> SUFFICES ASSUME NEW j \in 1 .. N
               PROVE  stream'[L + N - N + j] = data[j]
    BY <1>1, <1>3, <2>1 DEF InputIsTail
  <2>2. L + N - N + j = L + j /\ L + j \in 1 .. L + N /\ ~(L + j <= L) /\ (L + j) - L = j
    BY <1>1
  <2> QED
    BY <1>4, <2>2
<1>13. 64 * Len(blocks') + index' + Len(input') = Len(stream')
  <2>1. Len(blocks') = B /\ Len(input') = N
    BY <1>3 DEF B, N
  <2> QED
    BY <1>1, <1>4, <1>9, <2>1
<1>14. pc' = (IF N >= 64 - index' THEN "fill" ELSE "rest") /\ Len(input') = N
  BY <1>3 DEF Begin, blocksize, N
<1>15. CASE N >= 64 - index'
  <2>1. pc' = "fill" /\ index' + Len(input') >= 64
    BY <1>1, <1>9, <1>14, <1>15
  <2>2. Filling'
    BY <1>3, <1>11, <1>12, <1>13, <2>1 DEF Filling
  <2> QED
    BY <1>1, <1>3, <1>4, <1>6, <1>7, <1>9, <1>10, <1>14, <2>1, <2>2
<1>16. CASE ~(N >= 64 - index')
  <2>1. pc' = "rest" /\ index' + Len(input') < 64 + i'
    BY <1>1, <1>3, <1>9, <1>14, <1>16
  <2>2. 64 * Len(blocks') + index' + Len(input') = Len(stream') + i'
    BY <1>1, <1>3, <1>4, <1>13
  <2>3. Resting'
    BY <1>11, <1>12, <2>1, <2>2 DEF Resting
  <2> QED
    BY <1>1, <1>3, <1>4, <1>6, <1>7, <1>9, <1>10, <1>14, <2>1, <2>3
<1> QED
  BY <1>15, <1>16

LEMMA InitMd5 == Init => Md5Inv
<1> SUFFICES ASSUME Init
             PROVE  Md5Inv
  OBVIOUS
<1>1. WORD \in Nat /\ WORD > 512 /\ Garbage \subseteq Block /\ MaxUpdates \in Nat
  BY Md5Assumption
<1>2. Len(stream) = 0 /\ Len(blocks) = 0 /\ Len(input) = 0
  BY DEF Init
<1>3. TypeOK
  <2>1. /\ finalized \in BOOLEAN /\ buffer \in Block
        /\ pc = "idle" /\ return = "idle" /\ index \in 0 .. blocksize - 1
        /\ i \in 0 .. Len(input) /\ updates \in 0 .. MaxUpdates
    <3>1. finalized = FALSE /\ buffer \in Garbage /\ pc = "idle" /\ return = "idle"
          /\ index = 0 /\ i = 0 /\ updates = 0
      BY DEF Init
    <3>2. finalized \in BOOLEAN /\ buffer \in Block
      BY <1>1, <3>1
    <3>3. 0 \in 0 .. blocksize - 1 /\ 0 \in 0 .. Len(input) /\ 0 \in 0 .. MaxUpdates
      BY <1>1, <1>2 DEF blocksize
    <3> QED
      BY <3>1, <3>2, <3>3
  <2>2. /\ input \in Seq(Byte) /\ bits \in Seq(Byte) /\ text \in Seq(Byte)
        /\ stream \in Seq(Byte) /\ blocks \in Seq(Block)
    BY EmptySeq DEF Init
  <2>3. count \in (0 .. WORD - 1) \X (0 .. WORD - 1)
    BY <1>1 DEF Init
  <2> QED
    BY <2>1, <2>2, <2>3 DEF TypeOK
<1>4. count = CountOf(Len(stream))
  BY <1>2, CountOfZero DEF Init
<1>5. Hashed /\ Quiet
  BY <1>2 DEF Hashed, Quiet, HoldsTail
<1> QED
  BY <1>3, <1>4, <1>5 DEF Md5Inv, Init

\* A call of update(), by the user or by finalize().
LEMMA Beginning ==
  ASSUME Md5Inv, pc \in {"idle", "bits", "store"},
         NEW data \in Seq(Byte), NEW next \in {"idle", "bits", "store"},
         Begin(data, next), buffer' = buffer, blocks' = blocks,
         finalized' = finalized, bits' \in Seq(Byte), text' \in Seq(Byte),
         updates' \in 0 .. MaxUpdates
  PROVE  Md5Inv'
<1>1. /\ count' \in (0 .. WORD - 1) \X (0 .. WORD - 1)
      /\ pc' \in {"fill", "rest"} /\ return' \in {"idle", "bits", "store"}
      /\ input' \in Seq(Byte) /\ index' \in 0 .. 63 /\ i' \in 0 .. Len(input')
      /\ stream' \in Seq(Byte)
      /\ count' = CountOf(Len(stream'))
      /\ Hashed'
      /\ pc' = "fill" => Filling'
      /\ pc' = "rest" => Resting'
  BY BeginFacts
<1>2. finalized \in BOOLEAN /\ buffer \in Block /\ blocks \in Seq(Block)
  BY DEF Md5Inv, TypeOK
<1>3. TypeOK'
  BY <1>1, <1>2 DEF TypeOK, blocksize
<1> QED
  BY <1>1, <1>3 DEF Md5Inv

LEMMA UpdateStep ==
  ASSUME Md5Inv, NEW data \in Pieces, Update(data)
  PROVE  Md5Inv'
<1>1. data \in Seq(Byte) /\ MaxUpdates \in Nat
  BY Md5Assumption
<1>2. text \in Seq(Byte) /\ updates \in 0 .. MaxUpdates /\ bits \in Seq(Byte)
  BY DEF Md5Inv, TypeOK
<1>3. text' \in Seq(Byte)
  BY <1>1, <1>2, ConcatProperties DEF Update
<1>4. updates' \in 0 .. MaxUpdates
  BY <1>1, <1>2 DEF Update
<1>5. pc = "idle" /\ Begin(data, "idle") /\ UNCHANGED <<finalized, buffer, bits, blocks>>
  BY DEF Update
<1> QED
  BY <1>1, <1>2, <1>3, <1>4, <1>5, Beginning

LEMMA PadFacts ==
  ASSUME TypeOK
  PROVE  SubSeq(padding, 1, PadLen) \in Seq(Byte)
<1>1. Held \in 0 .. 63
  <2> DEFINE h == count[1] \div 8
  <2>1. h \in Nat
    BY Md5Assumption DEF TypeOK
  <2> HIDE DEF h
  <2>2. h % 64 \in 0 .. 63
    BY <2>1
  <2> QED
    BY <2>2 DEF Held, blocksize, h
<1>2. PadLen \in 1 .. 64
  <2> DEFINE h == Held
  <2>1. h \in 0 .. 63 /\ PadLen = IF h < 56 THEN 56 - h ELSE 120 - h
    BY <1>1 DEF PadLen
  <2> HIDE DEF h
  <2> QED
    BY <2>1
<1>3. \A j \in 1 .. PadLen : padding[j] \in Byte
  BY <1>2 DEF padding, blocksize, Byte
<1> QED
  BY <1>2, <1>3, SubSeqProperties

LEMMA BytesFacts ==
  ASSUME NEW w \in Nat
  PROVE  Bytes(w) \in Seq(Byte)
<1>1. w % 256 \in Byte
  BY DEF Byte
<1>2. w \div 256 \in Nat /\ w \div 65536 \in Nat /\ w \div 16777216 \in Nat
  BY DivNat
<1>3. /\ (w \div 256) % 256 \in Byte /\ (w \div 65536) % 256 \in Byte
      /\ (w \div 16777216) % 256 \in Byte
  BY <1>2 DEF Byte
<1> QED
  BY <1>1, <1>3 DEF Bytes

LEMMA FinalizeStep ==
  ASSUME Md5Inv, Finalize
  PROVE  Md5Inv'
<1>1. TypeOK /\ text \in Seq(Byte) /\ updates \in 0 .. MaxUpdates
  BY DEF Md5Inv, TypeOK
<1>2. count[1] \in Nat /\ count[2] \in Nat
  BY <1>1, Md5Assumption DEF TypeOK
<1>3. Bytes(count[1]) \in Seq(Byte) /\ Bytes(count[2]) \in Seq(Byte)
  BY <1>2, BytesFacts
<1>4. bits' \in Seq(Byte)
  BY <1>3, ConcatProperties DEF Finalize
<1>5. /\ pc = "idle" /\ Begin(SubSeq(padding, 1, PadLen), "bits")
      /\ UNCHANGED <<finalized, buffer, text, blocks, updates>>
  BY DEF Finalize
<1> DEFINE pad == SubSeq(padding, 1, PadLen)
<1>6. pad \in Seq(Byte)
  BY <1>1, PadFacts
<1> HIDE DEF pad
<1>7. Begin(pad, "bits")
  BY <1>5 DEF pad
<1> QED
  BY <1>1, <1>4, <1>5, <1>6, <1>7, Beginning

LEMMA AppendLengthStep ==
  ASSUME Md5Inv, AppendLength
  PROVE  Md5Inv'
<1>1. text \in Seq(Byte) /\ updates \in 0 .. MaxUpdates /\ bits \in Seq(Byte)
  BY DEF Md5Inv, TypeOK
<1>2. pc = "bits" /\ Begin(bits, "store")
      /\ UNCHANGED <<finalized, buffer, bits, text, blocks, updates>>
  BY DEF AppendLength
<1> QED
  BY <1>1, <1>2, Beginning

LEMMA FillStep ==
  ASSUME Md5Inv, Fill
  PROVE  Md5Inv'
<1> DEFINE L == Len(stream)
           B == Len(blocks)
           N == Len(input)
           x == index
           head == SubSeq(input, 1, 64 - index)
<1>1. /\ L \in Nat /\ B \in Nat /\ N \in Nat /\ x \in 0 .. 63
      /\ TypeOK /\ Hashed /\ Filling
  BY Lengths DEF Md5Inv, TypeOK, Fill, blocksize
<1>2. i = 0 /\ 64 * B + x + N = L /\ x + N >= 64
  BY <1>1 DEF Filling
<1>3. /\ buffer' = Copy(x, head) /\ blocks' = Append(blocks, buffer')
      /\ i' = 64 - x /\ index' = 0 /\ pc' = "chunk"
      /\ UNCHANGED <<finalized, count, return, input, bits, text, stream, updates>>
  BY DEF Fill, Apply, blocksize
<1>4. /\ head \in Seq(Byte) /\ Len(head) = 64 - x
      /\ \A j \in 1 .. 64 - x : head[j] = input[j]
  <2>1. input \in Seq(Byte) /\ 64 - x \in Nat /\ 0 \in Nat /\ 64 - x <= N /\ 0 <= 64 - x
    BY <1>1, <1>2 DEF TypeOK
  <2>2. /\ SubSeq(input, 0 + 1, 64 - x) \in Seq(Byte)
        /\ Len(SubSeq(input, 0 + 1, 64 - x)) = 64 - x - 0
        /\ \A j \in 1 .. 64 - x - 0 : SubSeq(input, 0 + 1, 64 - x)[j] = input[0 + j]
    BY <2>1, RangeFacts
  <2>3. head = SubSeq(input, 0 + 1, 64 - x) /\ 64 - x - 0 = 64 - x
    BY <1>1
  <2> HIDE DEF head
  <2> QED
    BY <2>2, <2>3
<1> HIDE DEF L, B, N, x, head
<1>5. /\ buffer' \in Block
      /\ \A j \in 1 .. 64 : buffer'[j] = IF x < j /\ j <= x + (64 - x) THEN head[j - x] ELSE buffer[j]
  <2>1. buffer \in Block /\ x \in 0 .. 64
    BY <1>1 DEF TypeOK
  <2>2. /\ Copy(x, head) \in Block
        /\ \A j \in 1 .. 64 : Copy(x, head)[j] =
             IF x < j /\ j <= x + Len(head) THEN head[j - x] ELSE buffer[j]
    BY <1>4, <2>1, CopyFacts
  <2> QED
    BY <1>3, <1>4, <2>2
<1>6. ASSUME NEW j \in 1 .. 64
      PROVE  buffer'[j] = stream[64 * Len(blocks) + j]
  <2>1. CASE x < j
    <3>1. j - x \in 1 .. 64 - x /\ j - x \in 1 .. N /\ j <= x + (64 - x)
      BY <1>1, <1>2, <2>1
    <3>2. buffer'[j] = input[j - x]
      BY <1>4, <1>5, <2>1, <3>1
    <3>3. stream[L - N + (j - x)] = input[j - x]
      BY <1>1, <3>1 DEF Filling, InputIsTail, L, N
    <3>4. L - N + (j - x) = 64 * B + j
      BY <1>1, <1>2
    <3> QED
      BY <3>2, <3>3, <3>4 DEF B
  <2>2. CASE ~(x < j)
    <3>1. j \in 1 .. x
      BY <1>1, <2>2
    <3>2. buffer'[j] = buffer[j]
      BY <1>5, <2>2
    <3>3. buffer[j] = stream[64 * Len(blocks) + j]
      BY <1>1, <3>1 DEF Filling, HoldsTail, x
    <3> QED
      BY <3>2, <3>3
  <2> QED
    BY <2>1, <2>2
<1> DEFINE block == buffer'
<1>7. block \in Block /\ blocks' = Append(blocks, block) /\ stream' = stream
  BY <1>3, <1>5
<1>8. \A j \in 1 .. 64 : block[j] = stream[64 * Len(blocks) + j]
  BY <1>6
<1>9. Hashed' /\ blocks' \in Seq(Block) /\ Len(blocks') = Len(blocks) + 1
  <2> HIDE DEF block
  <2> QED
    BY <1>1, <1>7, <1>8, ApplyFacts
<1>10. i' \in 0 .. Len(input')
  BY <1>1, <1>2, <1>3 DEF N
<1>11. TypeOK'
  BY <1>1, <1>3, <1>5, <1>9, <1>10 DEF TypeOK, blocksize
<1>12. InputIsTail'
  BY <1>1, <1>3 DEF Filling, InputIsTail
<1>13. 64 * Len(blocks') + Len(input') = Len(stream') + i'
  <2>1. Len(blocks') = B + 1 /\ Len(input') = N /\ Len(stream') = L
    BY <1>3, <1>9 DEF B, N, L
  <2> QED
    BY <1>1, <1>2, <1>3, <2>1
<1>14. Chunking'
  BY <1>3, <1>12, <1>13 DEF Chunking
<1>15. count' = CountOf(Len(stream'))
  BY <1>3 DEF Md5Inv, CountOf
<1> QED
  BY <1>3, <1>9, <1>11, <1>14, <1>15 DEF Md5Inv

LEMMA ChunkStep ==
  ASSUME Md5Inv, Chunk
  PROVE  Md5Inv'
<1> DEFINE L == Len(stream)
           B == Len(blocks)
           N == Len(input)
           block == SubSeq(input, i + 1, i + 64)
<1>1. /\ L \in Nat /\ B \in Nat /\ N \in Nat /\ i \in 0 .. N /\ index = 0
      /\ TypeOK /\ Hashed /\ InputIsTail /\ pc = "chunk"
      /\ input \in Seq(Byte)
  BY Lengths DEF Md5Inv, TypeOK, Chunk, Chunking
<1>2. 64 * B + N = L + i
  BY DEF Md5Inv, Chunk, Chunking
<1>3. UNCHANGED <<finalized, buffer, count, return, input, index, bits, text, stream, updates>>
  BY DEF Chunk
<1>4. count' = CountOf(Len(stream')) /\ InputIsTail'
  BY <1>1, <1>3 DEF Md5Inv, CountOf, InputIsTail
<1>5. CASE i + 64 <= N
  <2>1. blocks' = Append(blocks, block) /\ i' = i + 64 /\ pc' = pc
    BY <1>5 DEF Chunk, Apply, blocksize
  <2>2. /\ block \in Seq(Byte) /\ Len(block) = i + 64 - i
        /\ \A j \in 1 .. i + 64 - i : block[j] = input[i + j]
    BY <1>1, <1>5, RangeFacts
  <2> HIDE DEF block, L, B, N
  <2>3. block \in Block
    <3>1. Len(block) = 64
      BY <1>1, <2>2
    <3> QED
      BY <2>2, <3>1, LenProperties DEF Block, blocksize
  <2>4. ASSUME NEW j \in 1 .. 64
        PROVE  block[j] = stream[64 * Len(blocks) + j]
    <3>1. i + j \in 1 .. N /\ j \in 1 .. i + 64 - i
      BY <1>1, <1>5
    <3>2. block[j] = input[i + j]
      BY <2>2, <3>1
    <3>3. stream[L - N + (i + j)] = input[i + j]
      BY <1>1, <3>1 DEF InputIsTail, L, N
    <3>4. L - N + (i + j) = 64 * B + j
      BY <1>1, <1>2
    <3> QED
      BY <3>2, <3>3, <3>4 DEF B
  <2>5. stream' = stream
    BY <1>3
  <2>6. Hashed' /\ blocks' \in Seq(Block) /\ Len(blocks') = Len(blocks) + 1
    BY <1>1, <2>1, <2>3, <2>4, <2>5, ApplyFacts
  <2>7. i' \in 0 .. Len(input')
    BY <1>1, <1>3, <1>5, <2>1 DEF N
  <2>8. TypeOK'
    BY <1>1, <1>3, <2>1, <2>6, <2>7 DEF TypeOK
  <2>9. 64 * Len(blocks') + Len(input') = Len(stream') + i'
    <3>1. Len(blocks') = B + 1 /\ Len(input') = N /\ Len(stream') = L
      BY <1>3, <2>6 DEF B, N, L
    <3> QED
      BY <1>1, <1>2, <2>1, <3>1
  <2>10. Chunking'
    BY <1>1, <1>3, <1>4, <2>9 DEF Chunking
  <2> QED
    BY <1>1, <1>4, <2>1, <2>6, <2>8, <2>10 DEF Md5Inv
<1>6. CASE ~(i + 64 <= N)
  <2>1. blocks' = blocks /\ i' = i /\ pc' = "rest"
    BY <1>6 DEF Chunk, blocksize
  <2>2. TypeOK'
    BY <1>1, <1>3, <2>1 DEF TypeOK
  <2>3. Hashed'
    BY <1>1, <1>3, <2>1 DEF Hashed
  <2>4. 64 * Len(blocks') + index' + Len(input') = Len(stream') + i'
    <3>1. Len(blocks') = B /\ Len(input') = N /\ Len(stream') = L
      BY <1>3, <2>1
    <3> HIDE DEF B, N, L
    <3> QED
      BY <1>1, <1>2, <1>3, <2>1, <3>1
  <2>5. index' + Len(input') < 64 + i'
    <3>1. Len(input') = N
      BY <1>3
    <3> HIDE DEF N
    <3> QED
      BY <1>1, <1>3, <1>6, <2>1, <3>1
  <2>6. HoldsTail(index)'
    BY <1>1, <1>3 DEF HoldsTail
  <2>7. Resting'
    BY <1>4, <2>4, <2>5, <2>6 DEF Resting
  <2> QED
    BY <1>4, <2>1, <2>2, <2>3, <2>7 DEF Md5Inv
<1> QED
  BY <1>5, <1>6

LEMMA RestStep ==
  ASSUME Md5Inv, Rest
  PROVE  Md5Inv'
<1> DEFINE L == Len(stream)
           B == Len(blocks)
           N == Len(input)
           x == index
           tail == SubSeq(input, i + 1, Len(input))
<1>1. /\ L \in Nat /\ B \in Nat /\ N \in Nat /\ i \in 0 .. N /\ x \in 0 .. 63
      /\ TypeOK /\ Hashed /\ InputIsTail /\ input \in Seq(Byte)
  BY Lengths DEF Md5Inv, TypeOK, Rest, Resting, blocksize
<1>2. 64 * B + x + N = L + i /\ x + N < 64 + i /\ HoldsTail(x)
  BY DEF Md5Inv, Rest, Resting
<1>3. /\ buffer' = Copy(x, tail) /\ pc' = return
      /\ UNCHANGED <<finalized, count, return, input, index, i, bits, text, stream, blocks, updates>>
  BY DEF Rest
<1>4. /\ tail \in Seq(Byte) /\ Len(tail) = N - i
      /\ \A j \in 1 .. N - i : tail[j] = input[i + j]
  <2>1. i \in Nat /\ i <= N /\ N <= N
    BY <1>1
  <2> QED
    BY <1>1, <2>1, RangeFacts
<1> HIDE DEF L, B, N, x, tail
<1>5. /\ buffer' \in Block
      /\ \A j \in 1 .. 64 : buffer'[j] = IF x < j /\ j <= x + (N - i) THEN tail[j - x] ELSE buffer[j]
  <2>1. buffer \in Block /\ x \in 0 .. 64
    BY <1>1 DEF TypeOK
  <2>2. /\ Copy(x, tail) \in Block
        /\ \A j \in 1 .. 64 : Copy(x, tail)[j] =
             IF x < j /\ j <= x + Len(tail) THEN tail[j - x] ELSE buffer[j]
    BY <1>4, <2>1, CopyFacts
  <2> QED
    BY <1>3, <1>4, <2>2
<1>6. TypeOK'
  BY <1>1, <1>3, <1>5 DEF TypeOK
<1>7. Hashed' /\ count' = CountOf(Len(stream'))
  BY <1>1, <1>3 DEF Md5Inv, Hashed, CountOf
<1>8. L - 64 * B = x + (N - i) /\ x + (N - i) \in 0 .. 63
  BY <1>1, <1>2
<1>9. ASSUME NEW j \in 1 .. x + (N - i)
      PROVE  buffer'[j] = stream[64 * B + j]
  <2>1. j \in 1 .. 64
    BY <1>8
  <2>2. CASE x < j
    <3>1. j - x \in 1 .. N - i /\ i + (j - x) \in 1 .. N
      BY <1>1, <2>2
    <3>2. buffer'[j] = input[i + (j - x)]
      <4>1. j <= x + (N - i)
        BY <1>8
      <4>2. buffer'[j] = tail[j - x]
        BY <1>5, <2>1, <2>2, <4>1
      <4>3. tail[j - x] = input[i + (j - x)]
        BY <1>4, <3>1
      <4> QED
        BY <4>2, <4>3
    <3>3. stream[L - N + (i + (j - x))] = input[i + (j - x)]
      BY <1>1, <3>1 DEF InputIsTail, L, N
    <3>4. L - N + (i + (j - x)) = 64 * B + j
      BY <1>1, <1>2
    <3> QED
      BY <3>2, <3>3, <3>4
  <2>3. CASE ~(x < j)
    <3>1. j \in 1 .. x
      BY <1>1, <2>3
    <3>2. buffer'[j] = buffer[j]
      BY <1>5, <2>1, <2>3
    <3>3. buffer[j] = stream[64 * B + j]
      BY <1>2, <3>1 DEF HoldsTail, B
    <3> QED
      BY <3>2, <3>3
  <2> QED
    BY <2>2, <2>3
<1>10. Quiet'
  <2>1. Len(stream') = L /\ Len(blocks') = B /\ stream' = stream
    BY <1>3 DEF L, B
  <2>2. 64 * B <= L /\ L < 64 * B + 64
    BY <1>1, <1>8
  <2> SUFFICES ASSUME NEW j \in 1 .. L - 64 * B
               PROVE  buffer'[j] = stream[64 * B + j]
    BY <2>1, <2>2 DEF Quiet, HoldsTail
  <2> QED
    BY <1>8, <1>9
<1>11. pc' \in {"idle", "bits", "store"}
  BY <1>1, <1>3 DEF TypeOK
<1> QED
  BY <1>6, <1>7, <1>10, <1>11 DEF Md5Inv

LEMMA StoreStep ==
  ASSUME Md5Inv, Store
  PROVE  Md5Inv'
<1>1. /\ buffer' = Zeros(blocksize) /\ count' = <<0, 0>> /\ finalized' = TRUE
      /\ pc' = "idle" /\ stream' = <<>> /\ blocks' = <<>>
      /\ UNCHANGED <<return, input, index, i, bits, text, updates>>
  BY DEF Store
<1>2. Len(stream') = 0 /\ Len(blocks') = 0
  BY <1>1
<1>3. buffer' \in Block
  BY <1>1 DEF Zeros, Block, Byte, blocksize
<1>4. count' \in (0 .. WORD - 1) \X (0 .. WORD - 1)
  BY <1>1, Md5Assumption
<1>5. TypeOK'
  BY <1>1, <1>3, <1>4 DEF Md5Inv, TypeOK
<1>6. count' = CountOf(Len(stream'))
  BY <1>1, <1>2, CountOfZero
<1>7. Hashed' /\ Quiet'
  BY <1>2 DEF Hashed, Quiet, HoldsTail
<1> QED
  BY <1>1, <1>5, <1>6, <1>7 DEF Md5Inv

LEMMA NextMd5 == Md5Inv /\ [Next]_vars => Md5Inv'
<1> SUFFICES ASSUME Md5Inv, [Next]_vars
             PROVE  Md5Inv'
  OBVIOUS
<1>1. CASE \E data \in Pieces : Update(data)
  BY <1>1, UpdateStep
<1>2. CASE Fill
  BY <1>2, FillStep
<1>3. CASE Chunk
  BY <1>3, ChunkStep
<1>4. CASE Rest
  BY <1>4, RestStep
<1>5. CASE Finalize
  BY <1>5, FinalizeStep
<1>6. CASE AppendLength
  BY <1>6, AppendLengthStep
<1>7. CASE Store
  BY <1>7, StoreStep
<1>8. CASE UNCHANGED vars
  BY <1>8 DEF Md5Inv, TypeOK, CountOf, Hashed, Quiet, Filling, Chunking, Resting,
              HoldsTail, InputIsTail, vars, frame
<1> QED
  BY <1>1, <1>2, <1>3, <1>4, <1>5, <1>6, <1>7, <1>8 DEF Next

LEMMA Md5Invariant == Spec => []Md5Inv
<1>1. Init => Md5Inv
  BY InitMd5
<1>2. Md5Inv /\ [Next]_vars => Md5Inv'
  BY NextMd5
<1> QED
  BY <1>1, <1>2, PTL DEF Spec
-----------------------------------------------------------------------------
\* Between two calls the invariant says what StreamIsHashed does.
LEMMA QuietIsHashed ==
  ASSUME Md5Inv
  PROVE  StreamIsHashed
<1> SUFFICES ASSUME pc \in {"idle", "bits", "store"}
             PROVE  /\ Len(blocks) = Len(stream) \div 64
                    /\ \A k \in 1 .. Len(blocks) : blocks[k] = BlockOf(stream, k)
                    /\ \A j \in 1 .. Len(stream) % 64 : HeldByte(j)
                    /\ count = CountOf(Len(stream))
  BY DEF StreamIsHashed, CountOf, blocksize
<1> DEFINE L == Len(stream)
           B == Len(blocks)
<1>1. L \in Nat /\ B \in Nat /\ stream \in Seq(Byte) /\ blocks \in Seq(Block)
  BY Lengths DEF Md5Inv, TypeOK
<1>2. 64 * B <= L /\ L < 64 * B + 64 /\ HoldsTail(L - 64 * B) /\ Hashed
  BY DEF Md5Inv, Quiet
<1> HIDE DEF L, B
<1>3. B = L \div 64 /\ L - 64 * B = L % 64
  BY <1>1, <1>2
<1>4. ASSUME NEW k \in 1 .. B
      PROVE  blocks[k] = BlockOf(stream, k)
  <2>1. /\ 64 * (k - 1) \in Nat /\ 64 * k \in Nat /\ 64 * (k - 1) <= 64 * k
        /\ 64 * k <= L /\ 64 * k - 64 * (k - 1) = 64
    BY <1>1, <1>2
  <2> DEFINE from == 64 * (k - 1)
             to == 64 * k
             s == SubSeq(stream, from + 1, to)
  <2>2. from \in Nat /\ to \in Nat /\ from <= to /\ to <= Len(stream) /\ to - from = 64
    BY <2>1 DEF L
  <2>3. BlockOf(stream, k) = s
    BY DEF BlockOf, blocksize
  <2>4. \A j \in 1 .. 64 : blocks[k][j] = stream[from + j]
    BY <1>2 DEF Hashed, B
  <2> HIDE DEF from, to
  <2>5. /\ s \in Seq(Byte) /\ Len(s) = 64
        /\ \A j \in 1 .. 64 : s[j] = stream[from + j]
    BY <1>1, <2>2, RangeFacts
  <2>6. blocks[k] \in Block
    BY <1>1, ElementOfSeq DEF B
  <2> HIDE DEF s
  <2>7. s \in [1 .. 64 -> Byte] /\ blocks[k] \in [1 .. 64 -> Byte]
    BY <2>5, <2>6, LenProperties DEF Block, blocksize
  <2>8. \A j \in 1 .. 64 : blocks[k][j] = s[j]
    BY <2>4, <2>5
  <2>9. blocks[k] = s
    BY <2>7, <2>8
  <2> QED
    BY <2>3, <2>9
<1>5. \A j \in 1 .. L % 64 : HeldByte(j)
  BY <1>2, <1>3 DEF HoldsTail, HeldByte, blocksize
<1> QED
  BY <1>3, <1>4, <1>5 DEF L, B, Md5Inv

(***************************************************************************)
(* The object keeps its type, whatever is fed and however it is cut: no    *)
(* index leaves the buffer or the input (update() of md5.cpp).             *)
(***************************************************************************)
THEOREM ObjectTypeCorrect == Spec => []TypeOK
<1>1. Md5Inv => TypeOK
  BY DEF Md5Inv
<1> QED
  BY <1>1, Md5Invariant, PTL

(***************************************************************************)
(* update() loses, repeats and reorders nothing, for every text, every cut *)
(* of it into pieces and every size of a word, and the count over both     *)
(* words is exact: the carry test of md5.cpp is the right one.             *)
(***************************************************************************)
THEOREM EveryByteHashed == Spec => []StreamIsHashed
<1>1. Md5Inv => StreamIsHashed
  BY QuietIsHashed
<1> QED
  BY <1>1, Md5Invariant, PTL
-----------------------------------------------------------------------------
(***************************************************************************)
(* The digest of the RFC: a fold over the blocks, taken apart block by     *)
(* block.  FoldLeft is defined by a recursive function on the sets of      *)
(* positions; there is exactly one, by induction over the positions.       *)
(***************************************************************************)
Recursion(g, s, n) ==
  g = [u \in SUBSET (1 .. n) |->
         IF u = {} THEN Magic ELSE Transform(g[u \ {Max(u)}], s[Max(u)])]

LEMMA MaxFacts ==
  ASSUME NEW n \in Nat, NEW u \in SUBSET (1 .. n), u # {}
  PROVE  /\ Max(u) \in u /\ Max(u) \in 1 .. n /\ \A y \in u : y <= Max(u)
         /\ u \ {Max(u)} \in SUBSET (1 .. n - 1)
<1>1. \E x \in u : \A y \in u : x >= y
  BY GreatestNumber
<1>2. Max(u) \in u /\ \A y \in u : Max(u) >= y
  BY <1>1 DEF Max
<1> DEFINE m == Max(u)
<1>3. m \in 1 .. n /\ \A y \in u : y \in 1 .. n /\ m >= y
  BY <1>2
<1> HIDE DEF m
<1>4. ASSUME NEW y \in u \ {m}
      PROVE  y <= m /\ y \in 1 .. n - 1
  BY <1>3
<1>5. \A y \in u : y <= m
  BY <1>3
<1> QED
  BY <1>2, <1>3, <1>4, <1>5 DEF m

LEMMA RecursionRestricts ==
  ASSUME NEW n \in Nat, NEW s, NEW t, NEW g, Recursion(g, s, n + 1),
         \A j \in 1 .. n : t[j] = s[j]
  PROVE  Recursion([u \in SUBSET (1 .. n) |-> g[u]], t, n)
<1> DEFINE h == [u \in SUBSET (1 .. n) |-> g[u]]
           Body(u) == IF u = {} THEN Magic ELSE Transform(h[u \ {Max(u)}], t[Max(u)])
<1>1. ASSUME NEW u \in SUBSET (1 .. n)
      PROVE  g[u] = Body(u)
  <2>1. u \in SUBSET (1 .. n + 1)
    OBVIOUS
  <2>2. g[u] = IF u = {} THEN Magic ELSE Transform(g[u \ {Max(u)}], s[Max(u)])
    BY <2>1 DEF Recursion
  <2>3. CASE u # {}
    <3>1. Max(u) \in 1 .. n /\ u \ {Max(u)} \in SUBSET (1 .. n)
      BY <2>3, MaxFacts
    <3> QED
      BY <2>2, <2>3, <3>1
  <2> QED
    BY <2>2, <2>3
<1> QED
  BY <1>1 DEF Recursion

LEMMA RecursionExtends ==
  ASSUME NEW n \in Nat, NEW s, NEW g, Recursion(g, s, n)
  PROVE  \E h : Recursion(h, s, n + 1)
<1> DEFINE h == [u \in SUBSET (1 .. n + 1) |->
                   IF n + 1 \in u THEN Transform(g[u \ {n + 1}], s[n + 1]) ELSE g[u]]
           Body(u) == IF u = {} THEN Magic ELSE Transform(h[u \ {Max(u)}], s[Max(u)])
<1>1. ASSUME NEW u \in SUBSET (1 .. n + 1)
      PROVE  h[u] = Body(u)
  <2>1. CASE n + 1 \in u
    <3>1. Max(u) = n + 1 /\ u \ {Max(u)} \in SUBSET (1 .. n) /\ u # {}
      BY <2>1, MaxFacts
    <3>2. n + 1 \notin u \ {Max(u)} /\ u \ {Max(u)} \in SUBSET (1 .. n + 1)
      BY <3>1
    <3>3. h[u \ {Max(u)}] = g[u \ {n + 1}]
      BY <3>1, <3>2
    <3> QED
      BY <2>1, <3>1, <3>3
  <2>2. CASE n + 1 \notin u
    <3>1. u \in SUBSET (1 .. n) /\ h[u] = g[u]
      BY <2>2
    <3>2. g[u] = IF u = {} THEN Magic ELSE Transform(g[u \ {Max(u)}], s[Max(u)])
      BY <3>1 DEF Recursion
    <3>3. CASE u # {}
      <4>1. u \ {Max(u)} \in SUBSET (1 .. n + 1) /\ n + 1 \notin u \ {Max(u)}
        BY <2>2
      <4>2. h[u \ {Max(u)}] = g[u \ {Max(u)}]
        BY <4>1
      <4> QED
        BY <3>1, <3>2, <3>3, <4>2
    <3> QED
      BY <3>1, <3>2, <3>3
  <2> QED
    BY <2>1, <2>2
<1>2. h = [u \in SUBSET (1 .. n + 1) |-> Body(u)]
  BY <1>1
<1>3. Recursion(h, s, n + 1)
  BY <1>2 DEF Recursion
<1> HIDE DEF h
<1> QED
  BY <1>3

LEMMA RecursionExists ==
  ASSUME NEW s, NEW n \in Nat
  PROVE  \E g : Recursion(g, s, n)
<1> DEFINE P == {m \in Nat : \E g : Recursion(g, s, m)}
<1>1. 0 \in P
  <2> DEFINE g == [u \in SUBSET (1 .. 0) |-> Magic]
  <2>1. g = [u \in SUBSET (1 .. 0) |->
               IF u = {} THEN Magic ELSE Transform(g[u \ {Max(u)}], s[Max(u)])]
    OBVIOUS
  <2>2. Recursion(g, s, 0)
    BY <2>1 DEF Recursion
  <2> QED
    BY <2>2
<1>2. ASSUME NEW m \in P
      PROVE  m + 1 \in P
  BY RecursionExtends
<1>3. P = Nat
  <2> HIDE DEF P
  <2>1. P \in SUBSET Nat
    BY DEF P
  <2> QED
    BY <1>1, <1>2, <2>1, Induction
<1> QED
  BY <1>3

LEMMA RecursionUnique ==
  ASSUME NEW s, NEW n \in Nat, NEW g, NEW h, Recursion(g, s, n), Recursion(h, s, n)
  PROVE  g = h
<1> DEFINE P == {m \in Nat : \A u \in SUBSET (1 .. n) :
                   u \in SUBSET (1 .. m) => g[u] = h[u]}
           Body(f, u) == IF u = {} THEN Magic ELSE Transform(f[u \ {Max(u)}], s[Max(u)])
<1>1. \A u \in SUBSET (1 .. n) : g[u] = Body(g, u) /\ h[u] = Body(h, u)
  BY DEF Recursion
<1>2. 0 \in P
  BY <1>1
<1>3. ASSUME NEW m \in P
      PROVE  m + 1 \in P
  <2>1. m \in Nat /\ m + 1 \in Nat
    OBVIOUS
  <2>2. ASSUME NEW u \in SUBSET (1 .. n), u \in SUBSET (1 .. m + 1)
        PROVE  g[u] = h[u]
    <3>1. CASE u = {}
      BY <1>1, <3>1
    <3>2. CASE u # {}
      <4>1. u \ {Max(u)} \in SUBSET (1 .. n) /\ u \ {Max(u)} \in SUBSET (1 .. m)
        BY <2>1, <2>2, <3>2, MaxFacts
      <4>2. g[u \ {Max(u)}] = h[u \ {Max(u)}]
        BY <4>1
      <4> QED
        BY <1>1, <3>2, <4>2
    <3> QED
      BY <3>1, <3>2
  <2> QED
    BY <2>1, <2>2
<1>4. P = Nat
  <2> HIDE DEF P
  <2>1. P \in SUBSET Nat
    BY DEF P
  <2> QED
    BY <1>2, <1>3, <2>1, Induction
<1>5. \A u \in SUBSET (1 .. n) : g[u] = h[u]
  BY <1>4
<1> QED
  BY <1>5 DEF Recursion

LEMMA FoldIs ==
  ASSUME NEW S, NEW s \in Seq(S)
  PROVE  \E g : Recursion(g, s, Len(s)) /\ FoldLeft(Transform, Magic, s) = g[1 .. Len(s)]
<1> DEFINE G == CHOOSE g : Recursion(g, s, Len(s))
<1>1. Recursion(G, s, Len(s))
  <2>1. \E g : Recursion(g, s, Len(s))
    BY RecursionExists
  <2> QED
    BY <2>1
<1>2. DOMAIN s = 1 .. Len(s)
  OBVIOUS
<1>3. FoldLeft(Transform, Magic, s) = G[1 .. Len(s)]
  BY <1>2 DEF FoldLeft, MapThenFoldSet, Recursion
<1> QED
  BY <1>1, <1>3

LEMMA FoldEmpty == FoldLeft(Transform, Magic, <<>>) = Magic
<1>1. <<>> \in Seq({}) /\ Len(<<>>) = 0
  OBVIOUS
<1>2. PICK g : Recursion(g, <<>>, 0) /\ FoldLeft(Transform, Magic, <<>>) = g[1 .. 0]
  BY <1>1, FoldIs
<1>3. 1 .. 0 = {} /\ {} \in SUBSET (1 .. 0)
  OBVIOUS
<1>4. g[{}] = Magic
  BY <1>2, <1>3 DEF Recursion
<1> QED
  BY <1>2, <1>3, <1>4

LEMMA FoldAppend ==
  ASSUME NEW S, NEW s \in Seq(S), NEW x \in S
  PROVE  FoldLeft(Transform, Magic, Append(s, x))
           = Transform(FoldLeft(Transform, Magic, s), x)
<1> DEFINE n == Len(s)
           t == Append(s, x)
<1>1. /\ n \in Nat /\ t \in Seq(S) /\ Len(t) = n + 1
      /\ \A j \in 1 .. n : t[j] = s[j]
      /\ t[n + 1] = x
  BY AppendProperties, LenProperties
<1>2. PICK g : Recursion(g, s, n) /\ FoldLeft(Transform, Magic, s) = g[1 .. n]
  BY FoldIs
<1>3. PICK h : Recursion(h, t, n + 1) /\ FoldLeft(Transform, Magic, t) = h[1 .. n + 1]
  BY <1>1, FoldIs
<1> HIDE DEF n, t
<1>4. g = [u \in SUBSET (1 .. n) |-> h[u]]
  <2> DEFINE r == [u \in SUBSET (1 .. n) |-> h[u]]
  <2>1. Recursion(r, s, n)
    <3>1. n \in Nat /\ Recursion(h, t, n + 1) /\ \A j \in 1 .. n : s[j] = t[j]
      BY <1>1, <1>3
    <3> QED
      BY <3>1, RecursionRestricts
  <2> HIDE DEF r
  <2>2. g = r
    BY <1>1, <1>2, <2>1, RecursionUnique
  <2> QED
    BY <2>2 DEF r
<1>5. Max(1 .. n + 1) = n + 1 /\ (1 .. n + 1) \ {n + 1} = 1 .. n /\ 1 .. n + 1 # {}
  <2>0. n + 1 \in Nat /\ n + 1 \in 1 .. n + 1
    BY <1>1
  <2>1. 1 .. n + 1 # {} /\ n + 1 \in 1 .. n + 1 /\ n + 1 \in Nat
    BY <2>0
  <2>2. Max(1 .. n + 1) \in 1 .. n + 1 /\ n + 1 <= Max(1 .. n + 1)
    <3> DEFINE u == 1 .. n + 1
    <3>1. u \in SUBSET (1 .. n + 1) /\ u # {} /\ n + 1 \in u
      BY <2>1
    <3> HIDE DEF u
    <3>2. Max(u) \in 1 .. n + 1 /\ n + 1 <= Max(u)
      BY <2>1, <3>1, MaxFacts
    <3> QED
      BY <3>2 DEF u
  <2>3. (1 .. n + 1) \ {n + 1} = 1 .. n
    BY <1>1
  <2>4. Max(1 .. n + 1) = n + 1
    <3> DEFINE m == Max(1 .. n + 1)
    <3> HIDE DEF m
    <3>1. m \in 1 .. n + 1 /\ n + 1 <= m
      BY <2>2 DEF m
    <3>2. m = n + 1
      BY <1>1, <3>1
    <3> QED
      BY <3>2 DEF m
  <2> QED
    BY <2>1, <2>3, <2>4
<1>6. h[1 .. n + 1] = Transform(h[1 .. n], t[n + 1])
  BY <1>1, <1>3, <1>5 DEF Recursion
<1>7. h[1 .. n] = g[1 .. n]
  BY <1>4
<1> QED
  BY <1>1, <1>2, <1>3, <1>6, <1>7 DEF n, t
-----------------------------------------------------------------------------
(***************************************************************************)
(* What finalize() appends is the padding of the RFC.                      *)
(***************************************************************************)
LEMMA FillIs ==
  ASSUME NEW L \in Nat, NEW n \in 1 .. 64, (L + n) % 64 = 56
  PROVE  (CHOOSE m \in 0 .. 63 : (L + 1 + m) % 64 = 56) = n - 1
<1>1. n - 1 \in 0 .. 63 /\ (L + 1 + (n - 1)) % 64 = 56
  BY L + 1 + (n - 1) = L + n
<1>2. ASSUME NEW m \in 0 .. 63, (L + 1 + m) % 64 = 56
      PROVE  m = n - 1
  BY <1>2
<1> QED
  BY <1>1, <1>2

LEMMA PadLenFacts ==
  ASSUME Md5Inv
  PROVE  PadLen \in 1 .. 64 /\ (Len(stream) + PadLen) % 64 = 56
<1> DEFINE L == Len(stream)
           h == Held
<1>1. L \in Nat
  BY Lengths DEF Md5Inv
<1>2. h = L % 64
  BY <1>1, CountFacts DEF Md5Inv
<1>3. PadLen = IF h < 56 THEN 56 - h ELSE 120 - h
  BY DEF PadLen
<1> HIDE DEF L, h
<1>4. h \in 0 .. 63
  BY <1>1, <1>2
<1>5. PadLen \in 1 .. 64
  BY <1>3, <1>4
<1>6. (L + PadLen) % 64 = 56
  BY <1>1, <1>2, <1>3, <1>4
<1> QED
  BY <1>5, <1>6 DEF L

LEMMA PaddingIs ==
  ASSUME NEW n \in 1 .. 64
  PROVE  SubSeq(padding, 1, n) = <<128>> \o Zeros(n - 1)
<1>1. \A j \in 1 .. n : padding[j] \in Byte
  BY DEF padding, blocksize, Byte
<1>2. /\ SubSeq(padding, 1, n) \in Seq(Byte) /\ Len(SubSeq(padding, 1, n)) = n
      /\ \A j \in 1 .. n : SubSeq(padding, 1, n)[j] = padding[j]
  <2> DEFINE p == SubSeq(padding, 1, n)
  <2>1. /\ p \in Seq(Byte) /\ Len(p) = IF 1 <= n THEN n - 1 + 1 ELSE 0
        /\ \A j \in 1 .. n - 1 + 1 : p[j] = padding[1 + j - 1]
    BY <1>1, SubSeqProperties
  <2> HIDE DEF p
  <2>0. 1 <= n /\ n - 1 + 1 = n
    OBVIOUS
  <2>2. Len(p) = n
    BY <2>0, <2>1, Zenon
  <2>3. ASSUME NEW j \in 1 .. n
        PROVE  p[j] = padding[j]
    <3>1. j \in 1 .. n - 1 + 1 /\ 1 + j - 1 = j
      OBVIOUS
    <3> QED
      BY <2>1, <3>1
  <2> QED
    BY <2>1, <2>2, <2>3 DEF p
<1>3. Zeros(n - 1) \in Seq(Byte) /\ Len(Zeros(n - 1)) = n - 1 /\ <<128>> \in Seq(Byte)
  BY DEF Zeros, Byte
<1>4. /\ <<128>> \o Zeros(n - 1) \in Seq(Byte) /\ Len(<<128>> \o Zeros(n - 1)) = n
      /\ \A j \in 1 .. n : (<<128>> \o Zeros(n - 1))[j] = IF j = 1 THEN 128 ELSE 0
  <2> DEFINE z == Zeros(n - 1)
             s == <<128>> \o z
  <2>1. /\ s \in Seq(Byte) /\ Len(s) = 1 + (n - 1)
        /\ \A j \in 1 .. 1 + (n - 1) : s[j] = IF j <= 1 THEN <<128>>[j] ELSE z[j - 1]
    BY <1>3, ConcatProperties, Len(<<128>>) = 1
  <2>2. \A j \in 1 .. n - 1 : z[j] = 0
    BY DEF Zeros
  <2> HIDE DEF z, s
  <2>3. ASSUME NEW j \in 1 .. n
        PROVE  s[j] = IF j = 1 THEN 128 ELSE 0
    <3>1. j \in 1 .. 1 + (n - 1) /\ (j # 1 => j - 1 \in 1 .. n - 1 /\ ~(j <= 1))
      OBVIOUS
    <3> QED
      BY <2>1, <2>2, <3>1
  <2> QED
    BY <2>1, <2>3 DEF s, z
<1>5. \A j \in 1 .. n : padding[j] = IF j = 1 THEN 128 ELSE 0
  BY DEF padding, blocksize
<1> QED
  BY <1>2, <1>4, <1>5, SeqEqual

LEMMA AppendedIsPadded ==
  ASSUME Md5Inv
  PROVE  (stream \o SubSeq(padding, 1, PadLen)) \o (Bytes(count[1]) \o Bytes(count[2]))
           = Padded(stream)
<1> DEFINE n == PadLen
           a == Bytes(count[1])
           b == Bytes(count[2])
           z == Zeros(n - 1)
           m == <<128>>
<1>1. stream \in Seq(Byte) /\ Len(stream) \in Nat /\ count = CountOf(Len(stream))
  BY Lengths DEF Md5Inv, TypeOK
<1>2. n \in 1 .. 64 /\ (Len(stream) + n) % 64 = 56
  BY PadLenFacts
<1>3. count[1] \in Nat /\ count[2] \in Nat
  BY Md5Assumption DEF Md5Inv, TypeOK
<1>4. a \in Seq(Byte) /\ b \in Seq(Byte)
  BY <1>3, BytesFacts
<1> HIDE DEF n
<1>5. z \in Seq(Byte) /\ m \in Seq(Byte) /\ SubSeq(padding, 1, n) = m \o z
  <2>1. z \in [1 .. n - 1 -> Byte] /\ n - 1 \in Nat
    BY <1>2 DEF Zeros, Byte
  <2>2. m \in Seq(Byte)
    BY DEF Byte
  <2> HIDE DEF z
  <2>3. z \in Seq(Byte)
    BY <2>1, SeqDef
  <2> QED
    BY <1>2, <2>2, <2>3, PaddingIs DEF z
<1>6. Padded(stream) = stream \o m \o z \o a \o b
  <2>1. (CHOOSE k \in 0 .. 63 : (Len(stream) + 1 + k) % 64 = 56) = n - 1
    BY <1>1, <1>2, FillIs
  <2>2. /\ a = Bytes((8 * Len(stream)) % WORD)
        /\ b = Bytes((Len(stream) \div (WORD \div 8)) % WORD)
    BY <1>1 DEF CountOf
  <2> HIDE DEF a, b
  <2> QED
    BY <2>1, <2>2 DEF Padded
<1> HIDE DEF a, b, z, m
<1>7. stream \o m \in Seq(Byte) /\ m \o z \in Seq(Byte) /\ (stream \o m) \o z \in Seq(Byte)
  BY <1>1, <1>5, ConcatProperties
<1>8. (stream \o m) \o z = stream \o (m \o z)
  BY <1>1, <1>5, ConcatAssociative
<1>9. (((stream \o m) \o z) \o a) \o b = ((stream \o m) \o z) \o (a \o b)
  <2> DEFINE y == (stream \o m) \o z
  <2>1. y \in Seq(Byte)
    BY <1>7
  <2> HIDE DEF y
  <2>2. (y \o a) \o b = y \o (a \o b)
    BY <1>4, <2>1, ConcatAssociative
  <2> QED
    BY <2>2 DEF y
<1> QED
  BY <1>5, <1>6, <1>8, <1>9 DEF n, a, b
-----------------------------------------------------------------------------
(***************************************************************************)
(* The invariant: until finalize() is done, the state is what the blocks   *)
(* make of the initial one, and the stream is the text, then the padded    *)
(* text.                                                                   *)
(***************************************************************************)
Upcoming == IF pc \in {"fill", "chunk", "rest"} THEN return ELSE pc

Digested(bs) == FoldLeft(Transform, Magic, bs)

RfcInv ==
  /\ Md5Inv
  /\ ~finalized => state = Digested(blocks)
  /\ ~finalized /\ Upcoming = "idle" => stream = text
  /\ Upcoming = "bits" => ~finalized /\ stream \o bits = Padded(text)
  /\ Upcoming = "store" => ~finalized /\ stream = Padded(text)
  /\ finalized => digest = Rfc1321(text)

LEMMA ApplyDigests ==
  ASSUME TypeOK, NEW block, Apply(block), state = Digested(blocks)
  PROVE  state' = Digested(blocks')
<1> DEFINE S == Block \cup {block}
<1>1. blocks \in Seq(S) /\ block \in S
  <2>1. blocks \in Seq(Block) /\ Block \subseteq S
    BY DEF TypeOK
  <2> HIDE DEF S
  <2>2. blocks \in Seq(S)
    BY <2>1, SeqMonotonic
  <2> QED
    BY <2>2 DEF S
<1> HIDE DEF S
<1>2. Digested(Append(blocks, block)) = Transform(Digested(blocks), block)
  BY <1>1, FoldAppend DEF Digested
<1> QED
  BY <1>2 DEF Apply

LEMMA InitRfc == Init => RfcInv
<1> SUFFICES ASSUME Init
             PROVE  RfcInv
  OBVIOUS
<1>1. state = Digested(blocks)
  BY FoldEmpty DEF Init, Digested
<1>2. finalized = FALSE /\ pc = "idle" /\ stream = text
  BY DEF Init
<1> QED
  BY <1>1, <1>2, InitMd5 DEF RfcInv, Upcoming

\* Steps inside of update() leave what it is for.
LEMMA InsideRfc ==
  ASSUME RfcInv, Md5Inv', pc \in {"fill", "chunk", "rest"},
         pc' \in {"fill", "chunk", "rest"} \/ pc' = return,
         UNCHANGED <<finalized, return, bits, text, stream, digest>>,
         ~finalized => state' = Digested(blocks')
  PROVE  RfcInv'
<1>1. Upcoming' = Upcoming
  <2>1. Upcoming = return /\ return \in {"idle", "bits", "store"}
    BY DEF Upcoming, RfcInv, Md5Inv, TypeOK
  <2> QED
    BY <2>1 DEF Upcoming
<1> QED
  BY <1>1 DEF RfcInv

LEMMA NextRfc == RfcInv /\ [Next]_vars => RfcInv'
<1> SUFFICES ASSUME RfcInv, [Next]_vars
             PROVE  RfcInv'
  OBVIOUS
<1>0. Md5Inv /\ Md5Inv' /\ TypeOK
  BY NextMd5 DEF RfcInv, Md5Inv
<1>1. ASSUME NEW data \in Pieces, Update(data)
      PROVE  RfcInv'
  <2>1. /\ pc = "idle" /\ pc' \in {"fill", "rest"} /\ return' = "idle"
        /\ stream' = stream \o data
        /\ text' = IF finalized THEN text ELSE text \o data
        /\ UNCHANGED <<finalized, state, blocks, digest>>
    BY <1>1 DEF Update, Begin
  <2>2. Upcoming = "idle" /\ Upcoming' = "idle"
    BY <2>1 DEF Upcoming
  <2> QED
    BY <1>0, <2>1, <2>2 DEF RfcInv
<1>2. CASE Fill
  <2>1. /\ pc = "fill" /\ pc' = "chunk" /\ Apply(buffer')
        /\ UNCHANGED <<finalized, return, bits, text, stream, digest>>
    BY <1>2 DEF Fill
  <2>2. ~finalized => state' = Digested(blocks')
    BY <1>0, <2>1, ApplyDigests DEF RfcInv
  <2> QED
    BY <1>0, <2>1, <2>2, InsideRfc
<1>3. CASE Chunk
  <2>1. /\ pc = "chunk" /\ pc' \in {"chunk", "rest"}
        /\ UNCHANGED <<finalized, return, bits, text, stream, digest>>
        /\ Apply(SubSeq(input, i + 1, i + blocksize)) \/ UNCHANGED <<state, blocks>>
    BY <1>3 DEF Chunk
  <2>2. ~finalized => state' = Digested(blocks')
    BY <1>0, <2>1, ApplyDigests DEF RfcInv
  <2> QED
    BY <1>0, <2>1, <2>2, InsideRfc
<1>4. CASE Rest
  <2>1. /\ pc = "rest" /\ pc' = return
        /\ UNCHANGED <<finalized, return, bits, text, stream, digest, state, blocks>>
    BY <1>4 DEF Rest
  <2>2. ~finalized => state' = Digested(blocks')
    BY <2>1 DEF RfcInv
  <2> QED
    BY <1>0, <2>1, <2>2, InsideRfc
<1>5. CASE Finalize
  <2>1. /\ pc = "idle" /\ ~finalized /\ pc' \in {"fill", "rest"} /\ return' = "bits"
        /\ stream' = stream \o SubSeq(padding, 1, PadLen)
        /\ bits' = Bytes(count[1]) \o Bytes(count[2])
        /\ UNCHANGED <<finalized, state, blocks, digest, text>>
    BY <1>5 DEF Finalize, Begin
  <2>2. Upcoming = "idle" /\ Upcoming' = "bits"
    BY <2>1 DEF Upcoming
  <2>3. stream = text
    BY <2>1, <2>2 DEF RfcInv
  <2>4. stream' \o bits' = Padded(text')
    BY <1>0, <2>1, <2>3, AppendedIsPadded
  <2> QED
    BY <1>0, <2>1, <2>2, <2>4 DEF RfcInv
<1>6. CASE AppendLength
  <2>1. /\ pc = "bits" /\ pc' \in {"fill", "rest"} /\ return' = "store"
        /\ stream' = stream \o bits
        /\ UNCHANGED <<finalized, state, blocks, digest, text>>
    BY <1>6 DEF AppendLength, Begin
  <2>2. Upcoming = "bits" /\ Upcoming' = "store"
    BY <2>1 DEF Upcoming
  <2> QED
    BY <1>0, <2>1, <2>2 DEF RfcInv
<1>7. CASE Store
  <2>1. pc = "store" /\ pc' = "idle" /\ digest' = Encode(state) /\ finalized' = TRUE
        /\ text' = text
    BY <1>7 DEF Store
  <2>2. Upcoming = "store" /\ Upcoming' = "idle"
    BY <2>1 DEF Upcoming
  <2>3. stream = Padded(text) /\ state = Digested(blocks)
    BY <2>2 DEF RfcInv
  <2>4. blocks = [k \in 1 .. Len(stream) \div 64 |-> BlockOf(stream, k)]
    <3>1. blocks \in Seq(Block)
      BY <1>0 DEF TypeOK
    <3>2. /\ Len(blocks) = Len(stream) \div 64
          /\ \A k \in 1 .. Len(blocks) : blocks[k] = BlockOf(stream, k)
      BY <1>0, <2>1, QuietIsHashed DEF StreamIsHashed, blocksize
    <3>3. blocks = [k \in 1 .. Len(blocks) |-> blocks[k]]
      BY <3>1
    <3> QED
      BY <3>2, <3>3
  <2>5. digest' = Rfc1321(text')
    BY <2>1, <2>3, <2>4 DEF Rfc1321, Digested, blocksize
  <2> QED
    BY <1>0, <2>1, <2>2, <2>5 DEF RfcInv
<1>8. CASE UNCHANGED vars
  BY <1>0, <1>8 DEF RfcInv, Upcoming, vars, frame
<1> QED
  BY <1>1, <1>2, <1>3, <1>4, <1>5, <1>6, <1>7, <1>8 DEF Next

(***************************************************************************)
(* What hexdigest() returns is the digest of RFC 1321 for all that was fed *)
(* before finalize(), whatever transform() computes: for every text, every *)
(* cut of it, and every late update() or second finalize() (md5.cpp).      *)
(***************************************************************************)
THEOREM DigestCorrect == Spec => []DigestIsRfc
<1>1. Init => RfcInv
  BY InitRfc
<1>2. RfcInv /\ [Next]_vars => RfcInv'
  BY NextRfc
<1>3. RfcInv => DigestIsRfc
  BY DEF RfcInv, DigestIsRfc, hexdigest
<1> QED
  BY <1>1, <1>2, <1>3, PTL DEF Spec
=============================================================================
