-------------------------------- MODULE Md5 --------------------------------
(***************************************************************************)
(* class MD5 (src/md5.cpp): one object, fed by update() in pieces of any   *)
(* length and closed by finalize().  The client signs every part with it,  *)
(* and the server compares the signature with what md5sum prints, so the   *)
(* digest has to be that of RFC 1321 for every text and every cut of it.   *)
(*                                                                         *)
(* update() is a loop of its own, a step per block.  What transform() does *)
(* to the state is a parameter (Md5Transform has the real one).            *)
(***************************************************************************)
EXTENDS Integers, Sequences, SequencesExt

CONSTANTS WORD,             \* values of a uint4: 2^32
          Transform(_, _),  \* the state after a block
          Magic,            \* the initial state
          Encode(_),        \* bytes of a state
          Pieces,           \* arguments of update()
          Garbage,          \* what a new buffer may hold
          MaxLength,        \* bound: bytes of text
          MaxUpdates        \* bound: calls of update()

blocksize == 64
Byte == 0 .. 255
Block == [1 .. blocksize -> Byte]
Zeros(n) == [j \in 1 .. n |-> 0]

\* A piece is shorter than a size_type can say, and i + blocksize never wraps.
ASSUME Md5Assumption ==
  /\ WORD \in Nat /\ WORD % 512 = 0 /\ WORD > 512
  /\ Pieces \subseteq Seq(Byte) /\ \A p \in Pieces : Len(p) < WORD - blocksize
  /\ Garbage \subseteq Block
  /\ MaxLength \in Nat /\ MaxUpdates \in Nat

VARIABLES
  \* the object
  finalized, buffer, count, state, digest,
  \* the frame of update()
  pc,        \* "idle", "fill", "chunk", "rest"; in finalize() "bits", "store"
  return,    \* pc when update() is done
  input, index, i,
  bits,      \* of finalize()
  \* history
  text,      \* what the user fed before finalize()
  stream,    \* what update() got since the count was last zero
  blocks,    \* blocks of the stream given to transform()
  updates    \* calls of update()

frame == <<pc, return, input, index, i>>
vars  == <<finalized, buffer, count, state, digest, frame, bits,
           text, stream, blocks, updates>>
-----------------------------------------------------------------------------
(* init() *)
Init ==
  /\ finalized = FALSE
  /\ buffer \in Garbage
  /\ count = <<0, 0>>
  /\ state = Magic
  /\ digest = <<>>
  /\ pc = "idle" /\ return = "idle" /\ input = <<>> /\ index = 0 /\ i = 0
  /\ bits = <<>>
  /\ text = <<>> /\ stream = <<>> /\ blocks = <<>> /\ updates = 0

\* memcpy(&buffer[at], data, Len(data))
Copy(at, data) ==
  [j \in 1 .. blocksize |->
     IF at < j /\ j <= at + Len(data) THEN data[j - at] ELSE buffer[j]]

Apply(block) ==
  /\ state' = Transform(state, block)
  /\ blocks' = Append(blocks, block)

\* The 64-bit count of bits, after another length bytes.
Counted_NoCarry(length) ==
  LET low == (count[1] + 8 * length) % WORD
  IN  <<low, (count[2] + length \div (WORD \div 8)) % WORD>>
Counted(length) ==
  LET shifted == (8 * length) % WORD
      low == (count[1] + shifted) % WORD
      carry == IF low < shifted THEN 1 ELSE 0
  IN  <<low, (count[2] + carry + length \div (WORD \div 8)) % WORD>>

\* Bytes in the buffer.
Held_NoMod == count[1] \div 8
Held == (count[1] \div 8) % blocksize

\* Entry of update(data), to continue at next.
Begin(data, next) ==
  /\ index' = Held
  /\ count' = Counted(Len(data))
  /\ input' = data
  /\ i' = 0
  /\ pc' = IF Len(data) >= blocksize - index' THEN "fill" ELSE "rest"
  /\ return' = next
  /\ stream' = stream \o data

Update(data) ==
  /\ pc = "idle" /\ updates < MaxUpdates
  /\ Len(text) + Len(data) <= MaxLength
  /\ Begin(data, "idle")
  /\ text' = IF finalized THEN text ELSE text \o data
  /\ updates' = updates + 1
  /\ UNCHANGED <<finalized, buffer, state, digest, bits, blocks>>

\* The first bytes complete the buffer.
Fill ==
  /\ pc = "fill"
  /\ buffer' = Copy(index, SubSeq(input, 1, blocksize - index))
  /\ Apply(buffer')
  /\ i' = blocksize - index
  /\ index' = 0
  /\ pc' = "chunk"
  /\ UNCHANGED <<finalized, count, digest, return, input, bits, text, stream, updates>>

\* Whole blocks are taken from the input.
Chunk ==
  /\ pc = "chunk"
  /\ IF i + blocksize <= Len(input)
     THEN /\ Apply(SubSeq(input, i + 1, i + blocksize))
          /\ i' = i + blocksize
          /\ UNCHANGED pc
     ELSE /\ pc' = "rest"
          /\ UNCHANGED <<state, blocks, i>>
  /\ UNCHANGED <<finalized, buffer, count, digest, return, input, index, bits,
                 text, stream, updates>>

\* What is left stays in the buffer.
Rest ==
  /\ pc = "rest"
  /\ buffer' = Copy(index, SubSeq(input, i + 1, Len(input)))
  /\ pc' = return
  /\ UNCHANGED <<finalized, count, state, digest, return, input, index, i, bits,
                 text, stream, blocks, updates>>

\* encode() of a uint4
Bytes(w) == <<w % 256, (w \div 256) % 256, (w \div 65536) % 256, (w \div 16777216) % 256>>

padding == [j \in 1 .. blocksize |-> IF j = 1 THEN 128 ELSE 0]

\* pad out to 56 mod 64
PadLen_Late == IF Held <= 56 THEN 56 - Held ELSE 120 - Held
PadLen == IF Held < 56 THEN 56 - Held ELSE 120 - Held

\* finalize() is without effect when called again.
Finalize ==
  /\ pc = "idle" /\ ~finalized
  /\ bits' = Bytes(count[1]) \o Bytes(count[2])
  /\ Begin(SubSeq(padding, 1, PadLen), "bits")
  /\ UNCHANGED <<finalized, buffer, state, digest, text, blocks, updates>>

AppendLength ==
  /\ pc = "bits"
  /\ Begin(bits, "store")
  /\ UNCHANGED <<finalized, buffer, state, digest, bits, text, blocks, updates>>

\* The digest is stored and the context zeroized, but for the state.
Store ==
  /\ pc = "store"
  /\ digest' = Encode(state)
  /\ buffer' = Zeros(blocksize)
  /\ count' = <<0, 0>>
  /\ finalized' = TRUE
  /\ pc' = "idle"
  /\ stream' = <<>> /\ blocks' = <<>>
  /\ UNCHANGED <<state, return, input, index, i, bits, text, updates>>

hexdigest == IF finalized THEN digest ELSE <<>>

Next ==
  \/ \E data \in Pieces : Update(data)
  \/ Fill \/ Chunk \/ Rest
  \/ Finalize \/ AppendLength \/ Store

Spec == Init /\ [][Next]_vars
-----------------------------------------------------------------------------
TypeOK ==
  /\ finalized \in BOOLEAN
  /\ buffer \in Block
  /\ count \in (0 .. WORD - 1) \X (0 .. WORD - 1)
  /\ pc \in {"idle", "fill", "chunk", "rest", "bits", "store"}
  /\ return \in {"idle", "bits", "store"}
  /\ input \in Seq(Byte)
  /\ index \in 0 .. blocksize - 1
  /\ i \in 0 .. Len(input)
  /\ bits \in Seq(Byte)
  /\ text \in Seq(Byte) /\ stream \in Seq(Byte) /\ blocks \in Seq(Block)
  /\ updates \in 0 .. MaxUpdates

(***************************************************************************)
(* Between two calls nothing fed was lost, repeated or reordered, however  *)
(* it was cut: block k of the stream went to transform() as its k-th       *)
(* argument, the bytes behind the last whole block are the first of the    *)
(* buffer, and the count of bits is exact, over both words.                *)
(***************************************************************************)
BlockOf(s, k) == SubSeq(s, blocksize * (k - 1) + 1, blocksize * k)

HeldByte(j) == buffer[j] = stream[blocksize * Len(blocks) + j]

StreamIsHashed ==
  pc \in {"idle", "bits", "store"} =>
    /\ Len(blocks) = Len(stream) \div blocksize
    /\ \A k \in 1 .. Len(blocks) : blocks[k] = BlockOf(stream, k)
    /\ \A j \in 1 .. Len(stream) % blocksize : HeldByte(j)
    /\ count[1] = (8 * Len(stream)) % WORD
    /\ count[2] = (Len(stream) \div (WORD \div 8)) % WORD

(***************************************************************************)
(* RFC 1321, 3.1 to 3.5, in one piece: the text, one 1 bit, as few 0 bits  *)
(* as make the length 448 modulo 512, the length.                          *)
(***************************************************************************)
Padded(t) ==
  LET fill == CHOOSE n \in 0 .. 63 : (Len(t) + 1 + n) % 64 = 56
  IN  t \o <<128>> \o Zeros(fill)
        \o Bytes((8 * Len(t)) % WORD) \o Bytes((Len(t) \div (WORD \div 8)) % WORD)

Rfc1321(t) ==
  LET padded == Padded(t)
  IN  Encode(FoldLeft(Transform, Magic,
        [k \in 1 .. Len(padded) \div blocksize |-> BlockOf(padded, k)]))

(***************************************************************************)
(* The digest is the one of the RFC for all that was fed before            *)
(* finalize(), and neither a second finalize() nor a late update() changes *)
(* it.                                                                     *)
(***************************************************************************)
DigestIsRfc == finalized => hexdigest = Rfc1321(text)
=============================================================================
