---------------------------- MODULE ProtoMessage ----------------------------
(***************************************************************************)
(* A generated message class (proto/NetDisk.pb.h, NetDisk.pb.cc): two      *)
(* objects of it, every operation the class has, and the bytes one object  *)
(* is written to and another is read from.  All classes of the program are *)
(* generated alike: the fields are a parameter, and all of them required.  *)
(***************************************************************************)
EXTENDS Integers, Sequences, FiniteSets, FiniteSetsExt, Functions

CONSTANTS Classes,    \* classes: their fields, in the order of the numbers
          Values(_),  \* values of a field
          Unknown,    \* entries a later version of the class might write
          Cut,        \* value of an entry whose bytes end too early
          Objects,    \* objects of the class
          MaxCalls    \* bound: calls of setters and the like, damage to the bytes

\* A field is [name, number, kind]; numbers and flags are kept apart from texts.
IsNumeric(f) == f.kind \in {"uint32", "bool"}

\* The empty text, 0, and false, which is 0.
Default(f) == IF IsNumeric(f) THEN 0 ELSE ""

WireType(f) == IF IsNumeric(f) THEN "varint" ELSE "length"

\* Tags are one byte, and the later version does not reuse one.
ASSUME ClassAssumption ==
  /\ \A c \in Classes :
       /\ c \in Seq(Range(c))
       /\ \A j, k \in DOMAIN c : j < k => c[j].number < c[k].number
       /\ \A f \in Range(c) : f.number \in 1 .. 15 /\ Default(f) \in Values(f)
       /\ \A f \in Range(c) : Cut \notin Values(f)
       /\ \A e \in Unknown : \A f \in Range(c) : f.number = e.number => WireType(f) # e.type
  /\ \A e \in Unknown :
       e = [number |-> e.number, type |-> e.type, value |-> e.value] /\ e.value # Cut
  /\ MaxCalls \in Nat

VARIABLES
  class,      \* the class the objects are of
  obj,        \* the objects
  wire,       \* bytes, as a sequence of entries [number, type, value]
  pc,         \* "idle", or _InternalParse is at "entry", "failed"
  target, pos, has_bits,
  result,     \* of the last parse, while its object is as it left it
  sent,       \* history: the message on the wire,
  touched,    \*   and whether the wire is no longer what was written
  calls

vars == <<class, obj, wire, pc, target, pos, has_bits, result, sent, touched, calls>>
-----------------------------------------------------------------------------
(***************************************************************************)
(* The operations of a message.                                            *)
(***************************************************************************)
Fields == Range(class)
Numerics == {f \in Fields : IsNumeric(f)}

\* SharedCtor
New == [val |-> [f \in Fields |-> Default(f)], has |-> {}, unknown |-> <<>>]

Set(m, f, v) == [m EXCEPT !.val[f] = v, !.has = @ \cup {f}]

\* clear_f, release_f and set_allocated_f(nullptr)
ClearField(m, f) == [m EXCEPT !.val[f] = Default(f), !.has = @ \ {f}]

\* Clear() resets a text that is set, and all numbers if one of them is.
Clear_FirstOnly(m) ==
  LET stale(f) == IF IsNumeric(f) THEN f = CHOOSE g \in Numerics : TRUE ELSE f \in m.has
  IN  [New EXCEPT !.val = [f \in Fields |-> IF stale(f) THEN Default(f) ELSE m.val[f]]]
Clear(m) ==
  LET stale(f) == IF IsNumeric(f) THEN m.has \cap Numerics # {} ELSE f \in m.has
  IN  [New EXCEPT !.val = [f \in Fields |-> IF stale(f) THEN Default(f) ELSE m.val[f]]]

MergeFrom(m, from) ==
  [val     |-> [f \in Fields |-> IF f \in from.has THEN from.val[f] ELSE m.val[f]],
   has     |-> m.has \cup from.has,
   unknown |-> m.unknown \o from.unknown]

IsInitialized(m) == m.has = Fields

\* _InternalSerialize
Entry(m, f) == [number |-> f.number, type |-> WireType(f), value |-> m.val[f]]
Serialize(m) ==
  LET present == {k \in DOMAIN class : class[k] \in m.has}
      nth(i)  == CHOOSE k \in present : Cardinality({j \in present : j <= k}) = i
  IN  [i \in 1 .. Cardinality(present) |-> Entry(m, class[nth(i)])] \o m.unknown

\* Bytes of a number, seven bits in each, and of an entry with its tag.
VarintSize(n) == CHOOSE k \in 1 .. 5 : n < 128^k /\ (k > 1 => n >= 128^(k - 1))
EntrySize(type, v) ==
  1 + (IF type = "varint" THEN VarintSize(v) ELSE VarintSize(Len(v)) + Len(v))

\* Numbers are unsigned and of 32 bits, texts shorter than such a number says.
ASSUME SizeAssumption ==
  /\ \A c \in Classes : \A f \in Range(c) : \A v \in Values(f) : EntrySize(WireType(f), v) \in Nat
  /\ \A e \in Unknown : EntrySize(e.type, e.value) \in Nat

\* ByteSizeLong adds up the fields, all of them when none is missing.
WireSize(w) == MapThenSumSet(LAMBDA k : EntrySize(w[k].type, w[k].value), DOMAIN w)
FieldSize(m, f) == EntrySize(WireType(f), m.val[f])
RequiredFieldsByteSizeFallback(m) == MapThenSumSet(LAMBDA f : FieldSize(m, f), m.has)
ByteSizeLong_Fast(m) ==
  MapThenSumSet(LAMBDA f : FieldSize(m, f), Fields) + WireSize(m.unknown)
ByteSizeLong(m) ==
  (IF IsInitialized(m)
   THEN MapThenSumSet(LAMBDA f : FieldSize(m, f), Fields)
   ELSE RequiredFieldsByteSizeFallback(m)) + WireSize(m.unknown)
-----------------------------------------------------------------------------
Init ==
  /\ class \in Classes
  /\ obj = [o \in Objects |-> New]
  /\ wire = <<>>
  /\ pc = "idle" /\ target \in Objects /\ pos = 1 /\ has_bits = {}
  /\ result = "none"
  /\ sent = New /\ touched = TRUE
  /\ calls = 0

\* A call that leaves object o as m and does nothing else.
Becomes(o, m) ==
  /\ pc = "idle" /\ calls < MaxCalls
  /\ calls' = calls + 1
  /\ obj' = [obj EXCEPT ![o] = m]
  /\ result' = IF o = target THEN "none" ELSE result
  /\ UNCHANGED <<class, wire, pc, target, pos, has_bits, sent, touched>>

SetField(o) == \E f \in Fields : \E v \in Values(f) : Becomes(o, Set(obj[o], f, v))
Unset(o) == \E f \in Fields : Becomes(o, ClearField(obj[o], f))
Reset(o) == Becomes(o, Clear(obj[o]))
Merge(o, from) == o # from /\ Becomes(o, MergeFrom(obj[o], obj[from]))
Copy(o, from) == o # from /\ Becomes(o, MergeFrom(Clear(obj[o]), obj[from]))

\* InternalSwap
Swap(o, other) ==
  /\ o # other /\ pc = "idle" /\ calls < MaxCalls
  /\ calls' = calls + 1
  /\ obj' = [obj EXCEPT ![o] = obj[other], ![other] = obj[o]]
  /\ result' = IF target \in {o, other} THEN "none" ELSE result
  /\ UNCHANGED <<class, wire, pc, target, pos, has_bits, sent, touched>>

\* brpc sends nothing that misses a required field.
SerializeTo(o) ==
  /\ pc = "idle" /\ IsInitialized(obj[o])
  /\ wire' = Serialize(obj[o])
  /\ sent' = obj[o] /\ touched' = FALSE
  /\ result' = "none"
  /\ UNCHANGED <<class, obj, pc, target, pos, has_bits, calls>>

\* What is read is not what was written: bytes are missing at the end, or the
\* writer knew another field.
Tamper ==
  /\ pc = "idle" /\ ~touched /\ calls < MaxCalls
  /\ calls' = calls + 1
  /\ touched' = TRUE
  /\ \/ \E n \in 0 .. Len(wire) - 1 :
          wire' \in {SubSeq(wire, 1, n),
                     Append(SubSeq(wire, 1, n), [wire[n + 1] EXCEPT !.value = Cut])}
     \/ \E e \in Unknown : wire' = Append(wire, e)
  /\ result' = "none"
  /\ UNCHANGED <<class, obj, pc, target, pos, has_bits, sent>>
-----------------------------------------------------------------------------
(***************************************************************************)
(* ParseFrom: Clear, then _InternalParse, then the check for missing       *)
(* fields.  The bits of numbers are collected and or-ed at the end, also   *)
(* after a failure; those of texts are set before the text is read.        *)
(***************************************************************************)
ParseFrom(o) ==
  /\ pc = "idle"
  /\ obj' = [obj EXCEPT ![o] = Clear(obj[o])]
  /\ target' = o /\ pos' = 1 /\ has_bits' = {}
  /\ pc' = "entry" /\ result' = "none"
  /\ UNCHANGED <<class, wire, sent, touched, calls>>

entry == wire[pos]
AtEntry == pc = "entry" /\ pos <= Len(wire)
Matches(f) == f.number = entry.number /\ WireType(f) = entry.type

\* What ends up in the field.
ReadValue_Cut(f) == {entry.value}
ReadValue(f) == IF entry.value = Cut THEN Values(f) ELSE {entry.value}

Advance ==
  /\ pos' = pos + 1
  /\ pc' = IF entry.value = Cut THEN "failed" ELSE "entry"
  /\ UNCHANGED <<class, wire, target, result, sent, touched, calls>>

ReadNumber ==
  /\ AtEntry
  /\ \E f \in Numerics :
       /\ Matches(f)
       /\ has_bits' = has_bits \cup {f}
       /\ \E v \in ReadValue(f) : obj' = [obj EXCEPT ![target].val[f] = v]
  /\ Advance

ReadText ==
  /\ AtEntry
  /\ \E f \in Fields \ Numerics :
       /\ Matches(f)
       /\ \E v \in ReadValue(f) : obj' = [obj EXCEPT ![target] = Set(@, f, v)]
  /\ UNCHANGED has_bits
  /\ Advance

\* UnknownFieldParse
ReadUnknown ==
  /\ AtEntry
  /\ \A f \in Fields : ~Matches(f)
  /\ obj' = IF entry.value = Cut THEN obj
            ELSE [obj EXCEPT ![target].unknown = Append(@, entry)]
  /\ UNCHANGED has_bits
  /\ Advance

Collected_Lost(m) == m
Collected(m) == [m EXCEPT !.has = @ \cup has_bits]

ParseEnd ==
  /\ pc = "failed" \/ (pc = "entry" /\ pos > Len(wire))
  /\ obj' = [obj EXCEPT ![target] = Collected(@)]
  /\ result' = IF pc = "entry" /\ IsInitialized(obj'[target]) THEN "accepted" ELSE "refused"
  /\ pc' = "idle"
  /\ pos' = 1 /\ has_bits' = {}
  /\ UNCHANGED <<class, wire, target, sent, touched, calls>>

Call(o) ==
  \/ SetField(o) \/ Unset(o) \/ Reset(o)
  \/ \E from \in Objects : Merge(o, from) \/ Copy(o, from) \/ Swap(o, from)

Parse == ReadNumber \/ ReadText \/ ReadUnknown \/ ParseEnd

Next ==
  \/ \E o \in Objects : Call(o) \/ SerializeTo(o) \/ ParseFrom(o)
  \/ Tamper \/ Parse
-----------------------------------------------------------------------------
IsMessage(m) ==
  /\ m = [val |-> m.val, has |-> m.has, unknown |-> m.unknown]
  /\ m.val = [f \in Fields |-> m.val[f]]
  /\ \A f \in Fields : m.val[f] \in Values(f)
  /\ m.has \subseteq Fields
  /\ m.unknown \in Seq(Unknown)

TypeOK ==
  /\ class \in Classes
  /\ obj = [o \in Objects |-> obj[o]]
  /\ \A o \in Objects : IsMessage(obj[o])
  /\ pc \in {"idle", "entry", "failed"}
  /\ target \in Objects
  /\ pos \in 1 .. Len(wire) + 1
  /\ has_bits \subseteq Numerics
  /\ result \in {"none", "accepted", "refused"}
  /\ IsMessage(sent)
  /\ touched \in BOOLEAN
  /\ calls \in 0 .. MaxCalls

(***************************************************************************)
(* A field that is not set reads as its default, whatever was called       *)
(* before and however a parse ended: nothing of an earlier message shines  *)
(* through in an object that is used again.                                *)
(***************************************************************************)
Pending(o) == IF o = target THEN has_bits ELSE {}

UnsetIsDefault ==
  \A o \in Objects : \A f \in Fields \ (obj[o].has \cup Pending(o)) :
    obj[o].val[f] = Default(f)

(***************************************************************************)
(* ByteSizeLong, by which the output buffer is allocated, is the number of *)
(* bytes _InternalSerialize writes, on both of its paths.                  *)
(***************************************************************************)
SizeIsExact ==
  \A o \in Objects : ByteSizeLong(obj[o]) = WireSize(Serialize(obj[o]))

(***************************************************************************)
(* A message that arrives as it was written is accepted and equal to the   *)
(* one sent, fields of a later version included; one that was cut or       *)
(* extended is refused or has every field as it was sent.                  *)
(***************************************************************************)
SentIsReceived ==
  /\ result = "accepted" => obj[target].val = sent.val
  /\ result # "none" /\ ~touched => result = "accepted" /\ obj[target] = sent
=============================================================================
