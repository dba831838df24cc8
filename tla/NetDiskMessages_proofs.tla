----------------------- MODULE NetDiskMessages_proofs -----------------------
(***************************************************************************)
(* Theorems about the generated messages, for classes with any fields, any *)
(* values, any number of objects and calls, and messages that arrive as    *)
(* written, cut, or with entries of a later version behind them.           *)
(***************************************************************************)
EXTENDS NetDiskMessages, FiniteSetTheorems, SequenceTheorems, Arithmetic, TLAPS

\* An object is a record of values, bits and unknown entries.
Shaped(m) ==
  /\ m = [val |-> m.val, has |-> m.has, unknown |-> m.unknown]
  /\ m.val = [f \in Fields |-> m.val[f]]

\* No field outside of bits and of those that are set has a value.
Clean(m, bits) ==
  /\ Shaped(m)
  /\ \A f \in Fields \ (m.has \cup bits) : m.val[f] = Default(f)

(***************************************************************************)
(* The objects are clean, the target of a parse but for the numbers whose  *)
(* bits are not or-ed yet, which the other operations never see.           *)
(***************************************************************************)
CleanInv ==
  /\ obj = [o \in Objects |-> obj[o]]
  /\ target \in Objects
  /\ pc = "idle" => has_bits = {}
  /\ \A o \in Objects : Clean(obj[o], Pending(o))

LEMMA NumericFields == Numerics = {f \in Fields : IsNumeric(f)}
BY DEF Numerics

LEMMA ExceptOne ==
  ASSUME NEW m, Shaped(m), NEW d, NEW f
  PROVE  /\ [m EXCEPT !.val = d] = [val |-> d, has |-> m.has, unknown |-> m.unknown]
         /\ [m EXCEPT !.has = d] = [val |-> m.val, has |-> d, unknown |-> m.unknown]
         /\ [m EXCEPT !.unknown = d] = [val |-> m.val, has |-> m.has, unknown |-> d]
         /\ [m EXCEPT !.val[f] = d] =
              [val |-> [m.val EXCEPT ![f] = d], has |-> m.has, unknown |-> m.unknown]
<1>1. m = [val |-> m.val, has |-> m.has, unknown |-> m.unknown]
  BY DEF Shaped
<1>2. [m EXCEPT !.val = d] = [val |-> d, has |-> m.has, unknown |-> m.unknown]
  BY <1>1
<1>3. [m EXCEPT !.has = d] = [val |-> m.val, has |-> d, unknown |-> m.unknown]
  BY <1>1
<1>4. [m EXCEPT !.unknown = d] = [val |-> m.val, has |-> m.has, unknown |-> d]
  BY <1>1
<1>5. [m EXCEPT !.val[f] = d] =
        [val |-> [m.val EXCEPT ![f] = d], has |-> m.has, unknown |-> m.unknown]
  BY <1>1
<1> QED
  BY <1>2, <1>3, <1>4, <1>5

LEMMA ExceptTwo ==
  ASSUME NEW m, Shaped(m), NEW f \in Fields, NEW v, NEW has
  PROVE  [m EXCEPT !.val[f] = v, !.has = has] =
           [val |-> [m.val EXCEPT ![f] = v], has |-> has, unknown |-> m.unknown]
<1> DEFINE n == [m EXCEPT !.val[f] = v]
           val == [m.val EXCEPT ![f] = v]
<1>1. n = [val |-> val, has |-> m.has, unknown |-> m.unknown]
  BY ExceptOne
<1>2. [m EXCEPT !.val[f] = v, !.has = has] = [n EXCEPT !.has = has]
  OBVIOUS
<1>3. val = [g \in Fields |-> val[g]]
  BY DEF Shaped
<1> HIDE DEF n, val
<1>4. n.val = val /\ n.has = m.has /\ n.unknown = m.unknown
  BY <1>1
<1>5. Shaped(n)
  BY <1>1, <1>3, <1>4 DEF Shaped
<1>6. [n EXCEPT !.has = has] = [val |-> n.val, has |-> has, unknown |-> n.unknown]
  BY <1>5, ExceptOne
<1> QED
  BY <1>2, <1>4, <1>6 DEF val

LEMMA CleanRecord ==
  ASSUME NEW val, NEW has, NEW unknown, NEW bits,
         val = [f \in Fields |-> val[f]],
         \A f \in Fields \ (has \cup bits) : val[f] = Default(f)
  PROVE  Clean([val |-> val, has |-> has, unknown |-> unknown], bits)
<1> DEFINE m == [val |-> val, has |-> has, unknown |-> unknown]
<1>1. m.val = val /\ m.has = has /\ m.unknown = unknown
  OBVIOUS
<1>2. m = [val |-> m.val, has |-> m.has, unknown |-> m.unknown]
  BY <1>1
<1> HIDE DEF m
<1>3. Clean(m, bits)
  BY <1>1, <1>2, Zenon DEF Clean, Shaped
<1> QED
  BY <1>3 DEF m

\* The operations of a message keep it clean.
LEMMA NewClean == Clean(New, {})
<1> DEFINE val == [f \in Fields |-> Default(f)]
<1>1. val = [f \in Fields |-> val[f]] /\ \A f \in Fields : val[f] = Default(f)
  OBVIOUS
<1>2. New = [val |-> val, has |-> {}, unknown |-> <<>>]
  BY DEF New
<1> HIDE DEF val
<1> QED
  BY <1>1, <1>2, CleanRecord

LEMMA SetClean ==
  ASSUME NEW m, NEW bits, Clean(m, bits), NEW f \in Fields, NEW v
  PROVE  /\ Clean(Set(m, f, v), bits)
         /\ Set(m, f, v).has = m.has \cup {f}
         /\ Set(m, f, v).val[f] = v
         /\ \A g \in Fields \ {f} : Set(m, f, v).val[g] = m.val[g]
<1> DEFINE val == [m.val EXCEPT ![f] = v]
           has == m.has \cup {f}
<1>1. Set(m, f, v) = [val |-> val, has |-> has, unknown |-> m.unknown]
  <2>1. Set(m, f, v) = [m EXCEPT !.val[f] = v, !.has = m.has \cup {f}]
    BY DEF Set, Clean, Shaped
  <2>2. Shaped(m)
    BY DEF Clean
  <2> QED
    BY <2>1, <2>2, ExceptTwo
<1>2. /\ val = [g \in Fields |-> val[g]] /\ val[f] = v
      /\ \A g \in Fields \ {f} : val[g] = m.val[g]
  BY DEF Clean, Shaped
<1>3. \A g \in Fields \ (has \cup bits) : val[g] = Default(g)
  BY <1>2 DEF Clean
<1>4. Clean([val |-> val, has |-> has, unknown |-> m.unknown], bits)
  BY <1>2, <1>3, CleanRecord
<1> HIDE DEF val
<1> QED
  BY <1>1, <1>2, <1>4

LEMMA ClearFieldClean ==
  ASSUME NEW m, Clean(m, {}), NEW f \in Fields
  PROVE  Clean(ClearField(m, f), {})
<1> DEFINE val == [m.val EXCEPT ![f] = Default(f)]
           has == m.has \ {f}
<1>1. ClearField(m, f) = [val |-> val, has |-> has, unknown |-> m.unknown]
  <2>1. ClearField(m, f) = [m EXCEPT !.val[f] = Default(f), !.has = m.has \ {f}]
    BY DEF ClearField, Clean, Shaped
  <2>2. Shaped(m)
    BY DEF Clean
  <2> QED
    BY <2>1, <2>2, ExceptTwo
<1>2. /\ val = [g \in Fields |-> val[g]] /\ val[f] = Default(f)
      /\ \A g \in Fields \ {f} : val[g] = m.val[g]
  BY DEF Clean, Shaped
<1>3. \A g \in Fields \ (has \cup {}) : val[g] = Default(g)
  BY <1>2 DEF Clean
<1> QED
  BY <1>1, <1>2, <1>3, CleanRecord

LEMMA ClearClean ==
  ASSUME NEW m, Clean(m, {})
  PROVE  Clean(Clear(m), {})
<1> DEFINE stale(f) == IF IsNumeric(f) THEN m.has \cap Numerics # {} ELSE f \in m.has
           val == [f \in Fields |-> IF stale(f) THEN Default(f) ELSE m.val[f]]
<1>1. Clear(m) = [val |-> val, has |-> {}, unknown |-> <<>>]
  <2>1. New.has = {} /\ New.unknown = <<>>
    BY DEF New
  <2>2. [New EXCEPT !.val = val] = [val |-> val, has |-> New.has, unknown |-> New.unknown]
    BY NewClean, ExceptOne DEF Clean
  <2> QED
    BY <2>1, <2>2 DEF Clear
<1>2. ASSUME NEW f \in Fields
      PROVE  val[f] = Default(f)
  <2>1. CASE stale(f)
    BY <2>1
  <2>2. CASE ~stale(f)
    <3>1. f \notin m.has
      BY <2>2, NumericFields
    <3> QED
      BY <2>2, <3>1 DEF Clean
  <2> QED
    BY <2>1, <2>2
<1> HIDE DEF val
<1>3. val = [f \in Fields |-> val[f]]
  BY DEF val
<1> QED
  BY <1>1, <1>2, <1>3 DEF Clean, Shaped

LEMMA MergeClean ==
  ASSUME NEW m, NEW from, Clean(m, {}), Clean(from, {})
  PROVE  Clean(MergeFrom(m, from), {})
BY DEF MergeFrom, Clean, Shaped
-----------------------------------------------------------------------------
LEMMA InitClean == Init => CleanInv
<1> SUFFICES ASSUME Init PROVE CleanInv
  OBVIOUS
<1>1. \A o \in Objects : obj[o] = New /\ Pending(o) = {}
  BY DEF Init, Pending
<1> QED
  BY <1>1, NewClean DEF Init, CleanInv

\* A call that leaves object o as a clean m.
LEMMA BecomesClean ==
  ASSUME CleanInv, NEW o \in Objects, NEW m, Clean(m, {}), Becomes(o, m)
  PROVE  CleanInv'
<1>1. /\ pc = "idle" /\ obj' = [obj EXCEPT ![o] = m]
      /\ UNCHANGED <<class, pc, target, has_bits>>
  BY DEF Becomes
<1>2. \A p \in Objects : Pending(p) = {} /\ Pending(p)' = {}
  BY <1>1 DEF CleanInv, Pending
<1>3. \A p \in Objects : obj'[p] = IF p = o THEN m ELSE obj[p]
  BY <1>1 DEF CleanInv
<1>4. \A p \in Objects : Clean(obj'[p], {})
  BY <1>2, <1>3 DEF CleanInv
<1>5. Fields' = Fields
  BY <1>1 DEF Fields
<1> QED
  BY <1>1, <1>2, <1>4, <1>5 DEF CleanInv, Clean, Shaped

LEMMA IdleClean ==
  ASSUME CleanInv, pc = "idle", NEW o \in Objects
  PROVE  Clean(obj[o], {})
BY DEF CleanInv, Pending

LEMMA CallClean ==
  ASSUME CleanInv, NEW o \in Objects, Call(o)
  PROVE  CleanInv'
<1>1. CASE SetField(o)
  <2>1. PICK f \in Fields : \E v \in Values(f) : Becomes(o, Set(obj[o], f, v))
    BY <1>1 DEF SetField
  <2>2. PICK v \in Values(f) : Becomes(o, Set(obj[o], f, v))
    BY <2>1
  <2>3. Clean(Set(obj[o], f, v), {})
    BY <2>2, IdleClean, SetClean DEF Becomes
  <2> QED
    BY <2>2, <2>3, BecomesClean
<1>2. CASE Unset(o)
  <2>1. PICK f \in Fields : Becomes(o, ClearField(obj[o], f))
    BY <1>2 DEF Unset
  <2> QED
    BY <2>1, IdleClean, ClearFieldClean, BecomesClean DEF Becomes
<1>3. CASE Reset(o)
  BY <1>3, IdleClean, ClearClean, BecomesClean DEF Reset, Becomes
<1>4. ASSUME NEW from \in Objects, Merge(o, from) \/ Copy(o, from)
      PROVE  CleanInv'
  BY <1>4, IdleClean, ClearClean, MergeClean, BecomesClean DEF Merge, Copy, Becomes
<1>5. ASSUME NEW other \in Objects, Swap(o, other)
      PROVE  CleanInv'
  <2>1. /\ pc = "idle" /\ obj' = [obj EXCEPT ![o] = obj[other], ![other] = obj[o]]
        /\ UNCHANGED <<class, pc, target, has_bits>>
    BY <1>5 DEF Swap
  <2>2. \A p \in Objects : Pending(p)' = {}
    BY <2>1 DEF CleanInv, Pending
  <2>3. \A p \in Objects : Clean(obj'[p], {})
    BY <2>1, IdleClean DEF CleanInv
  <2>4. Fields' = Fields
    BY <2>1 DEF Fields
  <2> QED
    BY <2>1, <2>2, <2>3, <2>4 DEF CleanInv, Clean, Shaped
<1> QED
  BY <1>1, <1>2, <1>3, <1>4, <1>5 DEF Call

\* A step of the parser that leaves its object as a clean m.
LEMMA ParserClean ==
  ASSUME CleanInv, NEW m, Clean(m, has_bits'), class' = class, target' = target,
         obj' = [obj EXCEPT ![target] = m],
         pc' = "idle" => has_bits' = {}
  PROVE  CleanInv'
<1>1. Fields' = Fields
  BY DEF Fields
<1>2. \A p \in Objects : obj'[p] = IF p = target THEN m ELSE obj[p]
  BY DEF CleanInv
<1>3. ASSUME NEW p \in Objects
      PROVE  Clean(obj'[p], Pending(p)')
  <2>1. CASE p = target
    BY <1>2, <2>1 DEF Pending
  <2>2. CASE p # target
    BY <1>2, <2>2 DEF Pending, CleanInv
  <2> QED
    BY <2>1, <2>2
<1> QED
  BY <1>1, <1>3 DEF CleanInv, Clean, Shaped

LEMMA ParseFromClean ==
  ASSUME CleanInv, NEW o \in Objects, ParseFrom(o)
  PROVE  CleanInv'
<1>1. /\ pc = "idle" /\ obj' = [obj EXCEPT ![o] = Clear(obj[o])]
      /\ target' = o /\ has_bits' = {} /\ class' = class
  BY DEF ParseFrom
<1>2. Fields' = Fields
  BY <1>1 DEF Fields
<1>3. \A p \in Objects : Clean(obj'[p], {}) /\ Pending(p)' = {}
  BY <1>1, IdleClean, ClearClean DEF CleanInv, Pending
<1> QED
  BY <1>1, <1>2, <1>3 DEF CleanInv, Clean, Shaped

LEMMA ParseClean ==
  ASSUME CleanInv, Parse
  PROVE  CleanInv'
<1> DEFINE m == obj[target]
<1>1. Clean(m, has_bits) /\ target \in Objects
  BY DEF CleanInv, Pending
<1>2. CASE ReadNumber
  <2>1. PICK f \in Numerics :
          /\ has_bits' = has_bits \cup {f}
          /\ \E v \in ReadValue(f) : obj' = [obj EXCEPT ![target].val[f] = v]
    BY <1>2 DEF ReadNumber
  <2>2. PICK v : obj' = [obj EXCEPT ![target] = [m EXCEPT !.val[f] = v]]
    BY <2>1
  <2>3. Clean([m EXCEPT !.val[f] = v], has_bits')
    BY <1>1, <2>1, NumericFields DEF Clean, Shaped
  <2>4. UNCHANGED <<class, target>> /\ pc' # "idle"
    BY <1>2 DEF ReadNumber, Advance
  <2> QED
    BY <2>2, <2>3, <2>4, ParserClean
<1>3. CASE ReadText
  <2>1. PICK f \in Fields : \E v : obj' = [obj EXCEPT ![target] = Set(m, f, v)]
    BY <1>3 DEF ReadText
  <2>2. PICK v : obj' = [obj EXCEPT ![target] = Set(m, f, v)]
    BY <2>1
  <2>3. UNCHANGED <<class, target, has_bits>> /\ pc' # "idle"
    BY <1>3 DEF ReadText, Advance
  <2>4. Clean(Set(m, f, v), has_bits')
    BY <1>1, <2>3, SetClean
  <2> QED
    BY <2>2, <2>3, <2>4, ParserClean
<1>4. CASE ReadUnknown
  <2>1. UNCHANGED <<class, target, has_bits>> /\ pc' # "idle"
    BY <1>4 DEF ReadUnknown, Advance
  <2>2. CASE obj' = obj
    <3>1. obj' = [obj EXCEPT ![target] = m]
      BY <1>1, <2>2 DEF CleanInv
    <3> QED
      BY <1>1, <2>1, <3>1, ParserClean
  <2>3. CASE obj' = [obj EXCEPT ![target].unknown = Append(@, entry)]
    <3>1. obj' = [obj EXCEPT ![target] = [m EXCEPT !.unknown = Append(m.unknown, entry)]]
      BY <2>3
    <3>2. [m EXCEPT !.unknown = Append(m.unknown, entry)] =
            [val |-> m.val, has |-> m.has, unknown |-> Append(m.unknown, entry)]
      BY <1>1, ExceptOne DEF Clean
    <3>3. Clean([m EXCEPT !.unknown = Append(m.unknown, entry)], has_bits')
      BY <1>1, <2>1, <3>2, CleanRecord DEF Clean, Shaped
    <3> QED
      BY <2>1, <3>1, <3>3, ParserClean
  <2> QED
    BY <1>4, <2>2, <2>3 DEF ReadUnknown
<1>5. CASE ParseEnd
  <2>1. /\ obj' = [obj EXCEPT ![target] = Collected(m)]
        /\ has_bits' = {} /\ UNCHANGED <<class, target>>
    BY <1>5 DEF ParseEnd
  <2>2. Clean(Collected(m), {})
    BY <1>1 DEF Collected, Clean, Shaped
  <2> QED
    BY <2>1, <2>2, ParserClean
<1> QED
  BY <1>2, <1>3, <1>4, <1>5 DEF Parse

LEMMA NextClean == CleanInv /\ [Next]_vars => CleanInv'
<1> SUFFICES ASSUME CleanInv, [Next]_vars PROVE CleanInv'
  OBVIOUS
<1>1. CASE (\E o \in Objects : SerializeTo(o)) \/ Tamper \/ UNCHANGED vars
  <2>1. UNCHANGED <<class, obj, pc, target, has_bits>>
    BY <1>1 DEF SerializeTo, Tamper, vars
  <2> QED
    BY <2>1 DEF CleanInv, Clean, Shaped, Pending, Fields
<1> QED
  BY <1>1, CallClean, ParseFromClean, ParseClean DEF Next
-----------------------------------------------------------------------------
(***************************************************************************)
(* What the program fills in.                                              *)
(***************************************************************************)
LEMMA ResponseFields ==
  ASSUME class = NetDiskResponse
  PROVE  Fields = {res, shard, part_index, file_name, body}
BY DEF Fields, Range, NetDiskResponse

LEMMA DistinctFields ==
  /\ res \notin {shard, part_index, file_name, body}
  /\ body \notin {shard, part_index, file_name}
BY DEF res, shard, part_index, file_name, body, Field

\* The response with the fields Send copies from the request.
LEMMA EchoedFields ==
  ASSUME class = NetDiskResponse, NEW n, NEW s, NEW p
  PROVE  LET m == Set(Set(Set(New, file_name, n), shard, s), part_index, p)
         IN  /\ Clean(m, {})
             /\ m.has = {file_name, shard, part_index}
             /\ m.val[res] = 0
<1> DEFINE m1 == Set(New, file_name, n)
           m2 == Set(m1, shard, s)
           m3 == Set(m2, part_index, p)
<1>1. {res, shard, part_index, file_name} \subseteq Fields
  BY ResponseFields
<1>2. New.has = {} /\ New.val[res] = 0
  BY <1>1 DEF New, Default, IsNumeric, res, Field
<1>3. /\ Clean(m1, {}) /\ m1.has = {file_name} /\ m1.val[res] = 0
  BY <1>1, <1>2, NewClean, SetClean, DistinctFields
<1> HIDE DEF m1
<1>4. /\ Clean(m2, {}) /\ m2.has = {file_name, shard} /\ m2.val[res] = 0
  BY <1>1, <1>3, SetClean, DistinctFields
<1> HIDE DEF m2
<1>5. /\ Clean(m3, {}) /\ m3.has = {file_name, shard, part_index} /\ m3.val[res] = 0
  BY <1>1, <1>4, SetClean, DistinctFields
<1> QED
  BY <1>5 DEF m1, m2

LEMMA AnsweredFields ==
  ASSUME class = NetDiskResponse, NEW m, Clean(m, {}), NEW r, NEW t
  PROVE  LET a == Answered(m, <<r, t>>)
         IN  /\ Clean(a, {})
             /\ a.has = m.has \cup {res, body}
             /\ a.val[res] = r /\ a.val[body] = t
<1> DEFINE a1 == Set(m, res, r)
<1>1. {res, body} \subseteq Fields
  BY ResponseFields
<1>2. Clean(a1, {}) /\ a1.has = m.has \cup {res} /\ a1.val[res] = r
  BY <1>1, SetClean
<1> HIDE DEF a1
<1>3. LET a == Set(a1, body, t)
      IN  /\ Clean(a, {}) /\ a.has = a1.has \cup {body}
          /\ a.val[res] = a1.val[res] /\ a.val[body] = t
  BY <1>1, <1>2, SetClean, DistinctFields
<1> QED
  BY <1>2, <1>3 DEF Answered, a1

\* What a property says of a response m to a request of type op.
Complete(m, op) ==
  /\ op \in {"UPLOAD", "OTHER"} =>
       /\ IsInitialized(m)
       /\ m.val[res] = 1 <=> m.val[body] = "upload success"
  /\ op = "OTHER" => m.val[res] = 0
  /\ op = "DOWNLOAD" => ~IsInitialized(m)

LEMMA SendFills ==
  ASSUME NEW op \in Ops, Send(op)
  PROVE  \E m : Becomes(Own, m) /\ Clean(m, {}) /\ Complete(m, op)
<1>1. class = NetDiskResponse
  BY DEF Send
<1>2. PICK n, s, p :
        LET echoed == Set(Set(Set(New, file_name, n), shard, s), part_index, p)
        IN  \E m \in Dispatched(echoed, op) :
              Becomes(Own, IF m.val[res] = 1 THEN Set(m, body, "upload success") ELSE m)
  BY DEF Send
<1> DEFINE echoed == Set(Set(Set(New, file_name, n), shard, s), part_index, p)
<1>3. PICK m \in Dispatched(echoed, op) :
        Becomes(Own, IF m.val[res] = 1 THEN Set(m, body, "upload success") ELSE m)
  BY <1>2
<1>4. /\ Clean(echoed, {}) /\ echoed.has = {file_name, shard, part_index}
      /\ echoed.val[res] = 0
  BY <1>1, EchoedFields
<1> HIDE DEF echoed
<1>5. Fields = {res, shard, part_index, file_name, body}
  BY <1>1, ResponseFields
<1>6. ASSUME NEW r, NEW t, m = Answered(echoed, <<r, t>>)
      PROVE  /\ Clean(m, {}) /\ m.has = Fields /\ m.val[res] = r /\ m.val[body] = t
  BY <1>1, <1>4, <1>5, <1>6, AnsweredFields
<1>7. CASE op = "UPLOAD"
  <2>1. PICK r, t : m = Answered(echoed, <<r, t>>) /\ ((r = 0 /\ t = "failed") \/ r = 1)
    BY <1>3, <1>7 DEF Dispatched, Outcomes
  <2>2. Clean(m, {}) /\ m.has = Fields /\ m.val[res] = r /\ m.val[body] = t
    BY <1>6, <2>1
  <2>3. CASE r = 0 /\ t = "failed"
    <3>1. Becomes(Own, m)
      BY <1>3, <2>2, <2>3
    <3>2. Complete(m, op)
      BY <1>7, <2>2, <2>3 DEF Complete, IsInitialized
    <3> QED
      BY <2>2, <3>1, <3>2
  <2>4. CASE r = 1
    <3> DEFINE a == Set(m, body, "upload success")
    <3>1. body \in Fields /\ res \in Fields \ {body}
      BY <1>5, DistinctFields
    <3>2. /\ Clean(a, {}) /\ a.has = m.has \cup {body} /\ a.val[body] = "upload success"
          /\ a.val[res] = m.val[res]
      <4>1. Clean(m, {})
        BY <2>2
      <4>2. ASSUME NEW v
            PROVE  /\ Clean(Set(m, body, v), {}) /\ Set(m, body, v).has = m.has \cup {body}
                   /\ Set(m, body, v).val[body] = v
                   /\ Set(m, body, v).val[res] = m.val[res]
        BY <3>1, <4>1, SetClean
      <4> QED
        BY <4>2
    <3>3. Becomes(Own, a)
      BY <1>3, <2>2, <2>4
    <3> HIDE DEF a
    <3>4. a.has = Fields /\ a.val[res] = 1
      BY <2>2, <2>4, <3>1, <3>2
    <3>5. Complete(a, op)
      BY <1>7, <3>2, <3>4 DEF Complete, IsInitialized
    <3> QED
      BY <3>2, <3>3, <3>5
  <2> QED
    BY <2>1, <2>3, <2>4
<1>8. CASE op = "OTHER"
  <2>1. PICK r, t : m = Answered(echoed, <<r, t>>) /\ r = 0 /\ t = "op not support"
    BY <1>3, <1>8 DEF Dispatched
  <2>2. Clean(m, {}) /\ m.has = Fields /\ m.val[res] = r /\ m.val[body] = t
    BY <1>6, <2>1
  <2>3. m.val[res] = 0 /\ m.val[res] # 1 /\ m.val[body] # "upload success"
    <3>0. 0 # 1 /\ "op not support" # "upload success"
      OBVIOUS
    <3>1. r = 0 /\ r # 1 /\ t # "upload success"
      BY <2>1, <3>0, Zenon
    <3> QED
      BY <2>2, <3>1, Zenon
  <2>4. Becomes(Own, m)
    BY <1>3, <2>3
  <2>5. Complete(m, op)
    BY <1>8, <2>2, <2>3 DEF Complete, IsInitialized
  <2> QED
    BY <2>2, <2>4, <2>5
<1>9. CASE op = "DOWNLOAD"
  <2>1. m = echoed
    BY <1>3, <1>9 DEF Dispatched
  <2>2. res \in Fields /\ res \notin m.has
    BY <1>4, <1>5, <2>1, DistinctFields
  <2>3. Becomes(Own, m)
    <3>1. m.val[res] # 1
      BY <1>4, <2>1
    <3> QED
      BY <1>3, <3>1
  <2>4. Complete(m, op)
    BY <1>9, <2>2 DEF Complete, IsInitialized
  <2> QED
    BY <1>4, <2>1, <2>3, <2>4
<1> QED
  BY <1>7, <1>8, <1>9 DEF Ops

LEMMA SendPartFills ==
  ASSUME SendPart
  PROVE  \E m : Becomes(Own, m) /\ Clean(m, {}) /\ m.has = Fields
<1>1. PICK n, p, b :
        Becomes(Own, [val     |-> [f \in Fields |-> Argument(f, n, p, b)],
                      has     |-> Fields,
                      unknown |-> <<>>])
  BY DEF SendPart
<1> DEFINE val == [f \in Fields |-> Argument(f, n, p, b)]
           m == [val |-> val, has |-> Fields, unknown |-> <<>>]
<1>2. val = [f \in Fields |-> val[f]]
  OBVIOUS
<1>3. Becomes(Own, m)
  BY <1>1
<1> HIDE DEF val
<1>4. Clean(m, {}) /\ m.has = Fields
  BY <1>2, CleanRecord
<1> QED
  BY <1>3, <1>4

MsgInv == CleanInv /\ AnswerIsComplete

LEMMA InitMsg == MsgInit => MsgInv
<1>1. MsgInit => AnswerIsComplete
  BY DEF MsgInit, AnswerIsComplete
<1> QED
  BY <1>1, InitClean DEF MsgInit, MsgInv

LEMMA NextMsg == MsgInv /\ [MsgNext]_allVars => MsgInv'
<1> SUFFICES ASSUME MsgInv, [MsgNext]_allVars PROVE MsgInv'
  OBVIOUS
<1>1. ASSUME NEW m, Becomes(Own, m), Clean(m, {})
      PROVE  CleanInv' /\ obj'[Own] = m /\ Fields' = Fields
  BY <1>1, BecomesClean, OwnAssumption DEF MsgInv, CleanInv, Becomes, Fields
<1>2. ASSUME NEW op \in Ops, Send(op)
      PROVE  MsgInv'
  <2>1. PICK m : Becomes(Own, m) /\ Clean(m, {}) /\ Complete(m, op)
    BY <1>2, SendFills
  <2>2. CleanInv' /\ obj'[Own] = m /\ Fields' = Fields
    BY <1>1, <2>1
  <2>3. filled' = op /\ op # "REQUEST"
    BY <1>2 DEF Send, Ops
  <2> QED
    BY <2>1, <2>2, <2>3 DEF MsgInv, AnswerIsComplete, Complete, IsInitialized
<1>3. CASE SendPart
  <2>1. PICK m : Becomes(Own, m) /\ Clean(m, {}) /\ m.has = Fields
    BY <1>3, SendPartFills
  <2>2. CleanInv' /\ obj'[Own] = m /\ Fields' = Fields /\ filled' = "REQUEST"
    BY <1>1, <1>3, <2>1 DEF SendPart
  <2> QED
    BY <2>1, <2>2 DEF MsgInv, AnswerIsComplete, IsInitialized
<1>4. CASE Next /\ filled' = IF obj'[Own] = obj[Own] THEN filled ELSE "none"
  <2>1. CleanInv'
    BY <1>4, NextClean DEF MsgInv
  <2>2. class' = class
    BY <1>4 DEF Next, Call, SetField, Unset, Reset, Merge, Copy, Becomes, Swap, SerializeTo,
       ParseFrom, Tamper, Parse, ReadNumber, ReadText, ReadUnknown, ParseEnd, Advance
  <2>3. AnswerIsComplete'
    <3>1. CASE obj'[Own] # obj[Own]
      BY <1>4, <3>1 DEF AnswerIsComplete
    <3>2. CASE obj'[Own] = obj[Own]
      BY <1>4, <2>2, <3>2 DEF MsgInv, AnswerIsComplete, IsInitialized, Fields
    <3> QED
      BY <3>1, <3>2
  <2> QED
    BY <2>1, <2>3 DEF MsgInv
<1>5. CASE UNCHANGED allVars
  <2>1. CleanInv'
    BY <1>5, NextClean DEF allVars, MsgInv
  <2> QED
    BY <1>5, <2>1 DEF allVars, vars, MsgInv, AnswerIsComplete, IsInitialized, Fields
<1> QED
  BY <1>2, <1>3, <1>4, <1>5 DEF MsgNext

LEMMA MsgInvariant == MsgSpec => []MsgInv
BY InitMsg, NextMsg, PTL DEF MsgSpec

(***************************************************************************)
(* A field that is not set reads as its default, for messages of any       *)
(* class, after any calls and after any parse, also of a message that was  *)
(* cut or has unknown entries behind it.                                   *)
(***************************************************************************)
THEOREM UnsetFieldsAreDefault == MsgSpec => []UnsetIsDefault
<1>1. MsgInv => UnsetIsDefault
  BY DEF MsgInv, CleanInv, Clean, UnsetIsDefault
<1> QED
  BY <1>1, MsgInvariant, PTL

(***************************************************************************)
(* Whatever the values of the fields: a request can be sent; a response to *)
(* anything but DOWNLOAD can be sent and says whether it worked; the one   *)
(* to DOWNLOAD cannot be sent.                                             *)
(***************************************************************************)
THEOREM AnswersAreComplete == MsgSpec => []AnswerIsComplete
<1>1. MsgInv => AnswerIsComplete
  BY DEF MsgInv
<1> QED
  BY <1>1, MsgInvariant, PTL
-----------------------------------------------------------------------------
(***************************************************************************)
(* Types.  What is on the wire was written from the message sent, or is an *)
(* entry of a later version, or one whose bytes end too early.             *)
(***************************************************************************)
Piece == {Entry(sent, f) : f \in Fields} \cup Unknown

CutOff == {[e EXCEPT !.value = Cut] : e \in Piece}

MsgTypeInv ==
  /\ TypeOK
  /\ wire \in Seq(Piece \cup CutOff)
  /\ pc = "idle" => pos = 1

\* A class lists its fields, each under a number of its own.
LEMMA ClassFields ==
  ASSUME class \in Classes
  PROVE  /\ class \in Seq(Fields) /\ Len(class) \in Nat
         /\ Fields = {class[j] : j \in 1 .. Len(class)}
         /\ \A f, g \in Fields : f.number = g.number => f = g
         /\ \A f \in Fields : Default(f) \in Values(f) /\ Cut \notin Values(f)
         /\ \A e \in Unknown : \A f \in Fields : f.number = e.number => WireType(f) # e.type
<1>1. class \in Seq(Fields)
  BY ClassAssumption DEF Fields
<1>2. Len(class) \in Nat /\ DOMAIN class = 1 .. Len(class)
  BY <1>1, LenProperties
<1>3. Fields = {class[j] : j \in 1 .. Len(class)}
  BY <1>2 DEF Fields, Range
<1>4. ASSUME NEW f \in Fields, NEW g \in Fields, f.number = g.number
      PROVE  f = g
  <2>1. PICK j \in 1 .. Len(class) : f = class[j]
    BY <1>3
  <2>2. PICK k \in 1 .. Len(class) : g = class[k]
    BY <1>3
  <2>3. f.number \in Int /\ g.number \in Int
    <3>1. \A h \in Fields : h.number \in 1 .. 15
      BY ClassAssumption DEF Fields
    <3> QED
      BY <3>1
  <2>4. ~(j < k) /\ ~(k < j)
    BY <1>2, <1>4, <2>1, <2>2, <2>3, ClassAssumption
  <2> QED
    BY <1>2, <2>1, <2>2, <2>4
<1>5. /\ \A f \in Fields : Default(f) \in Values(f) /\ Cut \notin Values(f)
      /\ \A e \in Unknown : \A f \in Fields : f.number = e.number => WireType(f) # e.type
  BY ClassAssumption DEF Fields
<1> QED
  BY <1>1, <1>2, <1>3, <1>4, <1>5

\* When no field is missing all are written, in the order of the class.
LEMMA SerializeAll ==
  ASSUME class \in Classes, NEW m, IsInitialized(m)
  PROVE  Serialize(m) = [i \in 1 .. Len(class) |-> Entry(m, class[i])] \o m.unknown
<1> DEFINE present == {k \in DOMAIN class : class[k] \in m.has}
           nth(i)  == CHOOSE k \in present : Cardinality({j \in present : j <= k}) = i
<1>1. present = 1 .. Len(class) /\ Len(class) \in Nat
  BY ClassFields, LenProperties DEF IsInitialized
<1>2. \A n \in Nat : Cardinality(1 .. n) = n
  <2> SUFFICES ASSUME NEW n \in Nat PROVE Cardinality(1 .. n) = n
    OBVIOUS
  <2>1. Cardinality(1 .. n) = IF 1 > n THEN 0 ELSE n - 1 + 1
    BY FS_Interval
  <2> QED
    BY <2>1
<1>3. Serialize(m) = [i \in 1 .. Cardinality(present) |-> Entry(m, class[nth(i)])] \o m.unknown
  BY DEF Serialize
<1>4. ASSUME NEW k \in present PROVE Cardinality({j \in present : j <= k}) = k
  <2>1. {j \in present : j <= k} = 1 .. k /\ k \in Nat
    BY <1>1
  <2> QED
    BY <1>2, <2>1
<1> HIDE DEF present
<1>5. \A i \in 1 .. Len(class) : nth(i) = i
  BY <1>1, <1>4
<1> HIDE DEF nth
<1>6. [i \in 1 .. Cardinality(present) |-> Entry(m, class[nth(i)])]
        = [i \in 1 .. Len(class) |-> Entry(m, class[i])]
  BY <1>1, <1>2, <1>5
<1> QED
  BY <1>3, <1>6

\* An entry is a record; it was cut, or it is a field as sent, or unknown.
LEMMA EntryFacts ==
  ASSUME class \in Classes, IsMessage(sent), NEW e \in Piece \cup CutOff
  PROVE  /\ e.value = Cut <=> e \in CutOff
         /\ e \in CutOff => [e EXCEPT !.value = Cut] = e
         /\ \/ e.value = Cut
            \/ \E f \in Fields :
                 e.number = f.number /\ e.type = WireType(f) /\ e.value = sent.val[f]
            \/ e \in Unknown
<1>1. ASSUME NEW p \in Piece
      PROVE  /\ p = [number |-> p.number, type |-> p.type, value |-> p.value]
             /\ p.value # Cut
             /\ \/ \E f \in Fields :
                     p.number = f.number /\ p.type = WireType(f) /\ p.value = sent.val[f]
                \/ p \in Unknown
  <2>1. CASE p \in Unknown
    BY <2>1, ClassAssumption
  <2>2. ASSUME NEW f \in Fields, p = Entry(sent, f)
        PROVE  /\ p = [number |-> p.number, type |-> p.type, value |-> p.value]
               /\ p.value # Cut
               /\ p.number = f.number /\ p.type = WireType(f) /\ p.value = sent.val[f]
    <3>1. sent.val[f] \in Values(f) /\ Cut \notin Values(f)
      BY ClassFields DEF IsMessage
    <3> QED
      BY <2>2, <3>1 DEF Entry
  <2> QED
    BY <2>1, <2>2 DEF Piece
<1>2. ASSUME NEW p \in Piece
      PROVE  [p EXCEPT !.value = Cut] = [number |-> p.number, type |-> p.type, value |-> Cut]
  BY <1>1
<1>3. CASE e \in Piece
  <2>1. e \notin CutOff
    BY <1>1, <1>2, <1>3 DEF CutOff
  <2> QED
    BY <1>1, <1>3, <2>1
<1>4. CASE e \in CutOff
  BY <1>2, <1>4 DEF CutOff
<1> QED
  BY <1>3, <1>4

LEMMA FieldRead ==
  ASSUME class \in Classes, IsMessage(sent), NEW e \in Piece \cup CutOff, e.value # Cut,
         NEW f \in Fields, f.number = e.number, WireType(f) = e.type
  PROVE  e.value = sent.val[f] /\ e.value \in Values(f)
BY EntryFacts, ClassFields DEF IsMessage

LEMMA UnknownRead ==
  ASSUME class \in Classes, IsMessage(sent), NEW e \in Piece \cup CutOff, e.value # Cut,
         \A f \in Fields : ~(f.number = e.number /\ WireType(f) = e.type)
  PROVE  e \in Unknown
BY EntryFacts
-----------------------------------------------------------------------------
\* The operations of a message keep its fields in their domains.
LEMMA MessageRecord ==
  ASSUME NEW val, NEW has, NEW unknown,
         val = [f \in Fields |-> val[f]], \A f \in Fields : val[f] \in Values(f),
         has \subseteq Fields, unknown \in Seq(Unknown)
  PROVE  IsMessage([val |-> val, has |-> has, unknown |-> unknown])
<1> DEFINE m == [val |-> val, has |-> has, unknown |-> unknown]
<1>1. m.val = val /\ m.has = has /\ m.unknown = unknown
  OBVIOUS
<1>2. m = [val |-> m.val, has |-> m.has, unknown |-> m.unknown]
  BY <1>1
<1> HIDE DEF m
<1>3. IsMessage(m)
  BY <1>1, <1>2 DEF IsMessage
<1> QED
  BY <1>3 DEF m

LEMMA MessageShaped ==
  ASSUME NEW m, IsMessage(m)
  PROVE  Shaped(m)
BY DEF IsMessage, Shaped

LEMMA NewMessage ==
  ASSUME class \in Classes
  PROVE  IsMessage(New)
<1> DEFINE val == [f \in Fields |-> Default(f)]
<1>1. val = [f \in Fields |-> val[f]] /\ \A f \in Fields : val[f] \in Values(f)
  BY ClassFields
<1>2. <<>> \in Seq(Unknown)
  BY EmptySeq
<1> HIDE DEF val
<1>3. IsMessage([val |-> val, has |-> {}, unknown |-> <<>>])
  BY <1>1, <1>2, MessageRecord
<1> QED
  BY <1>3 DEF New, val

LEMMA SetMessage ==
  ASSUME NEW m, IsMessage(m), NEW f \in Fields, NEW v \in Values(f)
  PROVE  /\ IsMessage(Set(m, f, v))
         /\ Set(m, f, v).unknown = m.unknown
<1> DEFINE val == [m.val EXCEPT ![f] = v]
           has == m.has \cup {f}
<1>1. Set(m, f, v) = [val |-> val, has |-> has, unknown |-> m.unknown]
  <2>1. Set(m, f, v) = [m EXCEPT !.val[f] = v, !.has = m.has \cup {f}]
    BY DEF Set, IsMessage
  <2> QED
    BY <2>1, MessageShaped, ExceptTwo
<1>2. /\ val = [g \in Fields |-> val[g]] /\ \A g \in Fields : val[g] \in Values(g)
      /\ has \subseteq Fields /\ m.unknown \in Seq(Unknown)
  BY DEF IsMessage
<1> HIDE DEF val, has
<1>3. IsMessage([val |-> val, has |-> has, unknown |-> m.unknown])
  BY <1>2, MessageRecord
<1> QED
  BY <1>1, <1>3

LEMMA SetTwice ==
  ASSUME NEW m, Shaped(m), NEW f \in Fields, NEW t, NEW v
  PROVE  Set(Set(m, f, t), f, v) = Set(m, f, v)
<1> DEFINE n == Set(m, f, t)
           val == [m.val EXCEPT ![f] = t]
           has == m.has \cup {f}
<1>1. ASSUME NEW l, Shaped(l), NEW x
      PROVE  Set(l, f, x) =
               [val |-> [l.val EXCEPT ![f] = x], has |-> l.has \cup {f}, unknown |-> l.unknown]
  <2>1. Set(l, f, x) = [l EXCEPT !.val[f] = x, !.has = l.has \cup {f}]
    BY <1>1 DEF Set, Shaped
  <2> QED
    BY <1>1, <2>1, ExceptTwo
<1>2. n = [val |-> val, has |-> has, unknown |-> m.unknown]
  BY <1>1
<1>3. n.val = val /\ n.has = has /\ n.unknown = m.unknown
  BY <1>2
<1>4. val = [g \in Fields |-> val[g]]
  BY DEF Shaped
<1>5. Shaped(n)
  BY <1>2, <1>3, <1>4 DEF Shaped
<1> HIDE DEF n
<1>6. Set(n, f, v) = [val |-> [n.val EXCEPT ![f] = v], has |-> n.has \cup {f},
                      unknown |-> n.unknown]
  BY <1>1, <1>5
<1>7. [n.val EXCEPT ![f] = v] = [m.val EXCEPT ![f] = v] /\ n.has \cup {f} = m.has \cup {f}
  BY <1>3 DEF Shaped
<1> QED
  BY <1>1, <1>3, <1>6, <1>7 DEF n

\* What a setter sets, and what it leaves alone.
LEMMA SetHas ==
  ASSUME NEW m, Shaped(m), NEW f \in Fields, NEW v
  PROVE  /\ Set(m, f, v).has = m.has \cup {f} /\ Set(m, f, v).val[f] = v
         /\ \A g \in Fields \ {f} : Set(m, f, v).val[g] = m.val[g]
<1> DEFINE val == [m.val EXCEPT ![f] = v]
<1>1. Set(m, f, v) = [val |-> val, has |-> m.has \cup {f}, unknown |-> m.unknown]
  <2>1. Set(m, f, v) = [m EXCEPT !.val[f] = v, !.has = m.has \cup {f}]
    BY DEF Set, Shaped
  <2> QED
    BY <2>1, ExceptTwo
<1>2. val[f] = v /\ \A g \in Fields \ {f} : val[g] = m.val[g]
  BY DEF Shaped
<1> HIDE DEF val
<1> QED
  BY <1>1, <1>2

LEMMA ClearFieldMessage ==
  ASSUME class \in Classes, NEW m, IsMessage(m), NEW f \in Fields
  PROVE  IsMessage(ClearField(m, f))
<1> DEFINE val == [m.val EXCEPT ![f] = Default(f)]
           has == m.has \ {f}
<1>1. ClearField(m, f) = [val |-> val, has |-> has, unknown |-> m.unknown]
  <2>1. ClearField(m, f) = [m EXCEPT !.val[f] = Default(f), !.has = m.has \ {f}]
    BY DEF ClearField, IsMessage
  <2> QED
    BY <2>1, MessageShaped, ExceptTwo
<1>2. /\ val = [g \in Fields |-> val[g]] /\ \A g \in Fields : val[g] \in Values(g)
      /\ has \subseteq Fields /\ m.unknown \in Seq(Unknown)
  BY ClassFields DEF IsMessage
<1> HIDE DEF val, has
<1>3. IsMessage([val |-> val, has |-> has, unknown |-> m.unknown])
  BY <1>2, MessageRecord
<1> QED
  BY <1>1, <1>3

LEMMA ClearMessage ==
  ASSUME class \in Classes, NEW m, IsMessage(m)
  PROVE  /\ IsMessage(Clear(m))
         /\ Clear(m).has = {} /\ Clear(m).unknown = <<>>
<1> DEFINE stale(f) == IF IsNumeric(f) THEN m.has \cap Numerics # {} ELSE f \in m.has
           val == [f \in Fields |-> IF stale(f) THEN Default(f) ELSE m.val[f]]
<1>1. Clear(m) = [val |-> val, has |-> {}, unknown |-> <<>>]
  <2>1. New.has = {} /\ New.unknown = <<>>
    BY DEF New
  <2>2. [New EXCEPT !.val = val] = [val |-> val, has |-> New.has, unknown |-> New.unknown]
    BY NewClean, ExceptOne DEF Clean
  <2> QED
    BY <2>1, <2>2 DEF Clear
<1>2. \A f \in Fields : val[f] \in {Default(f), m.val[f]}
  OBVIOUS
<1>3. val = [f \in Fields |-> val[f]] /\ <<>> \in Seq(Unknown)
  BY EmptySeq
<1> HIDE DEF val
<1>4. \A f \in Fields : val[f] \in Values(f)
  BY <1>2, ClassFields DEF IsMessage
<1>5. IsMessage([val |-> val, has |-> {}, unknown |-> <<>>])
  BY <1>3, <1>4, MessageRecord
<1> QED
  BY <1>1, <1>5

LEMMA MergeMessage ==
  ASSUME NEW m, IsMessage(m), NEW from, IsMessage(from)
  PROVE  IsMessage(MergeFrom(m, from))
<1> DEFINE val == [f \in Fields |-> IF f \in from.has THEN from.val[f] ELSE m.val[f]]
<1>1. val = [f \in Fields |-> val[f]] /\ \A f \in Fields : val[f] \in {from.val[f], m.val[f]}
  OBVIOUS
<1> HIDE DEF val
<1>2. \A f \in Fields : val[f] \in Values(f)
  BY <1>1 DEF IsMessage
<1>3. m.has \cup from.has \subseteq Fields /\ m.unknown \o from.unknown \in Seq(Unknown)
  BY ConcatProperties DEF IsMessage
<1>4. IsMessage([val |-> val, has |-> m.has \cup from.has, unknown |-> m.unknown \o from.unknown])
  BY <1>1, <1>2, <1>3, MessageRecord
<1> QED
  BY <1>4 DEF MergeFrom, val

\* A parsed value, an unknown entry, and the bits that are or-ed.
LEMMA ParsedMessage ==
  ASSUME NEW m, IsMessage(m)
  PROVE  /\ \A f \in Fields : \A v \in Values(f) :
              IsMessage([m EXCEPT !.val[f] = v])
         /\ \A e \in Unknown : IsMessage([m EXCEPT !.unknown = Append(m.unknown, e)])
         /\ has_bits \subseteq Fields => IsMessage(Collected(m))
<1>1. Shaped(m)
  BY MessageShaped
<1>2. ASSUME NEW f \in Fields, NEW v \in Values(f)
      PROVE  IsMessage([m EXCEPT !.val[f] = v])
  <2> DEFINE val == [m.val EXCEPT ![f] = v]
  <2>1. val = [g \in Fields |-> val[g]] /\ \A g \in Fields : val[g] \in Values(g)
    BY DEF IsMessage
  <2>2. [m EXCEPT !.val[f] = v] = [val |-> val, has |-> m.has, unknown |-> m.unknown]
    BY <1>1, ExceptOne
  <2> HIDE DEF val
  <2>3. IsMessage([val |-> val, has |-> m.has, unknown |-> m.unknown])
    BY <2>1, MessageRecord DEF IsMessage
  <2> QED
    BY <2>2, <2>3
<1>3. ASSUME NEW e \in Unknown
      PROVE  IsMessage([m EXCEPT !.unknown = Append(m.unknown, e)])
  <2>1. Append(m.unknown, e) \in Seq(Unknown)
    BY AppendProperties DEF IsMessage
  <2>2. IsMessage([val |-> m.val, has |-> m.has, unknown |-> Append(m.unknown, e)])
    BY <2>1, MessageRecord DEF IsMessage
  <2> QED
    BY <1>1, <2>2, ExceptOne
<1>4. ASSUME has_bits \subseteq Fields
      PROVE  IsMessage(Collected(m))
  <2>1. Collected(m) = [val |-> m.val, has |-> m.has \cup has_bits, unknown |-> m.unknown]
    BY <1>1, ExceptOne DEF Collected
  <2>2. IsMessage([val |-> m.val, has |-> m.has \cup has_bits, unknown |-> m.unknown])
    BY <1>4, MessageRecord DEF IsMessage
  <2> QED
    BY <2>1, <2>2
<1> QED
  BY <1>2, <1>3, <1>4

\* A call other than Swap leaves one object as another message.
LEMMA CallBecomes ==
  ASSUME TypeOK, NEW o \in Objects, Call(o)
  PROVE  \/ \E m : IsMessage(m) /\ Becomes(o, m)
         \/ \E other \in Objects : Swap(o, other)
<1>1. class \in Classes /\ \A p \in Objects : IsMessage(obj[p])
  BY DEF TypeOK
<1>2. CASE SetField(o)
  <2>1. PICK f \in Fields : \E v \in Values(f) : Becomes(o, Set(obj[o], f, v))
    BY <1>2 DEF SetField
  <2>2. PICK v \in Values(f) : Becomes(o, Set(obj[o], f, v))
    BY <2>1
  <2>3. IsMessage(Set(obj[o], f, v))
    BY <1>1, SetMessage
  <2> QED
    BY <2>2, <2>3
<1>3. CASE Unset(o)
  BY <1>1, <1>3, ClearFieldMessage DEF Unset
<1>4. CASE Reset(o)
  BY <1>1, <1>4, ClearMessage DEF Reset
<1>5. ASSUME NEW from \in Objects, Merge(o, from) \/ Copy(o, from)
      PROVE  \E m : IsMessage(m) /\ Becomes(o, m)
  BY <1>1, <1>5, ClearMessage, MergeMessage DEF Merge, Copy
<1> QED
  BY <1>2, <1>3, <1>4, <1>5 DEF Call

\* The program fills its object with a message.
LEMMA SendBecomes ==
  ASSUME TypeOK, NEW op \in Ops, Send(op)
  PROVE  \E m : IsMessage(m) /\ Becomes(Own, m)
<1>1. class = NetDiskResponse /\ class \in Classes
  BY DEF Send, TypeOK
<1>2. PICK n \in Values(file_name), s \in Values(shard), p \in Values(part_index) :
        LET echoed == Set(Set(Set(New, file_name, n), shard, s), part_index, p)
        IN  \E m \in Dispatched(echoed, op) :
              Becomes(Own, IF m.val[res] = 1 THEN Set(m, body, "upload success") ELSE m)
  BY DEF Send
<1> DEFINE m1 == Set(New, file_name, n)
           m2 == Set(m1, shard, s)
           echoed == Set(m2, part_index, p)
<1>3. PICK m \in Dispatched(echoed, op) :
        Becomes(Own, IF m.val[res] = 1 THEN Set(m, body, "upload success") ELSE m)
  BY <1>2
<1>4. Fields = {res, shard, part_index, file_name, body}
  BY <1>1, ResponseFields
<1>5. IsMessage(m1)
  BY <1>1, <1>4, NewMessage, SetMessage
<1> HIDE DEF m1
<1>6. IsMessage(m2)
  BY <1>4, <1>5, SetMessage
<1> HIDE DEF m2
<1>7. IsMessage(echoed) /\ Clean(echoed, {})
  <2>1. IsMessage(echoed)
    BY <1>4, <1>6, SetMessage
  <2>2. Clean(echoed, {})
    BY <1>1, EchoedFields DEF m1, m2
  <2> QED
    BY <2>1, <2>2
<1> HIDE DEF echoed
<1>8. CASE m = echoed
  <2>1. \A v \in Values(body) : IsMessage(Set(m, body, v))
    BY <1>4, <1>7, <1>8, SetMessage
  <2> QED
    BY <1>3, <1>7, <1>8, <2>1, FilledAssumption
<1>9. ASSUME NEW r \in {0, 1}, NEW t, m = Answered(echoed, <<r, t>>),
             r = 0 => t \in Values(body)
      PROVE  \E l : IsMessage(l) /\ Becomes(Own, l)
  <2>1. m = Set(Set(echoed, res, r), body, t)
    BY <1>9 DEF Answered
  <2>2. IsMessage(Set(echoed, res, r))
    BY <1>4, <1>7, FilledAssumption, SetMessage
  <2>3. m.val[res] = r
    BY <1>1, <1>7, <1>9, AnsweredFields
  <2>4. CASE r = 0
    <3>1. IsMessage(m)
      BY <1>4, <1>9, <2>1, <2>2, <2>4, SetMessage
    <3> QED
      BY <1>3, <2>3, <2>4, <3>1
  <2>5. CASE r = 1
    <3>1. Becomes(Own, Set(m, body, "upload success"))
      BY <1>3, <2>3, <2>5
    <3>2. Set(m, body, "upload success") = Set(Set(echoed, res, r), body, "upload success")
      <4> DEFINE answered == Set(echoed, res, r)
      <4>1. Shaped(answered) /\ body \in Fields
        BY <1>4, <2>2, MessageShaped
      <4> HIDE DEF answered
      <4>2. \A v : Set(Set(answered, body, t), body, v) = Set(answered, body, v)
        BY <4>1, SetTwice
      <4> QED
        BY <2>1, <4>2 DEF answered
    <3>3. IsMessage(Set(Set(echoed, res, r), body, "upload success"))
      BY <1>4, <2>2, FilledAssumption, SetMessage
    <3> QED
      BY <3>1, <3>2, <3>3
  <2> QED
    BY <2>4, <2>5
<1>10. \/ m = echoed
       \/ \E r \in {0, 1} : \E t :
            m = Answered(echoed, <<r, t>>) /\ (r = 0 => t \in Values(body))
  <2>1. CASE op = "UPLOAD"
    <3>1. PICK out \in Outcomes : m = Answered(echoed, out)
      BY <1>3, <2>1 DEF Dispatched
    <3>2. PICK r, t : out = <<r, t>> /\ ((r = 0 /\ t = "failed") \/ r = 1)
      BY <3>1 DEF Outcomes
    <3>3. r \in {0, 1} /\ (r = 0 => t \in Values(body))
      <4>1. "failed" \in Values(body)
        BY FilledAssumption
      <4>2. r = 0 => t = "failed"
        BY <3>2
      <4>3. r \in {0, 1}
        BY <3>2
      <4> QED
        BY <4>1, <4>2, <4>3, Zenon
    <3> QED
      BY <3>1, <3>2, <3>3
  <2>2. CASE op = "DOWNLOAD"
    BY <1>3, <2>2 DEF Dispatched
  <2>3. CASE op = "OTHER"
    <3>1. m = Answered(echoed, <<0, "op not support">>)
      BY <1>3, <2>3 DEF Dispatched
    <3> QED
      BY <3>1, FilledAssumption
  <2> QED
    BY <2>1, <2>2, <2>3 DEF Ops
<1> QED
  BY <1>8, <1>9, <1>10

LEMMA SendPartBecomes ==
  ASSUME TypeOK, SendPart
  PROVE  \E m : IsMessage(m) /\ Becomes(Own, m)
<1>1. class = NetDiskRequest /\ class \in Classes
  BY DEF SendPart, TypeOK
<1>2. PICK n \in Values(req_name), p \in Values(req_index), b \in Values(req_body) :
        Becomes(Own, [val     |-> [f \in Fields |-> Argument(f, n, p, b)],
                      has     |-> Fields,
                      unknown |-> <<>>])
  BY DEF SendPart
<1> DEFINE val == [f \in Fields |-> Argument(f, n, p, b)]
<1>3. val = [f \in Fields |-> val[f]] /\ <<>> \in Seq(Unknown)
  BY EmptySeq
<1>4. \A f \in Fields : val[f] \in Values(f)
  BY <1>1, ClassFields, FilledAssumption DEF Argument
<1> HIDE DEF val
<1>5. IsMessage([val |-> val, has |-> Fields, unknown |-> <<>>])
  BY <1>3, <1>4, MessageRecord
<1> QED
  BY <1>2, <1>5 DEF val

\* The steps of program and library.
LEMMA MsgSteps ==
  ASSUME TypeOK, [MsgNext]_allVars
  PROVE  \/ \E o \in Objects : \E m : IsMessage(m) /\ Becomes(o, m)
         \/ \E o, other \in Objects : Swap(o, other)
         \/ \E o \in Objects : SerializeTo(o) \/ ParseFrom(o)
         \/ Tamper \/ Parse \/ UNCHANGED vars
BY CallBecomes, SendBecomes, SendPartBecomes, OwnAssumption DEF MsgNext, Next, allVars

\* The objects are messages again, and the wire is left alone.
LEMMA ObjectsTyped ==
  ASSUME MsgTypeInv, UNCHANGED <<class, wire, sent, touched>>,
         obj' = [o \in Objects |-> obj'[o]], \A o \in Objects : IsMessage(obj'[o]),
         pc' \in {"idle", "entry", "failed"}, target' \in Objects,
         pos' \in 1 .. Len(wire) + 1, pc' = "idle" => pos' = 1, has_bits' \subseteq Numerics,
         result' \in {"none", "accepted", "refused"}, calls' \in 0 .. MaxCalls
  PROVE  MsgTypeInv'
<1>1. Fields' = Fields /\ Numerics' = Numerics
  BY DEF Fields, Numerics
<1>2. TypeOK'
  BY <1>1 DEF MsgTypeInv, TypeOK, IsMessage
<1>3. Piece' = Piece
  BY <1>1 DEF Piece, Entry
<1> QED
  BY <1>2, <1>3 DEF MsgTypeInv, CutOff

\* A call that leaves one or two objects as other messages.
LEMMA CallTyped ==
  ASSUME MsgTypeInv, calls < MaxCalls, calls' = calls + 1,
         UNCHANGED <<class, wire, pc, target, pos, has_bits, sent, touched>>,
         result' \in {"none", result},
         NEW o \in Objects, NEW p \in Objects, NEW m, IsMessage(m), NEW n, IsMessage(n),
         obj' = [obj EXCEPT ![o] = m, ![p] = n]
  PROVE  MsgTypeInv'
<1>1. /\ obj' = [q \in Objects |-> obj'[q]]
      /\ \A q \in Objects : obj'[q] = IF q = p THEN n ELSE IF q = o THEN m ELSE obj[q]
  BY DEF MsgTypeInv, TypeOK
<1>2. \A q \in Objects : IsMessage(obj'[q])
  BY <1>1 DEF MsgTypeInv, TypeOK
<1>3. calls' \in 0 .. MaxCalls
  BY ClassAssumption DEF MsgTypeInv, TypeOK
<1> QED
  BY <1>1, <1>2, <1>3, ObjectsTyped DEF MsgTypeInv, TypeOK

LEMMA SerializeTyped ==
  ASSUME MsgTypeInv, NEW o \in Objects, SerializeTo(o)
  PROVE  MsgTypeInv'
<1>1. /\ wire' = Serialize(obj[o]) /\ sent' = obj[o] /\ IsInitialized(obj[o])
      /\ IsMessage(obj[o]) /\ class \in Classes
      /\ Fields' = Fields /\ Numerics' = Numerics
  BY DEF SerializeTo, MsgTypeInv, TypeOK, Fields, Numerics
<1>2. Piece' = {Entry(obj[o], f) : f \in Fields} \cup Unknown
  BY <1>1 DEF Piece, Entry
<1>3. [i \in 1 .. Len(class) |-> Entry(obj[o], class[i])] \in Seq(Piece')
  <2>1. \A i \in 1 .. Len(class) : Entry(obj[o], class[i]) \in Piece'
    BY <1>1, <1>2, ClassFields
  <2> QED
    BY <1>1, <2>1, ClassFields, IsASeq
<1>4. obj[o].unknown \in Seq(Piece')
  BY <1>1, <1>2, SeqMonotonic DEF IsMessage
<1>5. wire' \in Seq(Piece')
  <2> DEFINE entries == [i \in 1 .. Len(class) |-> Entry(obj[o], class[i])]
  <2>1. wire' = entries \o obj[o].unknown
    BY <1>1, SerializeAll
  <2> HIDE DEF entries
  <2>2. entries \in Seq(Piece')
    BY <1>3 DEF entries
  <2> QED
    BY <1>4, <2>1, <2>2, ConcatProperties
<1>6. wire' \in Seq((Piece \cup CutOff)')
  BY <1>5, SeqMonotonic
<1>7. pos' \in 1 .. Len(wire') + 1
  <2>1. pos' = 1
    BY DEF SerializeTo, MsgTypeInv
  <2> QED
    BY <1>5, <2>1, LenProperties
<1>8. TypeOK'
  BY <1>1, <1>7 DEF SerializeTo, MsgTypeInv, TypeOK, IsMessage
<1> QED
  BY <1>6, <1>8 DEF SerializeTo, MsgTypeInv

LEMMA TamperTyped ==
  ASSUME MsgTypeInv, Tamper
  PROVE  MsgTypeInv'
<1>1. /\ UNCHANGED <<class, obj, pc, target, pos, has_bits, sent>>
      /\ Fields' = Fields /\ Numerics' = Numerics /\ calls' = calls + 1 /\ calls < MaxCalls
  BY DEF Tamper, Fields, Numerics
<1>2. Piece' = Piece /\ CutOff' = CutOff
  BY <1>1 DEF Piece, CutOff, Entry
<1> DEFINE S == Piece \cup CutOff
<1>3. wire \in Seq(S) /\ Len(wire) \in Nat
  BY LenProperties DEF MsgTypeInv
<1>4. wire' \in Seq(S)
  <2>1. CASE \E e \in Unknown : wire' = Append(wire, e)
    BY <1>3, <2>1, AppendProperties DEF Piece
  <2>2. ASSUME NEW n \in 0 .. Len(wire) - 1,
               wire' \in {SubSeq(wire, 1, n),
                          Append(SubSeq(wire, 1, n), [wire[n + 1] EXCEPT !.value = Cut])}
        PROVE  wire' \in Seq(S)
    <3>1. \A i \in 1 .. Len(wire) : wire[i] \in S
      BY <1>3, ElementOfSeq
    <3>2. SubSeq(wire, 1, n) \in Seq(S)
      BY <1>3, <3>1, SubSeqProperties
    <3>3. wire[n + 1] \in S
      BY <1>3, <3>1
    <3>4. [wire[n + 1] EXCEPT !.value = Cut] \in S
      <4>1. CASE wire[n + 1] \in Piece
        BY <4>1 DEF CutOff
      <4>2. CASE wire[n + 1] \in CutOff
        BY <3>3, <4>2, EntryFacts DEF MsgTypeInv, TypeOK
      <4> QED
        BY <3>3, <4>1, <4>2
    <3>5. \A t \in Seq(S) : \A e \in S : Append(t, e) \in Seq(S)
      BY AppendProperties
    <3> HIDE DEF S
    <3> QED
      BY <2>2, <3>2, <3>4, <3>5
  <2> QED
    BY <2>1, <2>2 DEF Tamper
<1>5. pos' \in 1 .. Len(wire') + 1 /\ pc' = "idle" /\ pos' = 1
  <2>1. Len(wire') \in Nat
    BY <1>4, LenProperties
  <2> QED
    BY <2>1 DEF Tamper, MsgTypeInv
<1>6. calls' \in 0 .. MaxCalls
  BY <1>1, ClassAssumption DEF MsgTypeInv, TypeOK
<1>7. TypeOK'
  BY <1>1, <1>5, <1>6 DEF Tamper, MsgTypeInv, TypeOK, IsMessage
<1> QED
  BY <1>2, <1>4, <1>5, <1>7 DEF MsgTypeInv

LEMMA ParseFromTyped ==
  ASSUME MsgTypeInv, NEW o \in Objects, ParseFrom(o)
  PROVE  MsgTypeInv'
<1>1. /\ obj' = [p \in Objects |-> obj'[p]]
      /\ \A p \in Objects : obj'[p] = IF p = o THEN Clear(obj[o]) ELSE obj[p]
  BY DEF ParseFrom, MsgTypeInv, TypeOK
<1>2. \A p \in Objects : IsMessage(obj'[p])
  BY <1>1, ClearMessage DEF MsgTypeInv, TypeOK
<1>3. pos' \in 1 .. Len(wire) + 1
  BY LenProperties DEF ParseFrom, MsgTypeInv
<1> QED
  BY <1>1, <1>2, <1>3, ObjectsTyped DEF ParseFrom, MsgTypeInv, TypeOK

\* The entry the parser is at.
LEMMA EntryIsOnWire ==
  ASSUME MsgTypeInv, AtEntry
  PROVE  /\ class \in Classes /\ IsMessage(sent) /\ entry \in Piece \cup CutOff
         /\ pos \in 1 .. Len(wire) /\ Len(wire) \in Nat
<1>1. Len(wire) \in Nat /\ pos \in 1 .. Len(wire)
  BY LenProperties DEF MsgTypeInv, TypeOK, AtEntry
<1> QED
  BY <1>1, ElementOfSeq DEF entry, MsgTypeInv, TypeOK

LEMMA ReadTyped ==
  ASSUME MsgTypeInv, NEW f \in Fields, AtEntry, Matches(f), NEW v \in ReadValue(f)
  PROVE  v \in Values(f)
BY EntryIsOnWire, FieldRead DEF ReadValue, Matches

\* A step of the parser leaves its object as a message m.
LEMMA ParserTyped ==
  ASSUME MsgTypeInv, AtEntry, Advance, NEW m, IsMessage(m),
         obj' = [obj EXCEPT ![target] = m], has_bits' \subseteq Numerics
  PROVE  MsgTypeInv'
<1>1. /\ obj' = [p \in Objects |-> obj'[p]]
      /\ \A p \in Objects : obj'[p] = IF p = target THEN m ELSE obj[p]
  BY DEF MsgTypeInv, TypeOK
<1>2. pos' \in 1 .. Len(wire) + 1 /\ pc' \in {"entry", "failed"}
  BY EntryIsOnWire DEF Advance
<1> QED
  BY <1>1, <1>2, ObjectsTyped DEF Advance, MsgTypeInv, TypeOK

LEMMA ParseTyped ==
  ASSUME MsgTypeInv, Parse
  PROVE  MsgTypeInv'
<1> DEFINE m == obj[target]
<1>1. IsMessage(m) /\ target \in Objects /\ has_bits \subseteq Fields /\ Shaped(m)
  BY MessageShaped DEF MsgTypeInv, TypeOK, Numerics
<1>2. CASE ReadNumber
  <2>1. PICK f \in Numerics :
          /\ Matches(f) /\ has_bits' = has_bits \cup {f}
          /\ \E v \in ReadValue(f) : obj' = [obj EXCEPT ![target].val[f] = v]
    BY <1>2 DEF ReadNumber
  <2>2. PICK v \in ReadValue(f) : obj' = [obj EXCEPT ![target] = [m EXCEPT !.val[f] = v]]
    BY <2>1
  <2>3. f \in Fields /\ v \in Values(f)
    BY <1>2, <2>1, ReadTyped DEF ReadNumber, Numerics
  <2>4. IsMessage([m EXCEPT !.val[f] = v])
    BY <1>1, <2>3, ParsedMessage
  <2> QED
    BY <1>2, <2>1, <2>2, <2>4, ParserTyped DEF ReadNumber, MsgTypeInv, TypeOK
<1>3. CASE ReadText
  <2>1. PICK f \in Fields :
          Matches(f) /\ \E v \in ReadValue(f) : obj' = [obj EXCEPT ![target] = Set(m, f, v)]
    BY <1>3 DEF ReadText
  <2>2. PICK v \in ReadValue(f) : obj' = [obj EXCEPT ![target] = Set(m, f, v)]
    BY <2>1
  <2>3. IsMessage(Set(m, f, v))
    BY <1>1, <1>3, <2>1, ReadTyped, SetMessage DEF ReadText
  <2> QED
    BY <1>3, <2>2, <2>3, ParserTyped DEF ReadText, MsgTypeInv, TypeOK
<1>4. CASE ReadUnknown
  <2>1. CASE entry.value = Cut
    <3>1. obj' = [obj EXCEPT ![target] = m]
      BY <1>1, <1>4, <2>1 DEF ReadUnknown, MsgTypeInv, TypeOK
    <3> QED
      BY <1>1, <1>4, <3>1, ParserTyped DEF ReadUnknown, MsgTypeInv, TypeOK
  <2>2. CASE entry.value # Cut
    <3>1. entry \in Unknown
      BY <1>4, <2>2, EntryIsOnWire, UnknownRead DEF ReadUnknown, Matches
    <3>2. obj' = [obj EXCEPT ![target] = [m EXCEPT !.unknown = Append(m.unknown, entry)]]
      BY <1>4, <2>2 DEF ReadUnknown
    <3>3. IsMessage([m EXCEPT !.unknown = Append(m.unknown, entry)])
      BY <1>1, <3>1, ParsedMessage
    <3> QED
      BY <1>4, <3>2, <3>3, ParserTyped DEF ReadUnknown, MsgTypeInv, TypeOK
  <2> QED
    BY <2>1, <2>2
<1>5. CASE ParseEnd
  <2>1. IsMessage(Collected(m))
    BY <1>1, ParsedMessage
  <2>2. obj' = [obj EXCEPT ![target] = Collected(m)]
    BY <1>5 DEF ParseEnd
  <2>3. /\ obj' = [p \in Objects |-> obj'[p]]
        /\ \A p \in Objects : obj'[p] = IF p = target THEN Collected(m) ELSE obj[p]
    BY <2>2 DEF MsgTypeInv, TypeOK
  <2>4. \A p \in Objects : IsMessage(obj'[p])
    BY <2>1, <2>3 DEF MsgTypeInv, TypeOK
  <2>5. pos' \in 1 .. Len(wire) + 1
    BY <1>5, LenProperties DEF ParseEnd, MsgTypeInv
  <2> QED
    BY <1>5, <2>3, <2>4, <2>5, ObjectsTyped DEF ParseEnd, MsgTypeInv, TypeOK
<1> QED
  BY <1>2, <1>3, <1>4, <1>5 DEF Parse

LEMMA MsgTypeStep ==
  ASSUME MsgTypeInv, [MsgNext]_allVars
  PROVE  MsgTypeInv'
<1>1. ASSUME NEW o \in Objects, NEW m, IsMessage(m), Becomes(o, m)
      PROVE  MsgTypeInv'
  <2>1. obj' = [obj EXCEPT ![o] = m, ![o] = m]
    BY <1>1 DEF Becomes, MsgTypeInv, TypeOK
  <2> QED
    BY <1>1, <2>1, CallTyped DEF Becomes
<1>2. ASSUME NEW o \in Objects, NEW other \in Objects, Swap(o, other)
      PROVE  MsgTypeInv'
  BY <1>2, CallTyped DEF Swap, MsgTypeInv, TypeOK
<1>3. CASE UNCHANGED vars
  BY <1>3 DEF vars, MsgTypeInv, TypeOK, IsMessage, Fields, Numerics, Piece, CutOff, Entry
<1> QED
  BY <1>1, <1>2, <1>3, MsgSteps, SerializeTyped, TamperTyped, ParseFromTyped, ParseTyped
     DEF MsgTypeInv

LEMMA MsgTypeInvariant == MsgSpec => []MsgTypeInv
<1>1. MsgInit => MsgTypeInv
  <2> SUFFICES ASSUME MsgInit PROVE MsgTypeInv
    OBVIOUS
  <2>1. IsMessage(New) /\ Len(<<>>) = 0
    BY NewMessage, EmptySeq DEF MsgInit, Init
  <2>2. TypeOK
    BY <2>1, ClassAssumption DEF MsgInit, Init, TypeOK
  <2>3. wire \in Seq(Piece \cup CutOff)
    BY EmptySeq DEF MsgInit, Init
  <2> QED
    BY <2>2, <2>3 DEF MsgInit, Init, MsgTypeInv
<1>2. MsgTypeInv /\ [MsgNext]_allVars => MsgTypeInv'
  BY MsgTypeStep
<1> QED
  BY <1>1, <1>2, PTL DEF MsgSpec

(***************************************************************************)
(* Objects and parser stay in their domains after any calls and any parse: *)
(* what a parser takes into a field, also when the bytes end too early or  *)
(* unknown entries follow, is a value of that field.                       *)
(***************************************************************************)
THEOREM MessagesTypeCorrect == MsgSpec => []TypeOK
<1>1. MsgTypeInv => TypeOK
  BY DEF MsgTypeInv
<1> QED
  BY <1>1, MsgTypeInvariant, PTL
-----------------------------------------------------------------------------
(***************************************************************************)
(* Receiving.  What the parser has read so far is as it was sent; as long  *)
(* as the wire is as it was written, it has read the first fields and then *)
(* unknown entries, in the order of the wire.                              *)
(***************************************************************************)
Got(m, n) ==
  /\ \A j \in 1 .. Len(class) : j <= n => class[j] \in m.has \cup has_bits
  /\ m.unknown = SubSeq(sent.unknown, 1, n - Len(class))

AsSent(m) == \A f \in m.has \cup has_bits : m.val[f] = sent.val[f]

ReceiveInv ==
  /\ ~touched => IsInitialized(sent) /\ wire = Serialize(sent)
  /\ pc = "entry" => AsSent(obj[target])
  /\ pc = "entry" /\ ~touched => Got(obj[target], pos - 1)
  /\ pc = "failed" => touched
  /\ pc # "idle" => result = "none"
  /\ SentIsReceived

\* What the parser needs of its object is untouched by calls when it is idle.
LEMMA ReceiveIdle ==
  ASSUME ReceiveInv, pc = "idle", pc' = "idle", UNCHANGED <<class, wire, sent, touched, target>>,
         result' \in {"none", result}, result' # "none" => obj'[target] = obj[target]
  PROVE  ReceiveInv'
<1>1. Fields' = Fields
  BY DEF Fields
<1>2. Serialize(sent)' = Serialize(sent) /\ IsInitialized(sent)' = IsInitialized(sent)
  BY <1>1 DEF Serialize, Entry, IsInitialized
<1>3. SentIsReceived'
  BY DEF ReceiveInv, SentIsReceived
<1> QED
  BY <1>2, <1>3 DEF ReceiveInv

LEMMA SerializeReceive ==
  ASSUME ReceiveInv, NEW o \in Objects, SerializeTo(o)
  PROVE  ReceiveInv'
<1>1. Fields' = Fields
  BY DEF SerializeTo, Fields
<1>2. IsInitialized(sent)' /\ wire' = Serialize(sent)'
  BY <1>1 DEF SerializeTo, Serialize, Entry, IsInitialized
<1> QED
  BY <1>2 DEF SerializeTo, ReceiveInv, SentIsReceived

LEMMA ParseFromReceive ==
  ASSUME MsgTypeInv, ReceiveInv, NEW o \in Objects, ParseFrom(o)
  PROVE  ReceiveInv'
<1>1. /\ obj'[target'] = Clear(obj[o]) /\ has_bits' = {} /\ pos' = 1
      /\ pc' = "entry" /\ result' = "none" /\ UNCHANGED <<class, wire, sent, touched>>
  BY DEF ParseFrom, MsgTypeInv, TypeOK
<1>2. Clear(obj[o]).has = {} /\ Clear(obj[o]).unknown = <<>>
  BY ClearMessage DEF MsgTypeInv, TypeOK
<1>3. Fields' = Fields
  BY <1>1 DEF Fields
<1>4. Serialize(sent)' = Serialize(sent) /\ IsInitialized(sent)' = IsInitialized(sent)
  BY <1>1, <1>3 DEF Serialize, Entry, IsInitialized
<1>5. Got(obj[target], pos - 1)'
  <2>1. Len(class) \in Nat
    BY ClassFields DEF MsgTypeInv, TypeOK
  <2>2. SubSeq(sent.unknown, 1, (1 - 1) - Len(class)) = <<>>
    BY <2>1, SubSeqEmpty
  <2> QED
    BY <1>1, <1>2, <2>1, <2>2 DEF Got
<1> QED
  BY <1>1, <1>2, <1>4, <1>5 DEF ReceiveInv, AsSent, SentIsReceived

\* Where the fields and the unknown entries of the message sent are.
LEMMA UntouchedWire ==
  ASSUME MsgTypeInv, ReceiveInv, ~touched
  PROVE  /\ Len(class) \in Nat /\ Len(sent.unknown) \in Nat
         /\ Len(wire) = Len(class) + Len(sent.unknown)
         /\ \A i \in 1 .. Len(class) + Len(sent.unknown) :
              wire[i] = IF i <= Len(class) THEN Entry(sent, class[i])
                                           ELSE sent.unknown[i - Len(class)]
<1> DEFINE entries == [i \in 1 .. Len(class) |-> Entry(sent, class[i])]
           unknown == sent.unknown
<1>1. wire = Serialize(sent) /\ IsInitialized(sent) /\ class \in Classes /\ IsMessage(sent)
  BY DEF ReceiveInv, MsgTypeInv, TypeOK
<1>2. Len(class) \in Nat /\ Fields = {class[j] : j \in 1 .. Len(class)}
  BY <1>1, ClassFields
<1>3. wire = entries \o unknown
  BY <1>1, SerializeAll
<1>4. entries \in Seq(Piece) /\ Len(entries) = Len(class)
  <2>1. \A i \in 1 .. Len(class) : Entry(sent, class[i]) \in Piece
    BY <1>2 DEF Piece
  <2>2. entries \in Seq(Piece)
    BY <1>2, <2>1, IsASeq
  <2>3. DOMAIN entries = 1 .. Len(class) /\ DOMAIN entries = 1 .. Len(entries)
        /\ Len(entries) \in Nat
    BY <2>2, LenProperties
  <2> HIDE DEF entries
  <2> QED
    BY <1>2, <2>2, <2>3
<1>5. unknown \in Seq(Piece)
  BY <1>1, SeqMonotonic DEF IsMessage, Piece
<1>6. \A i \in 1 .. Len(class) : entries[i] = Entry(sent, class[i])
  OBVIOUS
<1> HIDE DEF entries, unknown
<1>7. /\ Len(wire) = Len(entries) + Len(unknown)
      /\ \A i \in 1 .. Len(entries) + Len(unknown) :
           wire[i] = IF i <= Len(entries) THEN entries[i] ELSE unknown[i - Len(entries)]
  BY <1>3, <1>4, <1>5, ConcatProperties
<1>8. Len(unknown) \in Nat
  BY <1>5, LenProperties
<1>9. \A i \in 1 .. Len(class) + Len(unknown) :
        wire[i] = IF i <= Len(class) THEN Entry(sent, class[i]) ELSE unknown[i - Len(class)]
  BY <1>2, <1>4, <1>6, <1>7, <1>8
<1> QED
  BY <1>2, <1>4, <1>7, <1>8, <1>9 DEF unknown

LEMMA UntouchedEntry ==
  ASSUME MsgTypeInv, ReceiveInv, AtEntry, ~touched
  PROVE  /\ Len(class) \in Nat
         /\ pos <= Len(class) => class[pos] \in Fields /\ entry = Entry(sent, class[pos])
         /\ pos > Len(class) =>
              /\ pos - Len(class) \in 1 .. Len(sent.unknown)
              /\ entry = sent.unknown[pos - Len(class)] /\ entry \in Unknown
         /\ entry.value # Cut
<1>1. /\ class \in Classes /\ IsMessage(sent) /\ pos \in 1 .. Len(wire)
      /\ Len(class) \in Nat /\ Len(sent.unknown) \in Nat
      /\ Len(wire) = Len(class) + Len(sent.unknown)
      /\ entry = IF pos <= Len(class) THEN Entry(sent, class[pos])
                                      ELSE sent.unknown[pos - Len(class)]
  BY EntryIsOnWire, UntouchedWire DEF entry
<1>2. CASE pos <= Len(class)
  <2>1. class[pos] \in Fields
    BY <1>1, <1>2, ClassFields
  <2>2. entry.value = sent.val[class[pos]]
    BY <1>1, <1>2 DEF Entry
  <2>3. entry.value # Cut
    BY <1>1, <2>1, <2>2, ClassFields DEF IsMessage
  <2> QED
    BY <1>1, <1>2, <2>1, <2>3
<1>3. CASE pos > Len(class)
  <2>1. pos - Len(class) \in 1 .. Len(sent.unknown)
    BY <1>1, <1>3
  <2>2. sent.unknown[pos - Len(class)] \in Unknown
    BY <1>1, <2>1, ElementOfSeq DEF IsMessage
  <2>3. entry = sent.unknown[pos - Len(class)] /\ entry \in Unknown
    BY <1>1, <1>3, <2>2
  <2> QED
    BY <1>1, <1>3, <2>1, <2>3, ClassAssumption
<1> QED
  BY <1>1, <1>2, <1>3

\* A step of the parser leaves its object as m, with one entry more as sent.
LEMMA ParserReceive ==
  ASSUME MsgTypeInv, ReceiveInv, AtEntry, Advance, NEW m, obj' = [obj EXCEPT ![target] = m],
         entry.value # Cut => \A f \in m.has \cup has_bits' : m.val[f] = sent.val[f],
         ~touched =>
           /\ \A j \in 1 .. Len(class) : j <= pos => class[j] \in m.has \cup has_bits'
           /\ m.unknown = SubSeq(sent.unknown, 1, pos - Len(class))
  PROVE  ReceiveInv'
<1>1. /\ UNCHANGED <<class, wire, target, result, sent, touched>> /\ pos' = pos + 1
      /\ pc' = (IF entry.value = Cut THEN "failed" ELSE "entry") /\ pc = "entry"
  BY DEF Advance, AtEntry
<1>2. Fields' = Fields
  BY <1>1 DEF Fields
<1>3. Serialize(sent)' = Serialize(sent) /\ IsInitialized(sent)' = IsInitialized(sent)
  BY <1>1, <1>2 DEF Serialize, Entry, IsInitialized
<1>4. obj'[target'] = m
  BY <1>1 DEF MsgTypeInv, TypeOK
<1>5. pos' - 1 = pos
  BY <1>1, EntryIsOnWire
<1>6. pc' = "failed" => touched'
  BY <1>1, UntouchedEntry
<1>7. pc' = "entry" => AsSent(obj[target])'
  BY <1>1, <1>4 DEF AsSent
<1>8. pc' = "entry" /\ ~touched' => Got(obj[target], pos - 1)'
  BY <1>1, <1>4, <1>5 DEF Got
<1>9. result' = "none"
  BY <1>1 DEF ReceiveInv
<1>10. ~touched' => IsInitialized(sent)' /\ wire' = Serialize(sent)'
  BY <1>1, <1>3 DEF ReceiveInv
<1>11. SentIsReceived'
  BY <1>9 DEF SentIsReceived
<1> QED
  BY <1>6, <1>7, <1>8, <1>9, <1>10, <1>11 DEF ReceiveInv

\* A field that is read is, when the wire is untouched, the next of the class.
LEMMA FieldReceived ==
  ASSUME MsgTypeInv, ReceiveInv, AtEntry, ~touched, NEW f \in Fields, Matches(f)
  PROVE  /\ pos <= Len(class) /\ class[pos] = f
         /\ obj[target].unknown = SubSeq(sent.unknown, 1, pos - Len(class))
         /\ \A j \in 1 .. Len(class) : j <= pos =>
              class[j] \in obj[target].has \cup has_bits \cup {f}
<1>1. class \in Classes /\ Len(class) \in Nat /\ pos \in 1 .. Len(wire) /\ Len(wire) \in Nat
  BY EntryIsOnWire, UntouchedEntry
<1>2. pos <= Len(class)
  BY <1>1, UntouchedEntry, ClassFields DEF Matches
<1>3. class[pos] \in Fields /\ entry = Entry(sent, class[pos])
  BY <1>2, UntouchedEntry
<1>4. class[pos].number = f.number
  BY <1>3 DEF Entry, Matches
<1>5. class[pos] = f
  BY <1>1, <1>3, <1>4, ClassFields
<1>6. Got(obj[target], pos - 1)
  BY DEF ReceiveInv, AtEntry
<1>7. obj[target].unknown = <<>>
  <2>1. SubSeq(sent.unknown, 1, (pos - 1) - Len(class)) = <<>>
    BY <1>1, <1>2, SubSeqEmpty
  <2> QED
    BY <1>6, <2>1 DEF Got
<1>8. SubSeq(sent.unknown, 1, pos - Len(class)) = <<>>
  BY <1>1, <1>2, SubSeqEmpty
<1>9. \A j \in 1 .. Len(class) : j <= pos =>
        class[j] \in obj[target].has \cup has_bits \cup {f}
  <2> SUFFICES ASSUME NEW j \in 1 .. Len(class), j <= pos
               PROVE  class[j] \in obj[target].has \cup has_bits \cup {f}
    OBVIOUS
  <2>1. j <= pos - 1 \/ j = pos
    BY <1>1
  <2> QED
    BY <1>5, <1>6, <2>1 DEF Got
<1> QED
  BY <1>2, <1>5, <1>7, <1>8, <1>9

\* An entry that is kept as unknown is the next of the unknown ones sent.
LEMMA UnknownReceived ==
  ASSUME MsgTypeInv, ReceiveInv, AtEntry, ~touched, \A f \in Fields : ~Matches(f)
  PROVE  /\ Append(obj[target].unknown, entry) = SubSeq(sent.unknown, 1, pos - Len(class))
         /\ \A j \in 1 .. Len(class) : class[j] \in obj[target].has \cup has_bits
<1> DEFINE n == pos - Len(class)
           unknown == sent.unknown
<1>1. /\ class \in Classes /\ Len(class) \in Nat /\ pos \in 1 .. Len(wire)
      /\ Len(wire) \in Nat /\ IsMessage(sent)
  BY EntryIsOnWire, UntouchedEntry
<1>2. pos > Len(class)
  <2>1. ASSUME pos <= Len(class)
        PROVE  class[pos] \in Fields /\ Matches(class[pos])
    BY <2>1, UntouchedEntry DEF Matches, Entry
  <2> QED
    BY <1>1, <2>1
<1>3. n \in 1 .. Len(unknown) /\ entry = unknown[n] /\ entry \in Unknown
  BY <1>2, UntouchedEntry
<1>4. Got(obj[target], pos - 1)
  BY DEF ReceiveInv, AtEntry
<1>5. obj[target].unknown = SubSeq(unknown, 1, n - 1)
  <2>1. (pos - 1) - Len(class) = n - 1
    BY <1>1
  <2> QED
    BY <1>4, <2>1 DEF Got
<1>6. unknown \in Seq(Unknown) /\ Len(unknown) \in Nat
  BY <1>1, LenProperties DEF IsMessage
<1>7. \A j \in 1 .. Len(class) : class[j] \in obj[target].has \cup has_bits
  BY <1>1, <1>2, <1>4 DEF Got
<1> HIDE DEF n, unknown
<1>8. SubSeq(unknown, 1, n) = SubSeq(unknown, 1, n - 1) \o <<unknown[n]>>
  <2>1. 1 \in 1 .. Len(unknown) /\ n \in 1 .. Len(unknown)
    BY <1>3, <1>6
  <2> QED
    BY <1>3, <1>6, <2>1, SubSeqRecursiveSecond
<1>9. SubSeq(unknown, 1, n - 1) \in Seq(Unknown)
  <2>1. \A i \in 1 .. n - 1 : unknown[i] \in Unknown
    BY <1>3, <1>6, ElementOfSeq
  <2>2. n - 1 \in Int
    BY <1>3
  <2> QED
    BY <2>1, <2>2, SubSeqProperties
<1>10. Append(SubSeq(unknown, 1, n - 1), entry) = SubSeq(unknown, 1, n - 1) \o <<entry>>
  BY <1>3, <1>9, AppendIsConcat
<1> QED
  BY <1>3, <1>5, <1>7, <1>8, <1>10 DEF n, unknown

LEMMA ReadReceive ==
  ASSUME MsgTypeInv, ReceiveInv, ReadNumber \/ ReadText \/ ReadUnknown
  PROVE  ReceiveInv'
<1> DEFINE m == obj[target]
<1>1. /\ IsMessage(m) /\ class \in Classes /\ IsMessage(sent) /\ target \in Objects
      /\ AtEntry /\ Advance /\ pc = "entry" /\ entry \in Piece \cup CutOff
  BY EntryIsOnWire DEF ReadNumber, ReadText, ReadUnknown, AtEntry, MsgTypeInv, TypeOK
<1>2. /\ Shaped(m)
      /\ \A f \in m.has \cup has_bits : m.val[f] = sent.val[f]
  BY <1>1, MessageShaped DEF ReceiveInv, AsSent
<1>3. ASSUME NEW f \in Fields, Matches(f), NEW v \in ReadValue(f), entry.value # Cut
      PROVE  v = sent.val[f]
  BY <1>1, <1>3, FieldRead DEF ReadValue, Matches
<1>4. CASE ReadNumber
  <2>1. PICK f \in Numerics :
          /\ Matches(f) /\ has_bits' = has_bits \cup {f}
          /\ \E v \in ReadValue(f) : obj' = [obj EXCEPT ![target].val[f] = v]
    BY <1>4 DEF ReadNumber
  <2>2. PICK v \in ReadValue(f) : obj' = [obj EXCEPT ![target] = [m EXCEPT !.val[f] = v]]
    BY <2>1
  <2> DEFINE l == [m EXCEPT !.val[f] = v]
  <2>3. f \in Fields
    BY <2>1 DEF Numerics
  <2>4. /\ l.has = m.has /\ l.unknown = m.unknown /\ l.val[f] = v
        /\ \A g \in Fields \ {f} : l.val[g] = m.val[g]
    BY <1>2, <2>3 DEF Shaped
  <2>5. m.has \cup has_bits' \subseteq Fields
    BY <1>1, <2>1, <2>3 DEF IsMessage, MsgTypeInv, TypeOK, Numerics
  <2> HIDE DEF l
  <2>6. entry.value # Cut => \A g \in l.has \cup has_bits' : l.val[g] = sent.val[g]
    BY <1>2, <1>3, <2>1, <2>2, <2>3, <2>4, <2>5
  <2>7. ~touched =>
          /\ \A j \in 1 .. Len(class) : j <= pos => class[j] \in l.has \cup has_bits'
          /\ l.unknown = SubSeq(sent.unknown, 1, pos - Len(class))
    BY <1>1, <2>1, <2>3, <2>4, FieldReceived
  <2>8. obj' = [obj EXCEPT ![target] = l]
    BY <2>2 DEF l
  <2> QED
    BY <1>1, <2>6, <2>7, <2>8, ParserReceive
<1>5. CASE ReadText
  <2>1. PICK f \in Fields :
          Matches(f) /\ \E v \in ReadValue(f) : obj' = [obj EXCEPT ![target] = Set(m, f, v)]
    BY <1>5 DEF ReadText
  <2>2. PICK v \in ReadValue(f) : obj' = [obj EXCEPT ![target] = Set(m, f, v)]
    BY <2>1
  <2> DEFINE l == Set(m, f, v)
  <2>3. l.has = m.has \cup {f} /\ l.unknown = m.unknown
    <3>1. v \in Values(f)
      BY <1>1, <2>1, <2>2, ReadTyped
    <3> QED
      BY <1>1, <1>2, <3>1, SetMessage, SetHas
  <2>4. l.val[f] = v /\ \A g \in Fields \ {f} : l.val[g] = m.val[g]
    BY <1>2, SetHas
  <2>5. l.has \cup has_bits \subseteq Fields /\ has_bits' = has_bits
    BY <1>1, <1>5, <2>3 DEF IsMessage, MsgTypeInv, TypeOK, Numerics, ReadText
  <2> HIDE DEF l
  <2>6. entry.value # Cut => \A g \in l.has \cup has_bits' : l.val[g] = sent.val[g]
    BY <1>2, <1>3, <2>1, <2>2, <2>3, <2>4, <2>5
  <2>7. ~touched =>
          /\ \A j \in 1 .. Len(class) : j <= pos => class[j] \in l.has \cup has_bits'
          /\ l.unknown = SubSeq(sent.unknown, 1, pos - Len(class))
    BY <1>1, <2>1, <2>3, <2>5, FieldReceived
  <2>8. obj' = [obj EXCEPT ![target] = l]
    BY <2>2 DEF l
  <2> QED
    BY <1>1, <2>6, <2>7, <2>8, ParserReceive
<1>6. CASE ReadUnknown
  <2>1. has_bits' = has_bits /\ \A f \in Fields : ~Matches(f)
    BY <1>6 DEF ReadUnknown
  <2>2. CASE entry.value = Cut
    <3>1. obj' = [obj EXCEPT ![target] = m]
      BY <1>6, <2>2 DEF ReadUnknown, MsgTypeInv, TypeOK
    <3>2. touched
      BY <1>1, <2>2, UntouchedEntry DEF MsgTypeInv, TypeOK
    <3> QED
      BY <1>1, <2>2, <3>1, <3>2, ParserReceive
  <2>3. CASE entry.value # Cut
    <3> DEFINE l == [m EXCEPT !.unknown = Append(m.unknown, entry)]
    <3>1. obj' = [obj EXCEPT ![target] = l]
      BY <1>6, <2>3 DEF ReadUnknown
    <3>2. l.val = m.val /\ l.has = m.has /\ l.unknown = Append(m.unknown, entry)
      BY <1>2, ExceptOne
    <3> HIDE DEF l
    <3>3. ~touched =>
            /\ \A j \in 1 .. Len(class) : j <= pos => class[j] \in l.has \cup has_bits'
            /\ l.unknown = SubSeq(sent.unknown, 1, pos - Len(class))
      BY <1>1, <2>1, <3>2, UnknownReceived
    <3>4. \A f \in l.has \cup has_bits' : l.val[f] = sent.val[f]
      BY <1>2, <2>1, <3>2
    <3> QED
      BY <1>1, <3>1, <3>3, <3>4, ParserReceive
  <2> QED
    BY <2>2, <2>3
<1> QED
  BY <1>4, <1>5, <1>6

LEMMA EndReceive ==
  ASSUME MsgTypeInv, ReceiveInv, ParseEnd
  PROVE  ReceiveInv'
<1> DEFINE m == obj[target]
           all == m.has \cup has_bits
<1>1. /\ IsMessage(m) /\ IsMessage(sent) /\ class \in Classes /\ target \in Objects
      /\ UNCHANGED <<class, wire, target, sent, touched>> /\ pc' = "idle"
      /\ obj' = [obj EXCEPT ![target] = Collected(m)] /\ has_bits \subseteq Fields
  BY DEF ParseEnd, MsgTypeInv, TypeOK, Numerics
<1>2. Fields' = Fields
  BY <1>1 DEF Fields
<1>3. Serialize(sent)' = Serialize(sent) /\ IsInitialized(sent)' = IsInitialized(sent)
  BY <1>1, <1>2 DEF Serialize, Entry, IsInitialized
<1>4. obj'[target'] = [val |-> m.val, has |-> all, unknown |-> m.unknown]
  <2>1. obj'[target'] = Collected(m)
    BY <1>1 DEF MsgTypeInv, TypeOK
  <2>2. [m EXCEPT !.has = all] = [val |-> m.val, has |-> all, unknown |-> m.unknown]
    BY <1>1, MessageShaped, ExceptOne
  <2> QED
    BY <2>1, <2>2 DEF Collected
<1>5. result' = (IF pc = "entry" /\ all = Fields THEN "accepted" ELSE "refused")
  <2>1. obj'[target].has = all
    <3> HIDE DEF all
    <3> QED
      BY <1>1, <1>4
  <2>2. result' = IF pc = "entry" /\ IsInitialized(obj'[target]) THEN "accepted" ELSE "refused"
    BY DEF ParseEnd
  <2> QED
    BY <2>1, <2>2 DEF IsInitialized
<1>6. ASSUME pc = "entry", all = Fields
      PROVE  m.val = sent.val
  <2>1. \A f \in Fields : m.val[f] = sent.val[f]
    BY <1>6 DEF ReceiveInv, AsSent
  <2> QED
    BY <1>1, <2>1 DEF IsMessage
<1>7. ASSUME ~touched
      PROVE  pc = "entry" /\ all = Fields /\ m.unknown = sent.unknown
  <2>1. pc = "entry" /\ pos > Len(wire)
    BY <1>7 DEF ParseEnd, ReceiveInv
  <2>2. /\ Len(class) \in Nat /\ Len(sent.unknown) \in Nat
        /\ Len(wire) = Len(class) + Len(sent.unknown)
    BY <1>7, UntouchedWire
  <2>3. pos - 1 = Len(class) + Len(sent.unknown)
    BY <2>1, <2>2 DEF MsgTypeInv, TypeOK
  <2>4. Got(m, pos - 1)
    BY <1>7, <2>1 DEF ReceiveInv
  <2>5. \A j \in 1 .. Len(class) : class[j] \in all
    BY <2>2, <2>3, <2>4 DEF Got
  <2>6. all = Fields
    <3>1. \A f \in Fields : f \in all
      BY <1>1, <2>5, ClassFields
    <3> QED
      BY <1>1, <3>1 DEF IsMessage
  <2>7. m.unknown = SubSeq(sent.unknown, 1, Len(sent.unknown))
    <3>1. (pos - 1) - Len(class) = Len(sent.unknown)
      BY <2>2, <2>3
    <3> QED
      BY <2>4, <3>1 DEF Got
  <2> QED
    BY <1>1, <2>1, <2>6, <2>7, SubSeqFull DEF IsMessage
<1> HIDE DEF all
<1>8. result' = "accepted" => obj'[target'].val = sent'.val
  BY <1>1, <1>4, <1>5, <1>6
<1>9. ~touched' => result' = "accepted" /\ obj'[target'] = sent'
  <2> SUFFICES ASSUME ~touched PROVE result' = "accepted" /\ obj'[target'] = sent'
    BY <1>1
  <2>1. pc = "entry" /\ all = Fields /\ m.unknown = sent.unknown /\ m.val = sent.val
    BY <1>6, <1>7
  <2>2. sent.has = Fields
    BY DEF ReceiveInv, IsInitialized
  <2>3. sent = [val |-> sent.val, has |-> sent.has, unknown |-> sent.unknown]
    BY <1>1 DEF IsMessage
  <2> QED
    BY <1>1, <1>4, <1>5, <2>1, <2>2, <2>3
<1> QED
  BY <1>1, <1>3, <1>8, <1>9 DEF ReceiveInv, SentIsReceived

LEMMA ReceiveStep ==
  ASSUME MsgTypeInv, ReceiveInv, [MsgNext]_allVars
  PROVE  ReceiveInv'
<1>1. ASSUME NEW o \in Objects, NEW m, Becomes(o, m)
      PROVE  ReceiveInv'
  <2>1. o # target => obj'[target] = obj[target]
    BY <1>1 DEF Becomes, MsgTypeInv, TypeOK
  <2> QED
    BY <1>1, <2>1, ReceiveIdle DEF Becomes
<1>2. ASSUME NEW o \in Objects, NEW other \in Objects, Swap(o, other)
      PROVE  ReceiveInv'
  <2>1. target \notin {o, other} => obj'[target] = obj[target]
    BY <1>2 DEF Swap, MsgTypeInv, TypeOK
  <2> QED
    BY <1>2, <2>1, ReceiveIdle DEF Swap
<1>3. CASE Tamper
  BY <1>3 DEF Tamper, ReceiveInv, SentIsReceived
<1>4. CASE UNCHANGED vars
  <2>1. Fields' = Fields
    BY <1>4 DEF vars, Fields
  <2>2. Serialize(sent)' = Serialize(sent) /\ IsInitialized(sent)' = IsInitialized(sent)
    BY <1>4, <2>1 DEF vars, Serialize, Entry, IsInitialized
  <2> QED
    BY <1>4, <2>2 DEF vars, ReceiveInv, SentIsReceived, AsSent, Got
<1> QED
  BY <1>1, <1>2, <1>3, <1>4, MsgSteps, SerializeReceive, ParseFromReceive, ReadReceive,
     EndReceive DEF MsgTypeInv, Parse

(***************************************************************************)
(* A message that arrives as it was written, the entries of a later        *)
(* version of its class included, is accepted and equal to the one sent;   *)
(* one cut anywhere, or extended, is refused or has every field as sent.   *)
(***************************************************************************)
THEOREM MessagesAreReceived == MsgSpec => []SentIsReceived
<1>1. MsgInit => ReceiveInv
  BY DEF MsgInit, Init, ReceiveInv, SentIsReceived
<1>2. MsgTypeInv /\ ReceiveInv /\ [MsgNext]_allVars => ReceiveInv'
  BY ReceiveStep
<1>3. ReceiveInv => SentIsReceived
  BY DEF ReceiveInv
<1> QED
  BY <1>1, <1>2, <1>3, MsgTypeInvariant, PTL DEF MsgSpec
-----------------------------------------------------------------------------
(***************************************************************************)
(* Sums.  MapThenSumSet is defined by a recursive function on the subsets, *)
(* which takes out an element it chooses; h gives what is added up.        *)
(***************************************************************************)
Pick(u) == CHOOSE x \in u : TRUE

Adds(g, h, S) ==
  g = [u \in SUBSET S |-> IF u = {} THEN 0 ELSE h[Pick(u)] + g[u \ {Pick(u)}]]

\* Subsets of n elements at most.
Upto(S, n) == {u \in SUBSET S : Cardinality(u) <= n}

LEMMA PickFacts ==
  ASSUME NEW S, IsFiniteSet(S), NEW u \in SUBSET S, u # {}
  PROVE  /\ Pick(u) \in u /\ Pick(u) \in S /\ u \ {Pick(u)} \in SUBSET S
         /\ Cardinality(u) \in Nat /\ Cardinality(u \ {Pick(u)}) = Cardinality(u) - 1
<1>1. Pick(u) \in u
  BY DEF Pick
<1>2. IsFiniteSet(u)
  BY FS_Subset
<1> QED
  BY <1>1, <1>2, FS_RemoveElement, FS_CardinalityType

LEMMA AddsExists ==
  ASSUME NEW S, IsFiniteSet(S), NEW h
  PROVE  \E g : Adds(g, h, S)
<1> DEFINE Body(g, u) == IF u = {} THEN 0 ELSE h[Pick(u)] + g[u \ {Pick(u)}]
           P == {n \in Nat : \E g : g = [u \in Upto(S, n) |-> Body(g, u)]}
<1>1. 0 \in P
  <2> DEFINE g == [u \in Upto(S, 0) |-> 0]
  <2>1. ASSUME NEW u \in Upto(S, 0)
        PROVE  u = {}
    BY FS_Subset, FS_CardinalityType, FS_EmptySet DEF Upto
  <2>2. g = [u \in Upto(S, 0) |-> Body(g, u)]
    BY <2>1
  <2> HIDE DEF g
  <2> QED
    BY <2>2
<1>2. ASSUME NEW n \in P
      PROVE  n + 1 \in P
  <2>1. PICK g : g = [u \in Upto(S, n) |-> Body(g, u)]
    OBVIOUS
  <2> DEFINE k == [u \in Upto(S, n + 1) |-> Body(g, u)]
  <2>2. ASSUME NEW u \in Upto(S, n + 1), u # {}
        PROVE  k[u \ {Pick(u)}] = g[u \ {Pick(u)}]
    <3> DEFINE v == u \ {Pick(u)}
    <3>1. u \in SUBSET S /\ Cardinality(u) <= n + 1
      BY DEF Upto
    <3>2. v \in SUBSET S /\ Cardinality(u) \in Nat /\ Cardinality(v) = Cardinality(u) - 1
      BY <2>2, <3>1, PickFacts
    <3> HIDE DEF v
    <3>3. v \in Upto(S, n) /\ v \in Upto(S, n + 1)
      BY <3>1, <3>2 DEF Upto
    <3>4. k[v] = Body(g, v) /\ g[v] = Body(g, v)
      BY <2>1, <3>3
    <3> QED
      BY <3>4 DEF v
  <2>3. k = [u \in Upto(S, n + 1) |-> Body(k, u)]
    BY <2>2
  <2>4. n + 1 \in Nat
    OBVIOUS
  <2> HIDE DEF k
  <2> QED
    BY <2>3, <2>4
<1>3. P = Nat
  <2>1. P \in SUBSET Nat
    OBVIOUS
  <2> HIDE DEF P
  <2> QED
    BY <1>1, <1>2, <2>1, Induction
<1>4. Cardinality(S) \in P
  BY <1>3, FS_CardinalityType
<1>5. Upto(S, Cardinality(S)) = SUBSET S
  BY FS_Subset DEF Upto
<1> QED
  BY <1>4, <1>5 DEF Adds

\* The order of the additions does not matter: any element may be taken out.
TakesOut(g, h, S) ==
  \A u \in SUBSET S : g[u] \in Nat /\ \A x \in u : g[u] = h[x] + g[u \ {x}]

LEMMA AddsStep ==
  ASSUME NEW S, IsFiniteSet(S), NEW h \in [S -> Nat], NEW g, Adds(g, h, S)
  PROVE  TakesOut(g, h, S)
<1> DEFINE Good(v) == g[v] \in Nat /\ \A x \in v : g[v] = h[x] + g[v \ {x}]
           P == {n \in Nat : \A v \in SUBSET S : Cardinality(v) <= n => Good(v)}
<1>0. ASSUME NEW v \in SUBSET S
      PROVE  /\ g[v] = IF v = {} THEN 0 ELSE h[Pick(v)] + g[v \ {Pick(v)}]
             /\ IsFiniteSet(v) /\ Cardinality(v) \in Nat
             /\ (Cardinality(v) = 0) <=> (v = {})
             /\ \A x \in v : v \ {x} \in SUBSET S /\ Cardinality(v \ {x}) = Cardinality(v) - 1
  BY FS_Subset, FS_CardinalityType, FS_EmptySet, FS_RemoveElement DEF Adds
<1>1. 0 \in P
  <2>1. ASSUME NEW v \in SUBSET S, Cardinality(v) <= 0
        PROVE  Good(v)
    <3>1. v = {}
      <4>1. Cardinality(v) \in Nat
        BY <1>0
      <4>2. Cardinality(v) = 0
        BY <2>1, <4>1
      <4> QED
        BY <1>0, <4>2
    <3> QED
      BY <1>0, <3>1
  <2> QED
    BY <2>1
<1>2. ASSUME NEW n \in P
      PROVE  n + 1 \in P
  <2>1. n \in Nat /\ n + 1 \in Nat /\ \A v \in SUBSET S : Cardinality(v) <= n => Good(v)
    OBVIOUS
  <2>2. ASSUME NEW v \in SUBSET S, Cardinality(v) <= n + 1
        PROVE  Good(v)
    <3> DEFINE p == Pick(v)
    <3> HIDE DEF P
    <3>1. CASE v = {}
      BY <1>0, <3>1
    <3>2. CASE v # {}
      <4>1. p \in v /\ p \in S
        BY <3>2, PickFacts
      <4>2. g[v] = h[p] + g[v \ {p}]
        BY <1>0, <3>2
      <4> HIDE DEF p
      <4>3. ASSUME NEW x \in v
            PROVE  v \ {x} \in SUBSET S /\ Cardinality(v \ {x}) <= n
        <5>1. /\ v \ {x} \in SUBSET S /\ Cardinality(v \ {x}) = Cardinality(v) - 1
              /\ Cardinality(v) \in Nat
          BY <1>0
        <5> QED
          BY <2>1, <2>2, <5>1
      <4>4. \A x \in v : Good(v \ {x})
        BY <2>1, <4>3
      <4>5. g[v] \in Nat
        <5>1. h[p] \in Nat /\ Good(v \ {p})
          BY <4>1, <4>4
        <5>2. g[v \ {p}] \in Nat
          BY <5>1
        <5> QED
          BY <4>2, <5>1, <5>2
      <4>6. ASSUME NEW x \in v
            PROVE  g[v] = h[x] + g[v \ {x}]
        <5>1. CASE x = p
          BY <4>2, <5>1
        <5>2. CASE x # p
          <6> DEFINE r == (v \ {p}) \ {x}
          <6>1. g[v \ {p}] = h[x] + g[r]
            BY <4>1, <4>4, <5>2
          <6>2. g[v \ {x}] = h[p] + g[r]
            BY <4>1, <4>4, <5>2, (v \ {x}) \ {p} = r
          <6>3. g[r] \in Nat
            <7>1. v \ {p} \in SUBSET S /\ Cardinality(v \ {p}) <= n /\ x \in v \ {p}
              BY <4>1, <4>3, <5>2
            <7>2. /\ Cardinality(v \ {p}) \in Nat /\ r \in SUBSET S
                  /\ Cardinality(r) = Cardinality(v \ {p}) - 1
              BY <1>0, <7>1
            <7>3. r \in SUBSET S /\ Cardinality(r) <= n
              BY <2>1, <7>1, <7>2
            <7> QED
              BY <2>1, <7>3
          <6>4. h[x] \in Nat /\ h[p] \in Nat
            BY <4>1
          <6> HIDE DEF r
          <6> QED
            BY <4>2, <6>1, <6>2, <6>3, <6>4
        <5> QED
          BY <5>1, <5>2
      <4> QED
        BY <4>5, <4>6
    <3> QED
      BY <3>1, <3>2
  <2> QED
    BY <2>1, <2>2
<1>3. P = Nat
  <2>1. P \in SUBSET Nat
    OBVIOUS
  <2> HIDE DEF P
  <2> QED
    BY <1>1, <1>2, <2>1, Induction
<1>4. ASSUME NEW u \in SUBSET S
      PROVE  Good(u)
  <2>1. Cardinality(u) \in Nat
    BY <1>0
  <2>2. Cardinality(u) \in P
    BY <1>3, <2>1
  <2> QED
    BY <2>1, <2>2
<1> QED
  BY <1>4 DEF TakesOut

FieldTotal(m, S) == MapThenSumSet(LAMBDA f : FieldSize(m, f), S)

LEMMA FieldSum ==
  ASSUME NEW m, NEW S, IsFiniteSet(S), NEW h, h = [f \in S |-> FieldSize(m, f)]
  PROVE  \E g : Adds(g, h, S) /\ FieldTotal(m, S) = g[S]
<1> DEFINE Rec(g) == g = [u \in SUBSET S |->
                            IF u = {} THEN 0 ELSE FieldSize(m, Pick(u)) + g[u \ {Pick(u)}]]
           G == CHOOSE g : Rec(g)
<1>1. \A g : Rec(g) <=> Adds(g, h, S)
  <2>1. \A u \in SUBSET S : u # {} => h[Pick(u)] = FieldSize(m, Pick(u))
    BY PickFacts
  <2> QED
    BY <2>1 DEF Adds
<1>2. FieldTotal(m, S) = G[S]
  BY DEF FieldTotal, MapThenSumSet, MapThenFoldSet, Pick
<1>3. Rec(G)
  <2>1. \E g : Rec(g)
    BY <1>1, AddsExists
  <2> HIDE DEF Rec
  <2> QED
    BY <2>1
<1> QED
  BY <1>1, <1>2, <1>3

LEMMA WireSum ==
  ASSUME NEW w, IsFiniteSet(DOMAIN w),
         NEW h, h = [k \in DOMAIN w |-> EntrySize(w[k].type, w[k].value)]
  PROVE  \E g : Adds(g, h, DOMAIN w) /\ WireSize(w) = g[DOMAIN w]
<1> DEFINE S == DOMAIN w
           Rec(g) == g = [u \in SUBSET S |->
                            IF u = {} THEN 0
                            ELSE EntrySize(w[Pick(u)].type, w[Pick(u)].value) + g[u \ {Pick(u)}]]
           G == CHOOSE g : Rec(g)
<1>1. \A g : Rec(g) <=> Adds(g, h, S)
  <2>1. \A u \in SUBSET S : u # {} => h[Pick(u)] = EntrySize(w[Pick(u)].type, w[Pick(u)].value)
    BY PickFacts
  <2> QED
    BY <2>1 DEF Adds
<1>2. WireSize(w) = G[S]
  BY DEF WireSize, MapThenSumSet, MapThenFoldSet, Pick
<1>3. Rec(G)
  <2>1. \E g : Rec(g)
    BY <1>1, AddsExists
  <2> HIDE DEF Rec
  <2> QED
    BY <2>1
<1> QED
  BY <1>1, <1>2, <1>3
-----------------------------------------------------------------------------
(***************************************************************************)
(* The size of a message.  Serialize writes the fields that are set by     *)
(* their rank in the class; every one of them is written once.             *)
(***************************************************************************)
Present(m) == {k \in DOMAIN class : class[k] \in m.has}
Rank(m, k) == Cardinality({j \in Present(m) : j <= k})
Nth(m, i) == CHOOSE k \in Present(m) : Rank(m, k) = i

LEMMA RankFacts ==
  ASSUME class \in Classes, NEW m
  PROVE  /\ IsFiniteSet(Present(m)) /\ Present(m) \in SUBSET (1 .. Len(class))
         /\ \A k \in Present(m) : Rank(m, k) \in 1 .. Cardinality(Present(m))
         /\ \A j, k \in Present(m) : j < k => Rank(m, j) < Rank(m, k)
<1> DEFINE Q == Present(m)
           Low(k) == {j \in Q : j <= k}
<1>1. Len(class) \in Nat /\ DOMAIN class = 1 .. Len(class)
  BY ClassFields, LenProperties
<1>2. Q \in SUBSET (1 .. Len(class)) /\ IsFiniteSet(Q)
  <2>1. Q \in SUBSET (1 .. Len(class))
    BY <1>1 DEF Present
  <2>2. IsFiniteSet(1 .. Len(class))
    BY <1>1, FS_Interval
  <2> QED
    BY <2>1, <2>2, FS_Subset
<1> HIDE DEF Q
<1>3. \A k : IsFiniteSet(Low(k)) /\ Low(k) \in SUBSET Q
  BY <1>2, FS_Subset
<1>4. ASSUME NEW k \in Q
      PROVE  Cardinality(Low(k)) \in 1 .. Cardinality(Q)
  <2>1. k \in Low(k)
    BY <1>2
  <2> HIDE DEF Low
  <2>2. Cardinality(Low(k)) \in Nat /\ Cardinality(Low(k)) # 0 /\ Cardinality(Q) \in Nat
    BY <1>2, <1>3, <2>1, FS_CardinalityType, FS_EmptySet
  <2>3. Cardinality(Low(k)) <= Cardinality(Q)
    BY <1>2, <1>3, FS_Subset
  <2> QED
    BY <2>2, <2>3
<1>5. ASSUME NEW j \in Q, NEW k \in Q, j < k
      PROVE  Cardinality(Low(j)) < Cardinality(Low(k))
  <2>0. j \in Int /\ k \in Int /\ \A q \in Q : q \in Int
    BY <1>2
  <2>1. Low(j) \in SUBSET Low(k) /\ k \in Low(k) /\ k \notin Low(j)
    <3>1. k \in Low(k)
      BY <2>0
    <3>2. k \notin Low(j)
      BY <1>5, <2>0
    <3>3. ASSUME NEW q \in Low(j)
          PROVE  q \in Low(k)
      <4>1. q \in Q /\ q <= j
        OBVIOUS
      <4>2. q <= k
        BY <1>5, <2>0, <4>1
      <4> QED
        BY <4>1, <4>2
    <3> QED
      BY <3>1, <3>2, <3>3
  <2> HIDE DEF Low
  <2>2. /\ Cardinality(Low(j)) <= Cardinality(Low(k))
        /\ Cardinality(Low(k)) = Cardinality(Low(j)) => Low(k) = Low(j)
    BY <1>3, <2>1, FS_Subset
  <2>3. Cardinality(Low(j)) \in Nat /\ Cardinality(Low(k)) \in Nat
    BY <1>3, FS_CardinalityType
  <2> QED
    BY <2>1, <2>2, <2>3
<1> QED
  BY <1>2, <1>4, <1>5 DEF Rank, Q

LEMMA NthFacts ==
  ASSUME class \in Classes, NEW m, m.has \subseteq Fields,
         NEW c, c = Cardinality(Present(m))
  PROVE  /\ c \in Nat
         /\ \A i \in 1 .. c : Nth(m, i) \in 1 .. Len(class) /\ class[Nth(m, i)] \in m.has
         /\ \A i, j \in 1 .. c : class[Nth(m, i)] = class[Nth(m, j)] => i = j
         /\ m.has = {class[Nth(m, i)] : i \in 1 .. c}
<1> DEFINE Q == Present(m)
           rank == [k \in Q |-> Rank(m, k)]
<1>1. /\ IsFiniteSet(Q) /\ Q \in SUBSET (1 .. Len(class)) /\ Len(class) \in Nat
      /\ \A k \in Q : Rank(m, k) \in 1 .. c
      /\ \A j, k \in Q : j < k => Rank(m, j) < Rank(m, k)
  BY RankFacts, ClassFields
<1>2. c \in Nat /\ IsFiniteSet(1 .. c) /\ Cardinality(1 .. c) = c
  <2>1. c \in Nat
    BY <1>1, FS_CardinalityType
  <2>2. \A n \in Nat : IsFiniteSet(1 .. n) /\ Cardinality(1 .. n) = n
    <3> SUFFICES ASSUME NEW n \in Nat
                 PROVE  IsFiniteSet(1 .. n) /\ Cardinality(1 .. n) = n
      OBVIOUS
    <3>1. IsFiniteSet(1 .. n) /\ Cardinality(1 .. n) = IF 1 > n THEN 0 ELSE n - 1 + 1
      BY FS_Interval
    <3> QED
      BY <3>1
  <2> QED
    BY <2>1, <2>2
<1>3. ASSUME NEW j \in Q, NEW k \in Q, Rank(m, j) = Rank(m, k)
      PROVE  j = k
  <2>1. j \in Int /\ k \in Int /\ Rank(m, j) \in Int
    BY <1>1
  <2>2. ~(j < k) /\ ~(k < j)
    BY <1>1, <1>3, <2>1
  <2> QED
    BY <2>1, <2>2
<1>4. rank \in Injection(Q, 1 .. c)
  BY <1>1, <1>3 DEF Injection, IsInjective
<1>5. rank \in Surjection(Q, 1 .. c)
  <2> HIDE DEF rank
  <2>1. Cardinality(Q) = Cardinality(1 .. c)
    BY <1>2
  <2> HIDE DEF Q
  <2> QED
    BY <1>2, <1>4, <2>1, FS_Injection
<1>6. ASSUME NEW i \in 1 .. c
      PROVE  Nth(m, i) \in Q /\ Rank(m, Nth(m, i)) = i
  <2>1. \E k \in Q : Rank(m, k) = i
    BY <1>5 DEF Surjection
  <2> QED
    BY <2>1 DEF Nth
<1>7. \A k \in Q : class[k] \in m.has
  BY DEF Present
<1>8. ASSUME NEW f \in m.has
      PROVE  \E i \in 1 .. c : f = class[Nth(m, i)]
  <2>1. PICK k \in Q : f = class[k]
    BY DEF Fields, Range, Present
  <2>2. Rank(m, k) \in 1 .. c /\ Nth(m, Rank(m, k)) = k
    BY <1>1, <1>3, <1>6
  <2> QED
    BY <2>1, <2>2
<1> HIDE DEF Q, rank
<1>9. ASSUME NEW i \in 1 .. c, NEW j \in 1 .. c, class[Nth(m, i)] = class[Nth(m, j)]
      PROVE  i = j
  <2> DEFINE a == Nth(m, i)
             b == Nth(m, j)
  <2>1. a \in Q /\ b \in Q /\ Rank(m, a) = i /\ Rank(m, b) = j /\ class[a] = class[b]
    BY <1>6, <1>9
  <2> HIDE DEF a, b
  <2>2. a \in 1 .. Len(class) /\ b \in 1 .. Len(class) /\ a \in Int /\ b \in Int
    BY <1>1, <2>1
  <2>3. \A x, y \in 1 .. Len(class) : x < y => class[x].number < class[y].number
    BY ClassAssumption, ClassFields
  <2>4. class[a].number \in Int
    <3>1. class[a] \in Fields
      BY <2>2, ClassFields
    <3>2. \A h \in Fields : h.number \in 1 .. 15
      BY ClassAssumption DEF Fields
    <3> QED
      BY <3>1, <3>2
  <2>5. a = b
    BY <2>1, <2>2, <2>3, <2>4
  <2> QED
    BY <2>1, <2>5
<1>10. \A i \in 1 .. c : Nth(m, i) \in 1 .. Len(class) /\ class[Nth(m, i)] \in m.has
  BY <1>1, <1>6, <1>7
<1>11. m.has = {class[Nth(m, i)] : i \in 1 .. c}
  BY <1>8, <1>10
<1>12. \A i, j \in 1 .. c : class[Nth(m, i)] = class[Nth(m, j)] => i = j
  BY <1>9
<1>13. c \in Nat
  BY <1>2
<1> QED
  BY <1>10, <1>11, <1>12, <1>13

LEMMA SerializeIs ==
  ASSUME NEW m
  PROVE  Serialize(m) =
           [i \in 1 .. Cardinality(Present(m)) |-> Entry(m, class[Nth(m, i)])] \o m.unknown
BY DEF Serialize, Present, Nth, Rank

\* The running total p of the entries of s.
SizeOf(e) == EntrySize(e.type, e.value)

Running(p, s) ==
  /\ p \in [0 .. Len(s) -> Nat]
  /\ p[0] = 0
  /\ \A n \in 0 .. Len(s) - 1 : p[n + 1] = SizeOf(s[n + 1]) + p[n]

LEMMA RunningTotal ==
  ASSUME NEW S, NEW s \in Seq(S), \A e \in S : SizeOf(e) \in Nat
  PROVE  \E p : Running(p, s) /\ WireSize(s) = p[Len(s)]
<1> DEFINE N == Len(s)
           T == 1 .. N
           h == [k \in T |-> SizeOf(s[k])]
<1>1. N \in Nat /\ DOMAIN s = T /\ IsFiniteSet(T)
  BY LenProperties, FS_Interval
<1>2. h \in [T -> Nat]
  BY ElementOfSeq
<1>3. PICK g : Adds(g, h, T) /\ WireSize(s) = g[T]
  <2>1. h = [k \in DOMAIN s |-> EntrySize(s[k].type, s[k].value)]
    BY <1>1 DEF SizeOf
  <2> HIDE DEF h, T
  <2> QED
    BY <1>1, <2>1, WireSum
<1>4. TakesOut(g, h, T)
  <2> HIDE DEF h, T
  <2> QED
    BY <1>1, <1>2, <1>3, AddsStep
<1> DEFINE p == [n \in 0 .. N |-> g[1 .. n]]
<1>5. p \in [0 .. N -> Nat]
  <2>1. ASSUME NEW n \in 0 .. N
        PROVE  g[1 .. n] \in Nat
    <3>1. 1 .. n \in SUBSET T
      BY <1>1
    <3> QED
      BY <1>4, <3>1 DEF TakesOut
  <2> QED
    BY <2>1
<1>6. p[0] = 0
  <2>1. 1 .. 0 = {} /\ {} \in SUBSET T /\ 0 \in 0 .. N
    BY <1>1
  <2>2. g[{}] = 0
    BY <1>3, <2>1 DEF Adds
  <2> QED
    BY <2>1, <2>2
<1>7. ASSUME NEW n \in 0 .. N - 1
      PROVE  p[n + 1] = SizeOf(s[n + 1]) + p[n]
  <2> DEFINE u == 1 .. n + 1
             x == n + 1
  <2>1. u \in SUBSET T /\ x \in u /\ u \ {x} = 1 .. n /\ x \in T
    BY <1>1
  <2>2. p[x] = g[u] /\ p[n] = g[1 .. n] /\ h[x] = SizeOf(s[x])
    BY <1>1, <2>1
  <2> HIDE DEF u, x, T, h, p
  <2>3. g[u] = h[x] + g[u \ {x}]
    BY <1>4, <2>1 DEF TakesOut
  <2>4. p[x] = SizeOf(s[x]) + p[n]
    BY <2>1, <2>2, <2>3
  <2> QED
    BY <2>4 DEF x
<1>8. WireSize(s) = p[N]
  BY <1>1, <1>3
<1> HIDE DEF p
<1>9. Running(p, s)
  BY <1>5, <1>6, <1>7 DEF Running
<1> QED
  BY <1>8, <1>9

\* Appending b to a: the sum of both.
LEMMA WireSizeConcat ==
  ASSUME NEW S, NEW a \in Seq(S), NEW b \in Seq(S), \A e \in S : SizeOf(e) \in Nat
  PROVE  /\ WireSize(a) \in Nat /\ WireSize(b) \in Nat
         /\ WireSize(a \o b) = WireSize(a) + WireSize(b)
<1> DEFINE w == a \o b
           c == Len(a)
           N == Len(b)
<1>1. /\ w \in Seq(S) /\ c \in Nat /\ N \in Nat /\ Len(w) = c + N
      /\ \A k \in 1 .. c + N : w[k] = IF k <= c THEN a[k] ELSE b[k - c]
  BY ConcatProperties, LenProperties
<1>2. PICK p : Running(p, a) /\ WireSize(a) = p[c]
  BY RunningTotal
<1>3. PICK q : Running(q, b) /\ WireSize(b) = q[N]
  BY RunningTotal
<1>4. PICK r : Running(r, w) /\ WireSize(w) = r[c + N]
  <2> HIDE DEF w
  <2>1. \E r : Running(r, w) /\ WireSize(w) = r[Len(w)]
    BY <1>1, RunningTotal
  <2> QED
    BY <1>1, <2>1
<1>5. /\ p \in [0 .. c -> Nat] /\ p[0] = 0
      /\ \A n \in 0 .. c - 1 : p[n + 1] = SizeOf(a[n + 1]) + p[n]
  BY <1>2 DEF Running
<1>6. /\ q \in [0 .. N -> Nat] /\ q[0] = 0
      /\ \A n \in 0 .. N - 1 : q[n + 1] = SizeOf(b[n + 1]) + q[n]
  BY <1>3 DEF Running
<1>7. /\ r \in [0 .. c + N -> Nat] /\ r[0] = 0
      /\ \A n \in 0 .. c + N - 1 : r[n + 1] = SizeOf(w[n + 1]) + r[n]
  <2> HIDE DEF w, c, N
  <2> QED
    BY <1>1, <1>4 DEF Running
<1> HIDE DEF w, c, N
\* The first c entries add up to what those of a do,
<1>8. r[c] = p[c]
  <2> DEFINE P == {n \in Nat : n <= c => r[n] = p[n]}
  <2>1. 0 \in P
    BY <1>5, <1>7
  <2>2. ASSUME NEW n \in P
        PROVE  n + 1 \in P
    <3> SUFFICES ASSUME n + 1 <= c
                 PROVE  r[n + 1] = p[n + 1]
      OBVIOUS
    <3>1. /\ n \in Nat /\ n <= c /\ n \in 0 .. c - 1 /\ n \in 0 .. c + N - 1
          /\ n + 1 \in 1 .. c + N
      BY <1>1
    <3>2. r[n] = p[n] /\ w[n + 1] = a[n + 1]
      BY <1>1, <3>1
    <3> QED
      BY <1>5, <1>7, <3>1, <3>2
  <2>3. P \in SUBSET Nat
    OBVIOUS
  <2> HIDE DEF P
  <2>4. c \in P
    BY <1>1, <2>1, <2>2, <2>3, Induction
  <2> QED
    BY <1>1, <2>4 DEF P
\* and n more of them to that and what n of b do.
<1>9. r[c + N] = p[c] + q[N]
  <2> DEFINE P == {n \in Nat : n <= N => r[c + n] = p[c] + q[n]}
  <2>0. p[c] \in Nat
    BY <1>1, <1>5
  <2>1. 0 \in P
    <3>1. c + 0 = c
      BY <1>1
    <3> QED
      BY <1>6, <1>8, <2>0, <3>1
  <2>2. ASSUME NEW n \in P
        PROVE  n + 1 \in P
    <3> SUFFICES ASSUME n + 1 <= N
                 PROVE  r[c + (n + 1)] = p[c] + q[n + 1]
      OBVIOUS
    <3>1. /\ n \in Nat /\ n <= N /\ n \in 0 .. N /\ n \in 0 .. N - 1 /\ n + 1 \in 1 .. N
          /\ c + n \in 0 .. c + N - 1 /\ c + (n + 1) = (c + n) + 1
          /\ (c + n) + 1 \in 1 .. c + N /\ ~((c + n) + 1 <= c)
          /\ ((c + n) + 1) - c = n + 1
      BY <1>1
    <3>2. r[c + n] = p[c] + q[n] /\ w[(c + n) + 1] = b[n + 1]
      <4>1. w[(c + n) + 1] = b[((c + n) + 1) - c]
        BY <1>1, <3>1
      <4>2. r[c + n] = p[c] + q[n]
        BY <3>1
      <4> QED
        BY <3>1, <4>1, <4>2
    <3>3. r[(c + n) + 1] = SizeOf(w[(c + n) + 1]) + r[c + n]
      BY <1>7, <3>1
    <3>4. q[n + 1] = SizeOf(b[n + 1]) + q[n]
      BY <1>6, <3>1
    <3>5. SizeOf(b[n + 1]) \in Nat /\ q[n] \in Nat
      <4>1. b[n + 1] \in S
        BY <3>1, ElementOfSeq DEF N
      <4> QED
        BY <1>6, <3>1, <4>1
    <3> QED
      BY <2>0, <3>1, <3>2, <3>3, <3>4, <3>5
  <2>3. P \in SUBSET Nat
    OBVIOUS
  <2> HIDE DEF P
  <2>4. N \in P
    BY <1>1, <2>1, <2>2, <2>3, Induction
  <2> QED
    BY <1>1, <2>4 DEF P
<1>10. p[c] \in Nat /\ q[N] \in Nat
  BY <1>1, <1>5, <1>6
<1> QED
  BY <1>2, <1>3, <1>4, <1>9, <1>10 DEF w

\* The sum over the set fields, in whatever order, is that over their entries.
LEMMA FieldsAreWritten ==
  ASSUME class \in Classes, NEW m, IsMessage(m),
         NEW c, c = Cardinality(Present(m)),
         NEW a, a = [i \in 1 .. c |-> Entry(m, class[Nth(m, i)])]
  PROVE  WireSize(a) = FieldTotal(m, m.has)
<1> DEFINE S == {Entry(m, f) : f \in Fields}
           X(n) == {class[Nth(m, i)] : i \in 1 .. n}
           h == [f \in m.has |-> FieldSize(m, f)]
<1>1. m.has \subseteq Fields /\ \A f \in Fields : m.val[f] \in Values(f)
  BY DEF IsMessage
<1>2. /\ c \in Nat
      /\ \A i \in 1 .. c : Nth(m, i) \in 1 .. Len(class) /\ class[Nth(m, i)] \in m.has
      /\ \A i, j \in 1 .. c : class[Nth(m, i)] = class[Nth(m, j)] => i = j
      /\ m.has = X(c)
  BY <1>1, NthFacts
<1>3. \A f \in Fields : FieldSize(m, f) \in Nat /\ SizeOf(Entry(m, f)) = FieldSize(m, f)
  BY <1>1, SizeAssumption DEF Fields, FieldSize, SizeOf, Entry
<1>4. a \in Seq(S) /\ Len(a) = c /\ \A i \in 1 .. c : a[i] = Entry(m, class[Nth(m, i)])
  <2>1. a \in [1 .. c -> S]
    BY <1>1, <1>2
  <2> HIDE DEF S
  <2>2. a \in Seq(S)
    <3>1. c \in Nat
      BY <1>2
    <3> QED
      BY <2>1, <3>1, SeqDef, Zenon
  <2>3. Len(a) = c
    BY <1>2, <2>1, <2>2, LenProperties
  <2> QED
    BY <2>2, <2>3
<1>5. PICK p : Running(p, a) /\ WireSize(a) = p[c]
  <2>1. \A e \in S : SizeOf(e) \in Nat
    BY <1>3
  <2> HIDE DEF S
  <2> QED
    BY <1>4, <2>1, RunningTotal
<1>6. /\ p \in [0 .. c -> Nat] /\ p[0] = 0
      /\ \A n \in 0 .. c - 1 : p[n + 1] = SizeOf(a[n + 1]) + p[n]
  BY <1>4, <1>5 DEF Running
<1>7. IsFiniteSet(m.has)
  <2>1. IsFiniteSet(Fields)
    <3>1. IsFiniteSet(1 .. Len(class)) /\ Fields = {class[j] : j \in 1 .. Len(class)}
      <4>1. Len(class) \in Nat
        BY ClassFields
      <4>2. IsFiniteSet(1 .. Len(class))
        BY <4>1, FS_Interval
      <4> QED
        BY <4>2, ClassFields
    <3> DEFINE f == [j \in 1 .. Len(class) |-> class[j]]
    <3>2. f \in Surjection(1 .. Len(class), Fields)
      BY <3>1 DEF Surjection
    <3> HIDE DEF f
    <3> QED
      BY <3>1, <3>2, FS_Surjection
  <2> QED
    BY <1>1, <2>1, FS_Subset
<1>8. PICK g : Adds(g, h, m.has) /\ FieldTotal(m, m.has) = g[m.has]
  BY <1>7, FieldSum
<1>9. TakesOut(g, h, m.has)
  <2>1. h \in [m.has -> Nat]
    BY <1>1, <1>3
  <2> HIDE DEF h
  <2> QED
    BY <1>7, <1>8, <2>1, AddsStep
<1> DEFINE P == {n \in Nat : n <= c => p[n] = g[X(n)]}
<1>10. 0 \in P
  <2>1. X(0) = {} /\ {} \in SUBSET m.has
    OBVIOUS
  <2> HIDE DEF X
  <2>2. g[X(0)] = 0
    BY <1>8, <2>1 DEF Adds
  <2> QED
    BY <1>6, <2>2
<1>11. ASSUME NEW n \in P
       PROVE  n + 1 \in P
  <2> SUFFICES ASSUME n + 1 <= c
               PROVE  p[n + 1] = g[X(n + 1)]
    OBVIOUS
  <2>1. n \in Nat /\ n <= c /\ n \in 0 .. c - 1 /\ n + 1 \in 1 .. c /\ p[n] = g[X(n)]
    BY <1>2
  <2> DEFINE f == class[Nth(m, n + 1)]
  <2>2. f \in m.has /\ f \in X(n + 1) /\ X(n + 1) \in SUBSET m.has
    BY <1>2, <2>1
  <2>3. X(n + 1) \ {f} = X(n)
    <3>1. ASSUME NEW i \in 1 .. n
          PROVE  class[Nth(m, i)] # f /\ i \in 1 .. n + 1
      BY <1>2, <2>1
    <3>2. \A i \in 1 .. n + 1 : i = n + 1 \/ i \in 1 .. n
      BY <2>1
    <3> QED
      BY <3>1, <3>2
  <2>4. SizeOf(a[n + 1]) = FieldSize(m, f) /\ h[f] = FieldSize(m, f)
    BY <1>1, <1>3, <1>4, <2>1, <2>2
  <2>5. p[n + 1] = SizeOf(a[n + 1]) + p[n]
    BY <1>6, <2>1
  <2> HIDE DEF f, X, h
  <2>6. g[X(n + 1)] = h[f] + g[X(n + 1) \ {f}]
    BY <1>9, <2>2 DEF TakesOut
  <2> QED
    BY <2>1, <2>3, <2>4, <2>5, <2>6
<1>12. c \in P
  <2>1. P \in SUBSET Nat
    OBVIOUS
  <2> HIDE DEF P
  <2> QED
    BY <1>2, <1>10, <1>11, <2>1, Induction
<1>13. p[c] = g[X(c)]
  BY <1>2, <1>12
<1> QED
  BY <1>2, <1>5, <1>8, <1>13

LEMMA MessageSize ==
  ASSUME class \in Classes, NEW m, IsMessage(m)
  PROVE  ByteSizeLong(m) = WireSize(Serialize(m))
<1> DEFINE c == Cardinality(Present(m))
           a == [i \in 1 .. c |-> Entry(m, class[Nth(m, i)])]
           b == m.unknown
           S == {Entry(m, f) : f \in Fields} \cup Unknown
<1>1. Serialize(m) = a \o b
  BY SerializeIs
<1>2. /\ m.has \subseteq Fields /\ \A f \in Fields : m.val[f] \in Values(f)
      /\ b \in Seq(Unknown)
  BY DEF IsMessage
<1>3. a \in Seq(S) /\ b \in Seq(S)
  <2>1. c \in Nat /\ \A i \in 1 .. c : class[Nth(m, i)] \in m.has
    BY <1>2, NthFacts
  <2>2. a \in [1 .. c -> S]
    BY <1>2, <2>1
  <2>3. Unknown \subseteq S
    OBVIOUS
  <2> HIDE DEF a, b, c, S
  <2>4. a \in Seq(S)
    BY <2>1, <2>2, SeqDef
  <2>5. b \in Seq(S)
    BY <1>2, <2>3, SeqMonotonic
  <2> QED
    BY <2>4, <2>5
<1>4. \A e \in S : SizeOf(e) \in Nat
  BY <1>2, SizeAssumption DEF Fields, SizeOf, Entry
<1>5. WireSize(a) = FieldTotal(m, m.has)
  BY FieldsAreWritten
<1> HIDE DEF a, S
<1>6. WireSize(a \o b) = WireSize(a) + WireSize(b)
  BY <1>3, <1>4, WireSizeConcat
<1>7. ByteSizeLong(m) = FieldTotal(m, m.has) + WireSize(b)
  <2>1. CASE IsInitialized(m)
    <3>1. ByteSizeLong(m) = FieldTotal(m, Fields) + WireSize(b)
      BY <2>1 DEF ByteSizeLong, FieldTotal, MapThenSumSet, MapThenFoldSet
    <3>2. Fields = m.has
      BY <2>1 DEF IsInitialized
    <3> QED
      BY <3>1, <3>2
  <2>2. CASE ~IsInitialized(m)
    BY <2>2 DEF ByteSizeLong, RequiredFieldsByteSizeFallback, FieldTotal,
                MapThenSumSet, MapThenFoldSet
  <2> QED
    BY <2>1, <2>2
<1> QED
  BY <1>1, <1>5, <1>6, <1>7

(***************************************************************************)
(* ByteSizeLong is the number of bytes _InternalSerialize writes, for      *)
(* every message an object may hold: of any class, with any of its fields  *)
(* set, any values and any entries of a later version (NetDisk.pb.cc).     *)
(***************************************************************************)
THEOREM BufferFits == MsgSpec => []SizeIsExact
<1>1. TypeOK => SizeIsExact
  BY MessageSize DEF TypeOK, SizeIsExact
<1> QED
  BY <1>1, MessagesTypeCorrect, PTL
=============================================================================
