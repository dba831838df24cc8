-------------------------- MODULE NetDiskMessages --------------------------
(***************************************************************************)
(* The messages of NetDisk.proto and the code that fills them: doUploadFile *)
(* (long_connect/brpc_client.cpp) the request, NetDiskServiceImpl::Send    *)
(* (long_connect/long_connection.cpp) the response, for every op_type a    *)
(* client may ask for.  The objects are at the two ends of the connection. *)
(***************************************************************************)
EXTENDS ProtoMessage

CONSTANT Own        \* the object the program fills; it reads the others

ASSUME OwnAssumption == Own \in Objects

VARIABLE filled     \* what Own is filled for: "REQUEST", an op_type it answers,
                    \* or "none" once it was touched again

allVars == <<vars, filled>>

Field(name, number, kind) == [name |-> name, number |-> number, kind |-> kind]

(* NetDiskResponse *)
res        == Field("res", 1, "bool")
shard      == Field("shard", 2, "uint32")
part_index == Field("part_index", 3, "uint32")
file_name  == Field("file_name", 4, "string")
body       == Field("body", 6, "string")

NetDiskResponse == <<res, shard, part_index, file_name, body>>

(* NetDiskRequest *)
op_type      == Field("op_type", 1, "uint32")
req_shard    == Field("shard", 2, "uint32")
req_index    == Field("part_index", 3, "uint32")
part_sign    == Field("part_sign", 4, "string")
req_name     == Field("file_name", 5, "bytes")
file_sign    == Field("file_sign", 6, "string")
usr          == Field("usr", 7, "string")
req_body     == Field("body", 8, "bytes")

NetDiskRequest == <<op_type, req_shard, req_index, part_sign, req_name, file_sign, usr, req_body>>

\* What the program fills in are values of the fields.
ASSUME FilledAssumption ==
  /\ {0, 1} \subseteq Values(res) /\ 1 \in Values(op_type)
  /\ {"failed", "op not support", "upload success"} \subseteq Values(body)

\* What Do may leave in res and body.
Outcomes == {<<0, "failed">>, <<1, "file already in server, speed">>, <<1, "success">>}

Answered(m, out) == Set(Set(m, res, out[1]), body, out[2])

\* The switch over op_type: what response m may become.
Dispatched_NoRes(m, op) ==
  CASE op = "UPLOAD" -> {Answered(m, out) : out \in Outcomes}
    [] op = "DOWNLOAD" -> {m}
    [] OTHER -> {Set(m, body, "op not support")}
Dispatched(m, op) ==
  CASE op = "UPLOAD" -> {Answered(m, out) : out \in Outcomes}
    [] op = "DOWNLOAD" -> {m}
    [] OTHER -> {Answered(m, <<0, "op not support">>)}

\* A call of the service with a response fresh from its prototype.
Send(op) ==
  /\ class = NetDiskResponse /\ obj[Own] = New
  /\ \E n \in Values(file_name) : \E s \in Values(shard) : \E p \in Values(part_index) :
       LET echoed == Set(Set(Set(New, file_name, n), shard, s), part_index, p)
       IN  \E m \in Dispatched(echoed, op) :
             Becomes(Own, IF m.val[res] = 1 THEN Set(m, body, "upload success") ELSE m)
  /\ filled' = op

Ops == {"UPLOAD", "DOWNLOAD", "OTHER"}

\* What the setters of doUploadFile get for part p, with body b, of file n.
Argument(f, n, p, b) ==
  CASE f = op_type -> 1 [] f = req_name -> n [] f = req_index -> p [] f = req_body -> b
    [] OTHER -> CHOOSE v \in Values(f) : TRUE

SendPart ==
  /\ class = NetDiskRequest /\ obj[Own] = New
  /\ \E n \in Values(req_name) : \E p \in Values(req_index) : \E b \in Values(req_body) :
       Becomes(Own, [val     |-> [f \in Fields |-> Argument(f, n, p, b)],
                     has     |-> Fields,
                     unknown |-> <<>>])
  /\ filled' = "REQUEST"

MsgInit == Init /\ filled = "none"

MsgNext ==
  \/ \E op \in Ops : Send(op)
  \/ SendPart
  \/ Next /\ filled' = IF obj'[Own] = obj[Own] THEN filled ELSE "none"

MsgSpec == MsgInit /\ [][MsgNext]_allVars
-----------------------------------------------------------------------------
(***************************************************************************)
(* The request of an upload can be sent.  The response to a request the    *)
(* server handles, or knows not to handle, can be sent and says whether it *)
(* worked; the one to DOWNLOAD, whose branch is empty, misses required     *)
(* fields and never leaves the server.                                     *)
(***************************************************************************)
AnswerIsComplete ==
  LET m == obj[Own]
  IN  /\ filled = "REQUEST" => IsInitialized(m)
      /\ filled \in {"UPLOAD", "OTHER"} =>
           /\ IsInitialized(m)
           /\ m.val[res] = 1 <=> m.val[body] = "upload success"
      /\ filled = "OTHER" => m.val[res] = 0
      /\ filled = "DOWNLOAD" => ~IsInitialized(m)
=============================================================================
