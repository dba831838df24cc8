------------------------- MODULE MCNetDiskMessages -------------------------
(* An instance of both messages for TLC.                                   *)
EXTENDS NetDiskMessages

MCClasses == {NetDiskRequest, NetDiskResponse}

\* Of the request only what SendPart varies has more than one value.
MCValues(f) ==
  CASE f.name \in {"res", "part_index"} -> {0, 1}
    [] f.name = "op_type" -> {0, 1}
    [] f.name = "shard" -> {0, 200}
    [] f.name = "file_name" -> {"", "n"}
    [] f.name \in {"part_sign", "file_sign", "usr"} -> {""}
    [] f = body -> {"", "failed", "op not support", "upload success"}
    [] f = req_body -> {"", "ab"}

\* A number nobody knows, and a known one of another type.
MCUnknown == {[number |-> 9, type |-> "varint", value |-> 200],
              [number |-> 2, type |-> "length", value |-> "z"]}
=============================================================================
