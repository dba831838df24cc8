---------------------------- MODULE MCWriteLoop ----------------------------
(* Bodies over two byte values and Nul, up to three chunks long.           *)
EXTENDS WriteLoop

MaxLen == 5

Strings(bytes, n) == UNION {[1 .. m -> bytes] : m \in 0 .. n}

MCBodies == Strings({1, 2}, MaxLen) \cup {<<1, Nul, 2>>, <<Nul>>}
MCOldFiles == {Empty, <<3>>, <<3, 3, 3>>, <<3, 3, 3, 3, 3, 3>>}

\* Bodies as the client produces them: no Nul inside.
MCPlainBodies == Strings({1, 2}, MaxLen)
=============================================================================
