---------------------------- MODULE MCUploadRpc ----------------------------
(* Instances of the upload service for TLC.                                *)
EXTENDS UploadRpc, TLC

\* A part as the client cuts it (MAX_SIZE_PER_SHARD is 2), and a shorter one
\* as another run of the client may send for the same part.
MCOneBody == {<<1, 2>>}
MCTwoBodies == {<<1, 2>>, <<3>>}

MCAllFaults == FaultKinds
\* Failures that Do detects and answers with res = false.
MCNoticed == {"mkdir", "open", "symlink", "sql"}

MCSymmetry == Permutations(Handlers) \cup Permutations(Users)
=============================================================================
