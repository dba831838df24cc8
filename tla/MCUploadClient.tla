--------------------------- MODULE MCUploadClient ---------------------------
(* Instances of clients and upload service for TLC.                        *)
EXTENDS UploadClient

\* Every client runs as DEFAULT_USR.
MCUsrOf == [c \in Clients |-> CHOOSE u \in Users : TRUE]

\* The size is a multiple of MAX_SIZE_PER_SHARD: the second part is empty.
MCFile == <<1, 2>>
MCBehind == {<<7>>}
MCBodies == {<<1, 2, 7>>, <<7>>}

MCDescriptorsKill == {"opendir", "open", "popen", "mv", "kill"}
MCClientFaults == {"channel", "popen", "file"}
=============================================================================
