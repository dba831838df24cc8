--------------------------- MODULE MCShortServer ---------------------------
(* Instances of the short-connection server for TLC.                       *)
EXTENDS ShortServer

\* What clientMain sends, and what else reaches an open port.
MCServed == {"register", "other", "illtyped", "garbage"}
MCDocumented == {"register", "login"}
MCAllFaults == {"sql", "mkdir", "kill"}
=============================================================================
