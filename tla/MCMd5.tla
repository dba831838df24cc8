------------------------------- MODULE MCMd5 -------------------------------
(* An instance of Md5 for TLC, with the real transform.                    *)
EXTENDS Md5, Md5Transform

From(first, n) == [j \in 1 .. n |-> first + j - 1]
abc == From(97, 3)
letters == From(65, 26) \o From(97, 26) \o From(48, 10)
digits(n) == [j \in 1 .. n |-> 48 + (j % 10)]

\* The texts of the RFC's test suite, and lengths around the boundaries.
MCPieces == {<<>>, abc, letters, From(97, 26)} \cup {digits(n) : n \in {1, 55, 64, 80, 130}}
MCGarbage == {[j \in 1 .. blocksize |-> 170]}

\* What RFC 1321 A.5 and md5sum print.
Known == {
  <<<<>>, <<212, 29, 140, 217, 143, 0, 178, 4, 233, 128, 9, 152, 236, 248, 66, 126>>>>,
  <<abc, <<144, 1, 80, 152, 60, 210, 79, 176, 214, 150, 63, 125, 40, 225, 127, 114>>>>,
  <<From(97, 26),
    <<195, 252, 211, 215, 97, 146, 228, 0, 125, 251, 73, 108, 202, 103, 225, 59>>>>,
  <<letters,
    <<209, 116, 171, 152, 210, 119, 217, 245, 165, 97, 28, 44, 159, 65, 157, 159>>>>,
  <<digits(80),
    <<87, 237, 244, 162, 43, 227, 201, 85, 172, 73, 218, 46, 33, 7, 182, 122>>>>}

(***************************************************************************)
(* hexdigest() of the texts of the RFC's test suite is what the RFC says,  *)
(* and so what md5sum says on the server.                                  *)
(***************************************************************************)
DigestIsKnown ==
  finalized => \A known \in Known : text = known[1] => hexdigest = known[2]
=============================================================================
