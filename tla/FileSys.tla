------------------------------ MODULE FileSys ------------------------------
(***************************************************************************)
(* What FileSys::Write (code/src/file_sys.cpp) leaves in a file.  A file   *)
(* content and a request body are sequences of bytes; Nul is the byte that *)
(* ends a C string.                                                        *)
(*                                                                         *)
(* Three facts about Write decide what reaches the disk: the length is     *)
(* strlen of the body, so the body stops at its first Nul; the loop does   *)
(* not advance the source pointer, so every chunk repeats the first        *)
(* WRITE_LEN bytes; and the file is opened without O_TRUNC, so bytes of an *)
(* older and longer file survive behind the new ones.                      *)
(***************************************************************************)
EXTENDS Naturals, Sequences, FiniteSets

CONSTANT WRITE_LEN      \* #define WRITE_LEN 4096

ASSUME WriteLenAssumption == WRITE_LEN \in Nat \ {0}

Nul   == 0
Byte  == Nat
Empty == <<>>

StrLen_OneShort(str) == IF Len(str) = 0 THEN 0 ELSE Len(str) - 1

\* strlen(str.c_str()): the positions with no Nul at or before them.
StrLen(str) ==
  Cardinality({i \in 1 .. Len(str) : \A j \in 1 .. i : str[j] # Nul})

CStr(str) == SubSeq(str, 1, StrLen(str))

Emitted_Advancing(s) == s

\* The bytes the loop hands to write(), in order: chunks of WRITE_LEN that
\* all start at the beginning of s.
Emitted(s) == [i \in 1 .. Len(s) |-> s[((i - 1) % WRITE_LEN) + 1]]

\* Writing new from offset 0 over old without truncation.
Overlay(new, old) == new \o SubSeq(old, Len(new) + 1, Len(old))

\* Write(str, path) on a file that holds old.
Written(str, old) == Overlay(Emitted(CStr(str)), old)
=============================================================================
