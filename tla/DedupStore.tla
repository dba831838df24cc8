----------------------------- MODULE DedupStore -----------------------------
(***************************************************************************)
(* What the upload service promises, seen from outside: one copy of a file *)
(* for all users.  A file is published once and for ever, users come to    *)
(* own published files, and the count of a file grows by one at a time and *)
(* only when somebody owns it.                                             *)
(***************************************************************************)
EXTENDS Naturals

CONSTANTS Users, Signs

VARIABLES published,    \* files in the store
          owned,        \* <<user, file>>
          count         \* the reference of each file

vars == <<published, owned, count>>

Init ==
  /\ published = {} /\ owned = {}
  /\ count = [s \in Signs |-> 0]

Publish(s) ==
  /\ published' = published \cup {s}
  /\ UNCHANGED <<owned, count>>

Own(u, s) ==
  /\ s \in published
  /\ owned' = owned \cup {<<u, s>>}
  /\ UNCHANGED <<published, count>>

Count(s) ==
  /\ \E u \in Users : <<u, s>> \in owned
  /\ count' = [count EXCEPT ![s] = @ + 1]
  /\ UNCHANGED <<published, owned>>

Next == \E s \in Signs : Publish(s) \/ Count(s) \/ \E u \in Users : Own(u, s)

Spec == Init /\ [][Next]_vars
=============================================================================
