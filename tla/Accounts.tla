------------------------------ MODULE Accounts ------------------------------
(***************************************************************************)
(* What registration promises, seen from outside: a name is claimed once,  *)
(* gets its home directory after that, and then one client, and no other,  *)
(* is told that it has the name.  Nothing is ever taken back; an account   *)
(* may stay without a home for ever, and an owner without a message.       *)
(***************************************************************************)
CONSTANTS Clients, Names

VARIABLES account,      \* state of each name
          told          \* <<client, name>>: the client was told "Success"

vars == <<account, told>>

Init ==
  /\ account = [n \in Names |-> "free"]
  /\ told = {}

Claim(n) ==
  /\ account[n] = "free"
  /\ account' = [account EXCEPT ![n] = "claimed"]
  /\ UNCHANGED told

MakeHome(n) ==
  /\ account[n] = "claimed"
  /\ account' = [account EXCEPT ![n] = "ready"]
  /\ UNCHANGED told

Tell(c, n) ==
  /\ account[n] = "ready"
  /\ \A d \in Clients : <<d, n>> \notin told
  /\ told' = told \cup {<<c, n>>}
  /\ UNCHANGED account

Next == \E n \in Names : Claim(n) \/ MakeHome(n) \/ \E c \in Clients : Tell(c, n)

Spec == Init /\ [][Next]_vars
=============================================================================
