---------------------------- MODULE PortRegistry ----------------------------
(***************************************************************************)
(* What get_or_assign_gateway_port promises to the requests and cycles     *)
(* that call it, as if a call were one step: a user's only port, assigned  *)
(* on first use, that no other user has; and to delete_user, that the      *)
(* user's port is free again.  Gateway implements it (RegistrySpec there)  *)
(* with three statements a call, which interleave.                         *)
(***************************************************************************)
EXTENDS Integers

CONSTANTS Users, Threads, MaxPort, CarefulAdmin

VARIABLES
  known,    \* the users that exist
  lease,    \* user -> their port
  handed    \* thread -> whose port it was given and works with

vars == <<known, lease, handed>>

NoPort == 0
Ports == 1 .. MaxPort
Nothing == [port |-> NoPort]

Init ==
  /\ known = Users
  /\ lease = [u \in Users |-> NoPort]
  /\ handed = [t \in Threads |-> Nothing]

\* a status poll or a cycle asks as well, and keeps nothing here
Hand(u, port) ==
  \/ UNCHANGED handed
  \/ \E t \in Threads :
       /\ handed[t] = Nothing
       /\ handed' = [handed EXCEPT ![t] = [user |-> u, port |-> port]]

Look(u) ==
  /\ lease[u] # NoPort
  /\ Hand(u, lease[u])
  /\ UNCHANGED <<known, lease>>

Assign(u) ==
  /\ u \in known /\ lease[u] = NoPort
  /\ \E port \in Ports :
       /\ \A v \in Users : lease[v] # port
       /\ lease' = [lease EXCEPT ![u] = port]
       /\ Hand(u, port)
  /\ UNCHANGED known

Finish(t) ==
  /\ handed[t] # Nothing
  /\ handed' = [handed EXCEPT ![t] = Nothing]
  /\ UNCHANGED <<known, lease>>

\* a careful admin never takes a port that is being worked with
Delete(u) ==
  /\ u \in known
  /\ CarefulAdmin => \A t \in Threads : handed[t] = Nothing \/ handed[t].user # u
  /\ known' = known \ {u}
  /\ lease' = [lease EXCEPT ![u] = NoPort]
  /\ UNCHANGED handed

Next ==
  \/ \E u \in Users : Look(u) \/ Assign(u) \/ Delete(u)
  \/ \E t \in Threads : Finish(t)

Spec == Init /\ [][Next]_vars

=============================================================================
