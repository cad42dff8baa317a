--------------------------- MODULE IdentityLease ---------------------------
(***************************************************************************)
(* What the operator promises about identities, seen from outside: an      *)
(* identity is leased to one node at a time, only the node that has it     *)
(* runs with it, and it comes back only once no node runs with it.         *)
(* IdentityLock implements this specification (LeaseSpec there).           *)
(***************************************************************************)
CONSTANTS
  Hoprds,      \* names of Hoprd nodes
  Identities,  \* names of identities
  NoName       \* no name at all

VARIABLES
  holder,  \* the node each identity is leased to
  user     \* the identity each node runs with

vars == <<holder, user>>

Init ==
  /\ holder = [i \in Identities |-> NoName]
  /\ user = [h \in Hoprds |-> NoName]

Lease(h, i) ==
  /\ holder[i] = NoName
  /\ holder' = [holder EXCEPT ![i] = h]
  /\ UNCHANGED user

\* A node starts to run with an identity that it has, and only with that.
Start(h, i) ==
  /\ holder[i] = h
  /\ user[h] \in {NoName, i}
  /\ user' = [user EXCEPT ![h] = i]
  /\ UNCHANGED holder

Stop(h) ==
  /\ user' = [user EXCEPT ![h] = NoName]
  /\ UNCHANGED holder

Return(i) ==
  /\ \A h \in Hoprds : user[h] # i
  /\ holder' = [holder EXCEPT ![i] = NoName]
  /\ UNCHANGED user

Next ==
  \/ \E h \in Hoprds, i \in Identities : Lease(h, i) \/ Start(h, i)
  \/ \E h \in Hoprds : Stop(h)
  \/ \E i \in Identities : Return(i)

Spec == Init /\ [][Next]_vars
=============================================================================
