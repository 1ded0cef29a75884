------------------------------ MODULE Presence ------------------------------
(***************************************************************************)
(* What the server promises about who is connected, without threads,       *)
(* slots, descriptors or locks: the promise made by README.md ("thread-    *)
(* safety", one user per name) and by the comments of client_list.h.       *)
(*                                                                         *)
(* A user joins when there is room and no other member has its name or its *)
(* address, is ACTIVE then, has its status changed while a member, and     *)
(* leaves once for all.  Every step concerns one user.                     *)
(***************************************************************************)
EXTENDS Naturals, FiniteSets

CONSTANTS Users, Name, Address, Status, Capacity

VARIABLE member  \* a status, or "out" before joining and "left" afterwards

Members == {u \in Users : member[u] \in Status}

Init == member = [u \in Users |-> "out"]

Join(u) ==
  /\ member[u] = "out"
  /\ Cardinality(Members) < Capacity
  /\ \A v \in Members : Name[v] # Name[u] /\ Address[v] # Address[u]
  /\ member' = [member EXCEPT ![u] = "ACTIVE"]

Change(u) ==
  /\ u \in Members
  /\ \E s \in Status : member' = [member EXCEPT ![u] = s]

Leave(u) ==
  /\ u \in Members
  /\ member' = [member EXCEPT ![u] = "left"]

Next == \E u \in Users : Join(u) \/ Change(u) \/ Leave(u)

Spec == Init /\ [][Next]_member
=============================================================================
