----------------------------- MODULE ClientList -----------------------------
(***************************************************************************)
(* The server's table of connected users (src/server/client_list.c).       *)
(*                                                                         *)
(* lista is an array of MAX_CLIENTS slots, of which the first num_clientes *)
(* have been used at some time; a slot whose activo flag is off is free    *)
(* and keeps what its last owner left in it.  mutex_lista protects both.   *)
(*                                                                         *)
(* Each cl_ function locks, works and unlocks without blocking in between, *)
(* so a call is one step that needs the mutex free.  The two find          *)
(* functions are called with the mutex held and are plain expressions.     *)
(***************************************************************************)
EXTENDS Integers, FiniteSetsExt, ChatProtocol

CONSTANTS
  MAX_CLIENTS,  \* size of the array
  Ips,          \* peer addresses
  Fds,          \* descriptors the process may hold for its clients
  Clip          \* what strncpy(.., 31) leaves of a name

ASSUME ListAssumption ==
  /\ MAX_CLIENTS \in Nat \ {0}
  /\ Fds \subseteq Nat \ {0}
  /\ Clip \in [Names \cup {""} -> Names \cup {""}]

\* What was cut once is short enough.
ASSUME ClipAssumption == \A n \in Names \cup {""} : Clip[Clip[n]] = Clip[n]

VARIABLES lista, num_clientes, mutex_lista

listVars == <<lista, num_clientes, mutex_lista>>

Slots == 0 .. MAX_CLIENTS - 1
Used == 0 .. num_clientes - 1
Unlocked == "unlocked"

Cliente ==
  [username : Names \cup {""}, ip : Ips \cup {""}, status : Statuses \cup {""},
   sockfd : Fds \cup {0}, activo : BOOLEAN, ultimo_mensaje : Nat]

Active == {i \in Used : lista[i].activo}

cl_init ==
  /\ lista = [i \in Slots |->
               [username |-> "", ip |-> "", status |-> "", sockfd |-> 0,
                activo |-> FALSE, ultimo_mensaje |-> 0]]
  /\ num_clientes = 0
  /\ mutex_lista = Unlocked

\* The loop's result: the first index that matches, or -1.
FirstOf(S) == IF S = {} THEN -1 ELSE Min(S)

\* Mutant: the loop ends one slot early.
cl_find_by_name_Short(username) ==
  FirstOf({i \in Active \ {num_clientes - 1} : lista[i].username = username})

cl_find_by_name(username) ==
  FirstOf({i \in Active : lista[i].username = username})

cl_find_by_fd(sockfd) ==
  FirstOf({i \in Active : lista[i].sockfd = sockfd})

-----------------------------------------------------------------------------

\* Mutant: addresses are not compared.
Taken_NameOnly(username, ip) ==
  \E i \in Active : lista[i].username = username

\* strcmp compares the whole name on the wire with the clipped one in the slot.
Taken(username, ip) ==
  \E i \in Active : lista[i].username = username \/ lista[i].ip = ip

\* What cl_add returns.
AddResult(username, ip) ==
  IF num_clientes >= MAX_CLIENTS THEN -2
  ELSE IF Taken(username, ip) THEN -1 ELSE 0

\* Mutant: the search for a hole forgets to look at activo.
FreeSlot_Any ==
  LET hole == FirstOf(Used)
  IN  IF hole < 0 THEN num_clientes ELSE hole

\* A hole left by a user who has gone, else the next slot.
FreeSlot ==
  LET hole == FirstOf(Used \ Active)
  IN  IF hole < 0 THEN num_clientes ELSE hole

cl_add(username, ip, sockfd, now, ret) ==
  /\ mutex_lista = Unlocked
  /\ ret = AddResult(username, ip)
  /\ IF ret = 0
     THEN /\ lista' = [lista EXCEPT ![FreeSlot] =
                        [username |-> Clip[username], ip |-> ip,
                         status |-> "ACTIVE", sockfd |-> sockfd,
                         activo |-> TRUE, ultimo_mensaje |-> now]]
          /\ num_clientes' = IF FreeSlot = num_clientes
                             THEN num_clientes + 1 ELSE num_clientes
     ELSE UNCHANGED <<lista, num_clientes>>
  /\ UNCHANGED mutex_lista

\* Mutant: idx > 0 for idx >= 0.
cl_remove_NotFirst(sockfd) ==
  /\ mutex_lista = Unlocked
  /\ LET idx == cl_find_by_fd(sockfd)
     IN  lista' = IF idx > 0 THEN [lista EXCEPT ![idx].activo = FALSE]
                             ELSE lista
  /\ UNCHANGED <<num_clientes, mutex_lista>>

\* Mutant: num_clientes counts the users instead of the slots used.
cl_remove_Counts(sockfd) ==
  /\ mutex_lista = Unlocked
  /\ LET idx == cl_find_by_fd(sockfd)
     IN  IF idx >= 0
         THEN /\ lista' = [lista EXCEPT ![idx].activo = FALSE]
              /\ num_clientes' = num_clientes - 1
         ELSE UNCHANGED <<lista, num_clientes>>
  /\ UNCHANGED mutex_lista

cl_remove(sockfd) ==
  /\ mutex_lista = Unlocked
  /\ LET idx == cl_find_by_fd(sockfd)
     IN  lista' = IF idx >= 0 THEN [lista EXCEPT ![idx].activo = FALSE]
                              ELSE lista
  /\ UNCHANGED <<num_clientes, mutex_lista>>

cl_set_status(username, new_status, ret) ==
  /\ mutex_lista = Unlocked
  /\ LET idx == cl_find_by_name(username)
     IN  /\ ret = IF idx >= 0 THEN 0 ELSE -1
         /\ lista' = IF idx >= 0
                     THEN [lista EXCEPT ![idx].status = new_status]
                     ELSE lista
  /\ UNCHANGED <<num_clientes, mutex_lista>>

\* Mutant: the caller is not told of the reactivation.
cl_touch_Silent(sockfd, now, reactivated) ==
  /\ mutex_lista = Unlocked
  /\ reactivated = FALSE
  /\ LET idx == cl_find_by_fd(sockfd)
     IN  lista' = IF idx < 0 THEN lista
                  ELSE [lista EXCEPT
                         ![idx].ultimo_mensaje = now,
                         ![idx].status = IF @ = "INACTIVE" THEN "ACTIVE" ELSE @]
  /\ UNCHANGED <<num_clientes, mutex_lista>>

cl_touch(sockfd, now, reactivated) ==
  /\ mutex_lista = Unlocked
  /\ LET idx == cl_find_by_fd(sockfd)
     IN  /\ reactivated = (idx >= 0 /\ lista[idx].status = "INACTIVE")
         /\ lista' = IF idx < 0 THEN lista
                     ELSE [lista EXCEPT
                            ![idx].ultimo_mensaje = now,
                            ![idx].status = IF reactivated THEN "ACTIVE" ELSE @]
  /\ UNCHANGED <<num_clientes, mutex_lista>>

\* cl_build_list and cl_get_info only read: a step of their own, a snapshot.
cl_read ==
  /\ mutex_lista = Unlocked
  /\ UNCHANGED listVars
=============================================================================
