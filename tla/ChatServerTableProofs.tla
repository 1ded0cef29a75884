----------------------- MODULE ChatServerTableProofs -----------------------
(***************************************************************************)
(* The mutex, the slots and the sessions: who holds the first, and that    *)
(* the other two correspond.                                               *)
(***************************************************************************)
EXTENDS ChatServerProofs

-----------------------------------------------------------------------------
\* The inductive invariant

\* Where a thread is inside a critical section; where its slot is gone, and
\* where it still has one.
Holding == {"sending", "passing", "telling"}
Gone == {"close", "announce", "telling", "done"}
Live == ThreadPCs \ (Gone \cup {"none"})

(***************************************************************************)
(* A slot's descriptor is the socket of the session the slot describes, no *)
(* two slots have the same, and every session has one.                     *)
(***************************************************************************)
Entries ==
  /\ \A i \in Active :
       /\ lista[i].sockfd \in Fds /\ Owner(i) \in Conns
       /\ Registered(Owner(i))
       /\ lista[i].username = Clip[NameOf[Owner(i)]]
       /\ lista[i].ip = IpOf[Owner(i)]
  /\ \A i, j \in Active : lista[i].sockfd = lista[j].sockfd => i = j
  /\ \A c \in Conns : Registered(c) => \E i \in Active : Owner(i) = c

\* No name is longer than a slot keeps.
NamesFit == \A n \in Names : Clip[n] = n

Distinct ==
  \A i, j \in Active : i # j =>
    /\ lista[i].ip # lista[j].ip
    /\ NamesFit => lista[i].username # lista[j].username

TableInv == BasicInv /\ MutexProtects /\ Entries /\ Distinct

-----------------------------------------------------------------------------
\* What the operations do to the slots in use

\* The same slots are in use, for the same users.
SameEntries ==
  /\ Active' = Active
  /\ \A i \in Active : /\ lista'[i].sockfd = lista[i].sockfd
                       /\ lista'[i].username = lista[i].username
                       /\ lista'[i].ip = lista[i].ip

LEMMA NoChange ==
  ASSUME UNCHANGED <<lista, num_clientes>>
  PROVE  SameEntries
BY DEF SameEntries, Active, Used

\* A field that is not one of these may change in any slot.
LEMMA OtherFields ==
  ASSUME ListTypeOK, ListTypeOK', num_clientes' = num_clientes,
         \A i \in Slots : /\ lista'[i].activo = lista[i].activo
                          /\ lista'[i].sockfd = lista[i].sockfd
                          /\ lista'[i].username = lista[i].username
                          /\ lista'[i].ip = lista[i].ip
  PROVE  SameEntries
<1>1. Used \subseteq Slots /\ Used' = Used
  BY ActiveSlots DEF ListTypeOK, Used
<1>2. Active' = Active
  BY <1>1 DEF Active
<1>3. Active \subseteq Slots
  BY ActiveSlots DEF ListTypeOK
<1> QED
  BY <1>2, <1>3 DEF SameEntries

LEMMA SetStatusEntries ==
  ASSUME ListTypeOK, NEW u, NEW s \in Statuses, NEW ret, cl_set_status(u, s, ret)
  PROVE  SameEntries
<1> DEFINE idx == cl_find_by_name(u)
<1>1. CASE idx >= 0
  <2>1. idx \in Slots
    BY <1>1, Finds DEF ListTypeOK
  <2>2. lista' = [lista EXCEPT ![idx].status = s] /\ num_clientes' = num_clientes
    BY <1>1 DEF cl_set_status
  <2> HIDE DEF idx
  <2>3. \A i \in Slots : /\ lista'[i].activo = lista[i].activo
                         /\ lista'[i].sockfd = lista[i].sockfd
                         /\ lista'[i].username = lista[i].username
                         /\ lista'[i].ip = lista[i].ip
    BY <2>1, <2>2 DEF ListTypeOK, Cliente
  <2> QED
    BY <2>2, <2>3, OtherFields, SetStatusTypes
<1>2. CASE ~(idx >= 0)
  BY <1>2, NoChange DEF cl_set_status
<1> QED
  BY <1>1, <1>2

LEMMA TouchEntries ==
  ASSUME ListTypeOK, NEW fd, NEW now \in Nat, NEW re, cl_touch(fd, now, re)
  PROVE  SameEntries
<1> DEFINE idx == cl_find_by_fd(fd)
<1>0. idx \in Int
  BY Finds DEF ListTypeOK
<1>1. CASE idx >= 0
  <2>1. idx \in Slots
    BY <1>1, Finds DEF ListTypeOK
  <2>2. /\ lista' = [lista EXCEPT ![idx].ultimo_mensaje = now,
                                  ![idx].status = IF re THEN "ACTIVE" ELSE @]
        /\ num_clientes' = num_clientes
    BY <1>0, <1>1 DEF cl_touch
  <2> HIDE DEF idx
  <2>3. PICK s : lista' = [lista EXCEPT ![idx].ultimo_mensaje = now, ![idx].status = s]
    <3>1. CASE re
      BY <2>2, <3>1
    <3>2. CASE ~re
      <4>1. lista' = [lista EXCEPT ![idx].ultimo_mensaje = now,
                                   ![idx].status = lista[idx].status]
        BY <2>1, <2>2, <3>2 DEF ListTypeOK
      <4> QED
        BY <4>1
    <3> QED
      BY <3>1, <3>2
  <2>4. \A i \in Slots : /\ lista'[i].activo = lista[i].activo
                         /\ lista'[i].sockfd = lista[i].sockfd
                         /\ lista'[i].username = lista[i].username
                         /\ lista'[i].ip = lista[i].ip
    BY <2>1, <2>3 DEF ListTypeOK, Cliente
  <2> QED
    BY <2>2, <2>4, OtherFields, TouchTypes
<1>2. CASE ~(idx >= 0)
  BY <1>0, <1>2, NoChange DEF cl_touch
<1> QED
  BY <1>1, <1>2

\* cl_remove takes a descriptor's slot out of use, and no other.
LEMMA RemoveEntries ==
  ASSUME ListTypeOK, NEW fd, cl_remove(fd),
         \A i, j \in Active : lista[i].sockfd = lista[j].sockfd => i = j
  PROVE  /\ Active' = {i \in Active : lista[i].sockfd # fd}
         /\ \A i \in Active' : lista'[i] = lista[i]
         /\ mutex_lista = Unlocked /\ mutex_lista' = mutex_lista
<1> DEFINE idx == cl_find_by_fd(fd)
<1>0. num_clientes' = num_clientes /\ mutex_lista = Unlocked /\ mutex_lista' = mutex_lista
  BY DEF cl_remove
<1>a. Used \subseteq Slots /\ Used' = Used /\ idx \in Int
  BY <1>0, ActiveSlots, Finds DEF ListTypeOK, Used
<1>1. CASE idx >= 0
  <2>1. idx \in Active /\ idx \in Slots /\ lista[idx].sockfd = fd
    BY <1>1, Finds DEF ListTypeOK
  <2>2. lista' = [lista EXCEPT ![idx].activo = FALSE]
    BY <1>1 DEF cl_remove
  <2> HIDE DEF idx
  <2>3. /\ lista'[idx].activo = FALSE
        /\ \A i \in Slots \ {idx} : lista'[i] = lista[i]
    BY <2>1, <2>2 DEF ListTypeOK, Cliente
  <2>4. Active' = Active \ {idx}
    BY <1>a, <2>3 DEF Active
  <2>5. \A i \in Active : lista[i].sockfd = fd <=> i = idx
    BY <2>1
  <2>6. Active \subseteq Slots
    BY ActiveSlots DEF ListTypeOK
  <2> QED
    BY <1>0, <2>3, <2>4, <2>5, <2>6
<1>2. CASE ~(idx >= 0)
  <2>1. lista' = lista /\ \A i \in Active : lista[i].sockfd # fd
    BY <1>a, <1>2, Finds DEF cl_remove, ListTypeOK
  <2> QED
    BY <1>0, <1>a, <2>1 DEF Active
<1> QED
  BY <1>1, <1>2

\* cl_add puts one more slot to use, and touches no other in use.
LEMMA AddEntries ==
  ASSUME ListTypeOK, NEW u \in Names, NEW ip \in Ips, NEW fd \in Fds,
         NEW now \in Nat, cl_add(u, ip, fd, now, 0)
  PROVE  /\ ~Taken(u, ip)
         /\ FreeSlot \notin Active /\ Active' = Active \cup {FreeSlot}
         /\ \A i \in Active : lista'[i] = lista[i]
         /\ lista'[FreeSlot].username = Clip[u] /\ lista'[FreeSlot].ip = ip
         /\ lista'[FreeSlot].sockfd = fd /\ lista'[FreeSlot].status = "ACTIVE"
         /\ lista'[FreeSlot].ultimo_mensaje = now
<1>0. num_clientes \in 0 .. MAX_CLIENTS /\ MAX_CLIENTS \in Nat
  BY MaxClients DEF ListTypeOK
<1>1. AddResult(u, ip) = 0
  BY Zenon DEF cl_add
<1>2. num_clientes < MAX_CLIENTS /\ num_clientes + 1 \in 0 .. MAX_CLIENTS /\ ~Taken(u, ip)
  BY <1>0, <1>1, Room
<1>3. FreeSlot \in Slots /\ FreeSlot \notin Active /\ (FreeSlot \in Used \/ FreeSlot = num_clientes)
  BY <1>0, <1>2, FreeSlotFree
<1> DEFINE r == [username |-> Clip[u], ip |-> ip, status |-> "ACTIVE",
                 sockfd |-> fd, activo |-> TRUE, ultimo_mensaje |-> now]
           s == FreeSlot
<1>4. /\ lista' = [lista EXCEPT ![s] = r]
      /\ num_clientes' = IF s = num_clientes THEN num_clientes + 1 ELSE num_clientes
  BY DEF cl_add
<1>5. /\ r.activo /\ r.username = Clip[u] /\ r.ip = ip /\ r.sockfd = fd
      /\ r.status = "ACTIVE" /\ r.ultimo_mensaje = now
  OBVIOUS
<1> HIDE DEF r, s
<1>6. s \in Slots /\ s \notin Active /\ (s \in Used \/ s = num_clientes)
  BY <1>3 DEF s
<1>7. lista'[s] = r /\ \A i \in Slots \ {s} : lista'[i] = lista[i]
  BY <1>4, <1>6 DEF ListTypeOK
<1>8. Used' = Used \cup {s} /\ Used \subseteq Slots
  <2>1. CASE s = num_clientes
    BY <1>0, <1>4, <2>1, ActiveSlots DEF Used
  <2>2. CASE s # num_clientes
    BY <1>0, <1>4, <1>6, <2>2, ActiveSlots DEF Used
  <2> QED
    BY <2>1, <2>2
<1>9. Active' = Active \cup {s}
  BY <1>5, <1>7, <1>8 DEF Active
<1>10. \A i \in Active : i \in Slots \ {s}
  BY <1>6, <1>8 DEF Active
<1> QED
  BY <1>2, <1>5, <1>6, <1>7, <1>9, <1>10 DEF s

LEMMA EntriesFrame ==
  ASSUME Entries, SameEntries,
         \A i \in Active : descr'[lista[i].sockfd] = descr[lista[i].sockfd],
         \A c \in Conns : Registered(c)' <=> Registered(c)
  PROVE  Entries'
<1>1. Active' = Active /\ \A i \in Active : Owner(i)' = Owner(i)
  BY DEF SameEntries, Owner
<1>2. \A i \in Active :
        /\ lista'[i].sockfd = lista[i].sockfd
        /\ lista'[i].username = lista[i].username /\ lista'[i].ip = lista[i].ip
  BY DEF SameEntries
<1>3. \A i \in Active' :
        /\ lista'[i].sockfd \in Fds /\ Owner(i)' \in Conns
        /\ Registered(Owner(i))'
        /\ lista'[i].username = Clip[NameOf[Owner(i)']]
        /\ lista'[i].ip = IpOf[Owner(i)']
  <2>1. ASSUME NEW i \in Active PROVE Registered(Owner(i))'
    <3>1. Owner(i) \in Conns /\ Registered(Owner(i)) /\ Owner(i)' = Owner(i)
      BY <1>1 DEF Entries
    <3>2. PICK c \in Conns : c = Owner(i) /\ Registered(c) /\ Owner(i)' = c
      BY <3>1
    <3>3. Registered(c)'
      BY <3>2
    <3> QED
      BY <3>2, <3>3 DEF Registered
  <2> QED
    BY <1>1, <1>2, <2>1 DEF Entries
<1>4. \A c \in Conns : Registered(c)' => \E i \in Active' : Owner(i)' = c
  BY <1>1 DEF Entries
<1>5. \A i, j \in Active' : lista'[i].sockfd = lista'[j].sockfd => i = j
  BY <1>1, <1>2 DEF Entries
<1> QED
  BY <1>3, <1>4, <1>5 DEF Entries

-----------------------------------------------------------------------------
\* How a client's thread enters and leaves its critical sections

\* A thread leaves the life with a slot by cl_remove and not otherwise, and
\* is between Lock and Unlock exactly when its step says so.
LEMMA ThreadMoves ==
  ASSUME Basics, NEW c \in Conns, ClientThread(c)
  PROVE  /\ th[c].pc \in Live <=> th'[c].pc \in Live \/ Remove(c)
         /\ Remove(c) => th[c].pc \in Live /\ th'[c].pc = "close"
         /\ \/ /\ mutex_lista = Unlocked /\ mutex_lista' = c
               /\ th[c].pc \notin Holding /\ th'[c].pc \in Holding
            \/ /\ mutex_lista' = Unlocked
               /\ th[c].pc \in Holding /\ th'[c].pc \notin Holding
            \/ /\ mutex_lista' = mutex_lista
               /\ th[c].pc \in Holding <=> th'[c].pc \in Holding
<1> DEFINE Lives == th[c].pc \in Live /\ th'[c].pc \in Live
           Dies == th[c].pc \in Gone /\ th'[c].pc \in Gone
           Apart == ~Remove(c)
           Takes == /\ mutex_lista = Unlocked /\ mutex_lista' = c
                    /\ th[c].pc \notin Holding /\ th'[c].pc \in Holding
           Releases == /\ mutex_lista' = Unlocked
                       /\ th[c].pc \in Holding /\ th'[c].pc \notin Holding
           Keeps == /\ mutex_lista' = mutex_lista
                    /\ th[c].pc \in Holding <=> th'[c].pc \in Holding
           Goal == /\ th[c].pc \in Live <=> th'[c].pc \in Live \/ Remove(c)
                   /\ Remove(c) => th[c].pc \in Live /\ th'[c].pc = "close"
                   /\ Takes \/ Releases \/ Keeps
<1>0. th \in [Conns -> Threads] /\ th[c] \in Threads
  BY DEF Basics, TypeOK
<1>a. \A cmd : HandlerOf(cmd) \in {"broadcast", "direct", "status", "list", "info",
                                   "logout", "recv"}
  BY DEF HandlerOf
<1>b. Live \cap Gone = {}
  BY DEF Live
<1>e. ASSUME NEW p, NEW o, th' = [th EXCEPT ![c].pc = p, ![c].out = o]
      PROVE  th'[c].pc = p
  <2>1. th'[c] = [th[c] EXCEPT !.pc = p, !.out = o]
    BY <1>0, <1>e
  <2> QED
    BY <1>0, <2>1 DEF Threads
<1>f. ASSUME NEW p, NEW i, NEW o, th' = [th EXCEPT ![c].pc = p, ![c].i = i, ![c].out = o]
      PROVE  th'[c].pc = p
  <2>1. th'[c] = [th[c] EXCEPT !.pc = p, !.i = i, !.out = o]
    BY <1>0, <1>f
  <2> QED
    BY <1>0, <2>1 DEF Threads
<1>g. ASSUME Next_packet(c) PROVE th'[c].pc = "recv"
  BY <1>0, <1>g DEF Next_packet, Threads
<1>h. ASSUME NEW p, Goto(c, p) PROVE th'[c].pc = p
  BY <1>0, <1>h DEF Goto, Threads
<1>c. Lives /\ Apart /\ (Takes \/ Releases \/ Keeps) => Goal
  OBVIOUS
<1>d. Dies /\ Apart /\ (Takes \/ Releases \/ Keeps) => Goal
  BY <1>b
<1>1. CASE Recv(c)
  <2>1. th[c].pc = "recv" /\ mutex_lista' = mutex_lista
    BY <1>1 DEF Recv, listVars
  <2>2. th'[c].pc \in {"touch", "broadcast", "direct", "status", "list", "info",
                       "logout", "recv"}
    <3>1. PICK pkt : th' = [th EXCEPT ![c].pkt = pkt, ![c].pc =
                             IF pkt.command \in Activity THEN "touch"
                             ELSE HandlerOf(pkt.command)]
      BY <1>1 DEF Recv
    <3>2. th'[c].pc = IF pkt.command \in Activity THEN "touch"
                      ELSE HandlerOf(pkt.command)
      BY <1>0, <3>1 DEF Threads
    <3> QED
      BY <1>a, <3>2
  <2>3. Lives /\ Keeps /\ Apart
    BY <2>1, <2>2 DEF Live, Gone, Holding, ThreadPCs, Remove
  <2> QED
    BY <1>c, <2>3
<1>2. CASE Touch(c) \/ Notice(c)
  <2>1. th[c].pc \in {"touch", "notice"} /\ mutex_lista' = mutex_lista
    BY <1>2 DEF Touch, Notice, cl_touch, listVars
  <2>2. th'[c].pc \in {"notice", "broadcast", "direct", "status", "list", "info",
                       "logout", "recv"}
    <3>1. CASE Touch(c)
      <4>1. PICK p \in {"notice", HandlerOf(th[c].pkt.command)} : Goto(c, p)
        BY <3>1 DEF Touch
      <4> QED
        BY <1>a, <1>h, <4>1
    <3>2. CASE Notice(c)
      BY <1>a, <1>h, <3>2 DEF Notice
    <3> QED
      BY <1>2, <3>1, <3>2
  <2>3. Lives /\ Keeps /\ Apart
    BY <2>1, <2>2 DEF Live, Gone, Holding, ThreadPCs, Remove
  <2> QED
    BY <1>c, <2>3
<1>3. CASE RecvFails(c)
  <2>1. th[c].pc = "recv" /\ th'[c].pc = "resolve" /\ mutex_lista' = mutex_lista
    BY <1>0, <1>3 DEF RecvFails, Goto, listVars, Threads
  <2>2. Lives /\ Keeps /\ Apart
    BY <2>1 DEF Live, Gone, Holding, ThreadPCs, Remove
  <2> QED
    BY <1>c, <2>2
<1>4. CASE HandleBroadcast(c)
  <2>1. /\ th[c].pc = "broadcast" /\ th'[c].pc = "sending"
        /\ mutex_lista = Unlocked /\ mutex_lista' = c
    BY <1>0, <1>4 DEF HandleBroadcast, Lock, Threads
  <2>2. Lives /\ Takes /\ Apart
    BY <2>1 DEF Live, Gone, Holding, ThreadPCs, Remove
  <2> QED
    BY <1>c, <2>2
<1>5. CASE SendNext(c)
  <2>1. /\ th[c].pc \in {"sending", "telling"} /\ th'[c].pc = th[c].pc
        /\ mutex_lista' = mutex_lista
    BY <1>0, <1>5 DEF SendNext, listVars, Threads
  <2>2. (Lives \/ Dies) /\ Keeps /\ Apart
    BY <2>1 DEF Live, Gone, Holding, ThreadPCs, Remove
  <2> QED
    BY <1>c, <1>d, <2>2
<1>6. CASE BroadcastDone(c) \/ DirectSend(c)
  <2>1. /\ th[c].pc \in {"sending", "passing"} /\ th'[c].pc = "recv"
        /\ mutex_lista' = Unlocked
    BY <1>6, <1>g DEF BroadcastDone, DirectSend, Unlock
  <2>2. Lives /\ Releases /\ Apart
    BY <2>1 DEF Live, Gone, Holding, ThreadPCs, Remove
  <2> QED
    BY <1>c, <2>2
<1>7. CASE HandleDirect(c)
  <2>1. CASE cl_find_by_name(th[c].pkt.target) >= 0
    <3>1. /\ th[c].pc = "direct" /\ mutex_lista = Unlocked /\ mutex_lista' = c
          /\ \E i, o : th' = [th EXCEPT ![c].pc = "passing", ![c].i = i, ![c].out = o]
      BY <1>7, <2>1 DEF HandleDirect, Lock
    <3>2. th'[c].pc = "passing"
      BY <3>1, <1>f
    <3>3. Lives /\ Takes /\ Apart
      BY <3>1, <3>2 DEF Live, Gone, Holding, ThreadPCs, Remove
    <3> QED
      BY <1>c, <3>3
  <2>2. CASE ~(cl_find_by_name(th[c].pkt.target) >= 0)
    <3>1. /\ th[c].pc = "direct" /\ mutex_lista' = mutex_lista
          /\ \E o : th' = [th EXCEPT ![c].pc = "reply", ![c].out = o]
      BY <1>7, <2>2 DEF HandleDirect, Answer
    <3>2. th'[c].pc = "reply"
      BY <3>1, <1>e
    <3>3. Lives /\ Keeps /\ Apart
      BY <3>1, <3>2 DEF Live, Gone, Holding, ThreadPCs, Remove
    <3> QED
      BY <1>c, <3>3
  <2> QED
    BY <2>1, <2>2
<1>8. CASE HandleStatus(c) \/ HandleList(c) \/ HandleInfo(c)
  <2>1. /\ th[c].pc \in {"status", "list", "info"} /\ mutex_lista' = mutex_lista
        /\ \E o : th' = [th EXCEPT ![c].pc = "reply", ![c].out = o]
    BY <1>8 DEF HandleStatus, HandleList, HandleInfo, Answer, cl_set_status, cl_read, listVars
  <2>2. th'[c].pc = "reply"
    BY <2>1, <1>e
  <2>3. Lives /\ Keeps /\ Apart
    BY <2>1, <2>2 DEF Live, Gone, Holding, ThreadPCs, Remove
  <2> QED
    BY <1>c, <2>3
<1>9. CASE HandleLogout(c)
  <2>1. th[c].pc = "logout" /\ th'[c].pc = "reply" /\ mutex_lista' = mutex_lista
    BY <1>0, <1>9 DEF HandleLogout, listVars, Threads
  <2>2. Lives /\ Keeps /\ Apart
    BY <2>1 DEF Live, Gone, Holding, ThreadPCs, Remove
  <2> QED
    BY <1>c, <2>2
<1>10. CASE Reply(c)
  <2>1. th[c].pc = "reply" /\ mutex_lista' = mutex_lista
    BY <1>10 DEF Reply, listVars
  <2>2. th'[c].pc \in {"resolve", "recv"}
    BY <1>10, <1>g, <1>h DEF Reply
  <2>3. Lives /\ Keeps /\ Apart
    BY <2>1, <2>2 DEF Live, Gone, Holding, ThreadPCs, Remove
  <2> QED
    BY <1>c, <2>3
<1>11. CASE ResolveName(c)
  <2>1. /\ th[c].pc = "resolve" /\ mutex_lista' = mutex_lista
        /\ \/ th' = [th EXCEPT ![c].pc = "remove"]
           \/ \E u : th' = [th EXCEPT ![c].pc = "remove", ![c].username = u]
    BY <1>11 DEF ResolveName, Goto, listVars
  <2>2. th'[c].pc = "remove"
    BY <1>0, <2>1 DEF Threads
  <2>3. Lives /\ Keeps /\ Apart
    BY <2>1, <2>2 DEF Live, Gone, Holding, ThreadPCs, Remove
  <2> QED
    BY <1>c, <2>3
<1>12. CASE Remove(c)
  <2>1. th[c].pc = "remove" /\ th'[c].pc = "close" /\ mutex_lista' = mutex_lista
    BY <1>0, <1>12 DEF Remove, cl_remove, Goto, Threads
  <2> QED
    BY <1>12, <2>1 DEF Live, Gone, Holding, ThreadPCs
<1>13. CASE Close(c)
  <2>1. /\ th[c].pc = "close" /\ th'[c].pc \in {"announce", "done"}
        /\ mutex_lista' = mutex_lista
    BY <1>0, <1>13 DEF Close, Goto, listVars, Threads
  <2>2. Dies /\ Keeps /\ Apart
    BY <2>1 DEF Gone, Holding, Remove
  <2> QED
    BY <1>d, <2>2
<1>14. CASE NotifyDisconnect(c)
  <2>1. /\ th[c].pc = "announce" /\ th'[c].pc = "telling"
        /\ mutex_lista = Unlocked /\ mutex_lista' = c
    BY <1>0, <1>14 DEF NotifyDisconnect, Lock, Threads
  <2>2. Dies /\ Takes /\ Apart
    BY <2>1 DEF Gone, Holding, Remove
  <2> QED
    BY <1>d, <2>2
<1>15. CASE NotifyDone(c)
  <2>1. th[c].pc = "telling" /\ th'[c].pc = "done" /\ mutex_lista' = Unlocked
    BY <1>0, <1>15 DEF NotifyDone, Unlock, NoThread
  <2>2. Dies /\ Releases /\ Apart
    BY <2>1 DEF Gone, Holding, Remove
  <2> QED
    BY <1>d, <2>2
<1> QED
  BY <1>1, <1>2, <1>3, <1>4, <1>5, <1>6, <1>7, <1>8, <1>9, <1>10, <1>11, <1>12,
     <1>13, <1>14, <1>15 DEF ClientThread

\* Only cl_remove changes who has a slot, and it waits for the mutex.
LEMMA ThreadEntries ==
  ASSUME Basics, NEW c \in Conns, ClientThread(c), ~Remove(c)
  PROVE  SameEntries
<1>0. ListTypeOK /\ clock \in Nat
  BY DEF Basics, TypeOK, ListTypeOK
<1>1. CASE Touch(c)
  BY <1>0, <1>1, TouchEntries DEF Touch
<1>2. CASE HandleStatus(c)
  <2>1. th[c].pkt.payload \in Statuses
    BY <1>2, RequestFields DEF HandleStatus, Serving
  <2> QED
    BY <1>0, <1>2, <2>1, SetStatusEntries DEF HandleStatus
<1>3. CASE ~Touch(c) /\ ~HandleStatus(c)
  <2>1. UNCHANGED <<lista, num_clientes>>
    BY <1>3 DEF ClientThread, listVars, Recv, RecvFails, Notice, HandleBroadcast,
      SendNext, BroadcastDone, HandleDirect, DirectSend, HandleList, HandleInfo,
      HandleLogout, Reply, ResolveName, Close, NotifyDisconnect, NotifyDone, cl_read
  <2> QED
    BY <2>1, NoChange
<1> QED
  BY <1>1, <1>2, <1>3

\* The slot a direct message goes to is one that is in use.
LEMMA ThreadPasses ==
  ASSUME Basics, NEW c \in Conns, ClientThread(c), th'[c].pc = "passing"
  PROVE  HandleDirect(c) /\ th'[c].i \in Active
<1>0. th \in [Conns -> Threads] /\ th[c] \in Threads /\ ListTypeOK
  BY DEF Basics, TypeOK, ListTypeOK
<1>a. \A cmd : HandlerOf(cmd) # "passing"
  BY DEF HandlerOf
<1>b. ASSUME NEW p, Goto(c, p) PROVE th'[c].pc = p
  BY <1>0, <1>b DEF Goto, Threads
<1>c. ASSUME NEW o, Answer(c, o) PROVE th'[c].pc = "reply"
  <2>1. th'[c] = [th[c] EXCEPT !.pc = "reply", !.out = o]
    BY <1>0, <1>c DEF Answer
  <2> QED
    BY <1>0, <2>1 DEF Threads
<1>d. ASSUME Next_packet(c) PROVE th'[c].pc = "recv"
  BY <1>0, <1>d DEF Next_packet, Threads
<1>1. CASE Recv(c)
  <2>1. PICK pkt : th' = [th EXCEPT ![c].pkt = pkt, ![c].pc =
                           IF pkt.command \in Activity THEN "touch"
                           ELSE HandlerOf(pkt.command)]
    BY <1>1 DEF Recv
  <2>2. th'[c].pc = IF pkt.command \in Activity THEN "touch" ELSE HandlerOf(pkt.command)
    BY <1>0, <2>1 DEF Threads
  <2> QED
    BY <1>a, <2>2
<1>2. CASE Touch(c)
  <2>1. PICK p \in {"notice", HandlerOf(th[c].pkt.command)} : Goto(c, p)
    BY <1>2 DEF Touch
  <2> QED
    BY <1>a, <1>b, <2>1
<1>3. CASE Notice(c) \/ RecvFails(c) \/ Remove(c)
  BY <1>a, <1>b, <1>3 DEF Notice, RecvFails, Remove
<1>4. CASE Close(c)
  <2>1. PICK p \in {"announce", "done"} : Goto(c, p)
    BY <1>4 DEF Close
  <2> QED
    BY <1>b, <2>1
<1>5. CASE BroadcastDone(c) \/ DirectSend(c) \/ Reply(c)
  BY <1>b, <1>d, <1>5 DEF BroadcastDone, DirectSend, Reply
<1>6. CASE HandleStatus(c) \/ HandleList(c) \/ HandleInfo(c)
  BY <1>c, <1>6 DEF HandleStatus, HandleList, HandleInfo
<1>7. CASE HandleDirect(c)
  <2> DEFINE idx == cl_find_by_name(th[c].pkt.target)
  <2>1. CASE idx >= 0
    <3>1. idx \in Active
      BY <1>0, <2>1, Finds DEF ListTypeOK
    <3>2. PICK o : th' = [th EXCEPT ![c].pc = "passing", ![c].i = idx, ![c].out = o]
      BY <1>7, <2>1 DEF HandleDirect
    <3> HIDE DEF idx
    <3>3. th'[c] = [th[c] EXCEPT !.pc = "passing", !.i = idx, !.out = o]
      BY <1>0, <3>2
    <3>4. th'[c].i = idx
      BY <1>0, <3>3 DEF Threads
    <3> QED
      BY <1>7, <3>1, <3>4
  <2>2. CASE ~(idx >= 0)
    BY <1>7, <1>c, <2>2 DEF HandleDirect
  <2> QED
    BY <2>1, <2>2
<1>8. CASE HandleBroadcast(c) \/ NotifyDisconnect(c)
  <2>1. PICK p \in {"sending", "telling"} :
          \E o : th' = [th EXCEPT ![c].pc = p, ![c].i = 0, ![c].out = o]
    BY <1>8 DEF HandleBroadcast, NotifyDisconnect
  <2>2. PICK o : th' = [th EXCEPT ![c].pc = p, ![c].i = 0, ![c].out = o]
    BY <2>1
  <2>3. th'[c] = [th[c] EXCEPT !.pc = p, !.i = 0, !.out = o]
    BY <1>0, <2>2
  <2>4. th'[c].pc = p
    BY <1>0, <2>3 DEF Threads
  <2> QED
    BY <2>4
<1>9. CASE SendNext(c) \/ HandleLogout(c) \/ NotifyDone(c)
  <2>1. CASE SendNext(c)
    BY <1>0, <2>1 DEF SendNext, Threads
  <2>2. CASE HandleLogout(c)
    <3>1. PICK u, o :
            th' = [th EXCEPT ![c].pc = "reply", ![c].username = u, ![c].out = o]
      BY <2>2 DEF HandleLogout
    <3>2. th'[c] = [th[c] EXCEPT !.pc = "reply", !.username = u, !.out = o]
      BY <1>0, <3>1
    <3> QED
      BY <1>0, <3>2 DEF Threads
  <2>3. CASE NotifyDone(c)
    BY <1>0, <2>3 DEF NotifyDone, NoThread
  <2> QED
    BY <1>9, <2>1, <2>2, <2>3
<1>10. CASE ResolveName(c)
  <2>1. \/ th' = [th EXCEPT ![c].pc = "remove"]
        \/ \E u : th' = [th EXCEPT ![c].pc = "remove", ![c].username = u]
    BY <1>10 DEF ResolveName, Goto
  <2> QED
    BY <1>0, <2>1 DEF Threads
<1> QED
  BY <1>1, <1>2, <1>3, <1>4, <1>5, <1>6, <1>7, <1>8, <1>9, <1>10 DEF ClientThread

LEMMA ThreadKeepsMutex ==
  ASSUME Basics, MutexProtects, Entries, NEW c \in Conns, ClientThread(c)
  PROVE  MutexProtects'
<1>0. /\ c # Monitor /\ Unlocked \notin Conns /\ Unlocked # Monitor /\ mon' = mon
      /\ \A d \in Conns : (mutex_lista = d) <=> (th[d].pc \in Holding)
      /\ (mutex_lista = Monitor) <=> (mon.pc \in {"scan", "tell"})
  <2>1. /\ Monitor \notin Conns /\ Unlocked \notin Conns /\ Unlocked # Monitor
    BY ServerAssumption DEF Monitor, Unlocked
  <2>2. mon' = mon
    BY DEF ClientThread
  <2> QED
    BY <2>1, <2>2 DEF MutexProtects, Holding
<1>1. \A d \in Conns \ {c} : th'[d] = th[d]
  BY ThreadFrame
<1>2. \A d \in Conns : (mutex_lista' = d) <=> (th'[d].pc \in Holding)
  BY <1>0, <1>1, ThreadMoves
<1>3. (mutex_lista' = Monitor) <=> (mon'.pc \in {"scan", "tell"})
  BY <1>0, ThreadMoves
<1>4. mutex_lista # Unlocked => Active' = Active
  <2>1. CASE Remove(c)
    BY <2>1 DEF Remove, cl_remove
  <2>2. CASE ~Remove(c)
    BY <2>2, ThreadEntries DEF SameEntries
  <2> QED
    BY <2>1, <2>2
<1>5. ASSUME NEW d \in Conns, th'[d].pc = "passing" PROVE th'[d].i \in Active'
  <2>1. CASE d = c
    <3>1. HandleDirect(c) /\ th'[c].i \in Active
      BY <1>5, <2>1, ThreadPasses
    <3>2. Active' = Active
      BY <3>1 DEF HandleDirect, Active, Used
    <3> QED
      BY <2>1, <3>1, <3>2
  <2>2. CASE d # c
    <3>1. th[d].pc = "passing" /\ th'[d].i = th[d].i /\ th[d].i \in Active
      BY <1>1, <1>5, <2>2 DEF MutexProtects
    <3>2. mutex_lista = d /\ d # Unlocked
      BY <1>0, <3>1 DEF Holding
    <3> QED
      BY <1>4, <3>1, <3>2
  <2> QED
    BY <2>1, <2>2
<1>6. mon'.pc = "tell" => mon'.i \in Active'
  BY <1>0, <1>4 DEF MutexProtects
<1> QED
  BY <1>2, <1>3, <1>5, <1>6 DEF MutexProtects, Holding

\* A session whose thread removes its slot ends with it.
LEMMA ThreadKeepsEntries ==
  ASSUME Basics, Entries, NEW c \in Conns, ClientThread(c)
  PROVE  Entries'
<1>0. /\ acc' = acc /\ (acc.pc # "accept" => Peer' = Peer /\ Peer # c)
      /\ \A d \in Conns \ {c} : th'[d] = th[d]
      /\ th \in [Conns -> Threads] /\ ListTypeOK
  BY ThreadFrame, ThreadKeepsPeer DEF ClientThread, Basics, TypeOK, ListTypeOK
<1>1. /\ \A d \in Conns : Registered(d) <=>
           (acc.pc \in {"answer", "check"} /\ acc.rc = 0 /\ Peer = d)
             \/ th[d].pc \notin Gone \cup {"none"}
      /\ \A d \in Conns : Registered(d)' <=>
           (acc'.pc \in {"answer", "check"} /\ acc'.rc = 0 /\ Peer' = d)
             \/ th'[d].pc \notin Gone \cup {"none"}
  BY DEF Registered, Gone
<1>2. /\ th[c].pc \in Live <=> th[c].pc \notin Gone \cup {"none"}
      /\ th'[c].pc \in Live <=> th'[c].pc \notin Gone \cup {"none"}
  <2>1. th[c].pc \in ThreadPCs
    BY <1>0 DEF Threads
  <2>2. th'[c].pc \in ThreadPCs
    <3>1. th' \in [Conns -> Threads]
      BY ThreadRecords
    <3> QED
      BY <3>1 DEF Threads
  <2> QED
    BY <2>1, <2>2 DEF Live
<1>3. \A d \in Conns \ {c} : Registered(d)' <=> Registered(d)
  BY <1>0, <1>1
<1>4. CASE ~Remove(c)
  <2>1. Registered(c)' <=> Registered(c)
    BY <1>0, <1>1, <1>2, <1>4, ThreadMoves
  <2>2. \A d \in Conns : Registered(d)' <=> Registered(d)
    BY <1>3, <2>1
  <2>3. \A i \in Active : descr'[lista[i].sockfd] = descr[lista[i].sockfd]
    <3>1. CASE UNCHANGED descr
      BY <3>1
    <3>2. CASE Close(c) /\ descr' = [descr EXCEPT ![th[c].sockfd] = NoConn]
      <4>1. descr[th[c].sockfd] = c /\ th[c].pc = "close"
        BY <3>2 DEF Close, Basics, DescriptorsOwned, OpenThreads, ThreadPCs
      <4>2. ~Registered(c)
        BY <1>0, <1>1, <4>1 DEF Gone
      <4>3. \A i \in Active : lista[i].sockfd # th[c].sockfd
        BY <4>1, <4>2 DEF Entries, Owner
      <4>4. descr \in [Fds -> Conns \cup {NoConn}]
        BY DEF Basics, TypeOK
      <4> QED
        BY <3>2, <4>3, <4>4 DEF Entries
    <3> QED
      BY <3>1, <3>2, ThreadDescr
  <2> QED
    BY <1>4, <2>2, <2>3, ThreadEntries, EntriesFrame
<1>5. CASE Remove(c)
  <2>1. /\ cl_remove(th[c].sockfd) /\ UNCHANGED descr
        /\ th[c].sockfd \in Fds /\ descr[th[c].sockfd] = c
    BY <1>5 DEF Remove, Basics, DescriptorsOwned, OpenThreads, ThreadPCs
  <2>2. /\ Active' = {i \in Active : lista[i].sockfd # th[c].sockfd}
        /\ \A i \in Active' : lista'[i] = lista[i]
    BY <1>0, <2>1, RemoveEntries DEF Entries
  <2>3. ~Registered(c)'
    BY <1>0, <1>1, <1>5, ThreadMoves DEF Gone
  <2>4. \A i \in Active : lista[i].sockfd # th[c].sockfd <=> Owner(i) # c
    <3>1. c # NoConn /\ \A i \in Active : lista[i].sockfd \in Fds
      BY ServerAssumption DEF Entries
    <3>2. \A f \in Fds : descr[f] = c => f = th[c].sockfd
      BY <2>1, <3>1 DEF Basics, DescriptorsOwned
    <3> QED
      BY <2>1, <3>1, <3>2 DEF Owner
  <2>5. \A i \in Active' : i \in Active /\ Owner(i)' = Owner(i) /\ Owner(i) # c
    BY <2>1, <2>2, <2>4 DEF Owner
  <2>6. ASSUME NEW i \in Active'
        PROVE  /\ lista'[i].sockfd \in Fds /\ Owner(i)' \in Conns
               /\ Registered(Owner(i))'
               /\ lista'[i].username = Clip[NameOf[Owner(i)']]
               /\ lista'[i].ip = IpOf[Owner(i)']
    <3>1. /\ i \in Active /\ lista'[i] = lista[i] /\ Owner(i)' = Owner(i)
          /\ Owner(i) # c /\ Owner(i) \in Conns /\ Registered(Owner(i))
      BY <2>2, <2>5 DEF Entries
    <3>2. Registered(Owner(i))'
      <4>1. PICK d \in Conns \ {c} : Owner(i) = d /\ Owner(i)' = d /\ Registered(d)
        BY <3>1
      <4>2. Registered(d)'
        BY <1>3, <4>1
      <4> QED
        BY <4>1, <4>2 DEF Registered
    <3> QED
      BY <3>1, <3>2 DEF Entries
  <2>7. \A i, j \in Active' : lista'[i].sockfd = lista'[j].sockfd => i = j
    BY <2>2 DEF Entries
  <2>8. ASSUME NEW d \in Conns, Registered(d)' PROVE \E i \in Active' : Owner(i)' = d
    <3>1. d # c /\ Registered(d)
      BY <1>3, <2>3, <2>8
    <3>2. PICK i \in Active : Owner(i) = d
      BY <3>1 DEF Entries
    <3>3. i \in Active'
      BY <2>2, <2>4, <3>1, <3>2
    <3> QED
      BY <2>5, <3>2, <3>3
  <2> QED
    BY <2>6, <2>7, <2>8 DEF Entries
<1> QED
  BY <1>4, <1>5

\* Taking a slot out of use, or leaving all as they are, keeps users distinct.
LEMMA SameDistinct ==
  ASSUME Distinct, SameEntries
  PROVE  Distinct'
BY DEF Distinct, SameEntries

LEMMA ThreadKeepsDistinct ==
  ASSUME Basics, Entries, Distinct, NEW c \in Conns, ClientThread(c)
  PROVE  Distinct'
<1>1. CASE Remove(c)
  <2>1. ListTypeOK /\ cl_remove(th[c].sockfd)
    BY <1>1 DEF Remove, Basics, TypeOK, ListTypeOK
  <2>2. Active' \subseteq Active /\ \A i \in Active' : lista'[i] = lista[i]
    BY <2>1, RemoveEntries DEF Entries
  <2> QED
    BY <2>2 DEF Distinct
<1>2. CASE ~Remove(c)
  BY <1>2, ThreadEntries, SameDistinct
<1> QED
  BY <1>1, <1>2

-----------------------------------------------------------------------------
\* What the main thread does to slots and sessions

\* The main thread's descriptor is in a slot exactly if its peer is in.
LEMMA PeerSlot ==
  ASSUME Basics, Entries, acc.pc # "accept"
  PROVE  /\ acc.fd \in Fds /\ Peer \in Conns
         /\ Registered(Peer) <=> acc.pc \in {"answer", "check"} /\ acc.rc = 0
         /\ \A i \in Active : lista[i].sockfd = acc.fd <=> Owner(i) = Peer
         /\ Registered(Peer) <=> \E i \in Active : lista[i].sockfd = acc.fd
<1>1. acc.fd \in Fds /\ Peer \in Conns /\ Peer = descr[acc.fd] /\ th[Peer].pc = "none"
  BY PeerApart
<1>2. Registered(Peer) <=> acc.pc \in {"answer", "check"} /\ acc.rc = 0
  BY <1>1 DEF Registered
<1>3. Peer # NoConn
  BY <1>1, ServerAssumption
<1>4. \A f \in Fds : descr[f] = Peer => f = acc.fd
  BY <1>1, <1>3 DEF Basics, DescriptorsOwned
<1>5. \A i \in Active : lista[i].sockfd = acc.fd <=> Owner(i) = Peer
  BY <1>1, <1>4 DEF Entries, Owner
<1> QED
  BY <1>1, <1>2, <1>5 DEF Entries

\* cl_add gives a slot to a peer that had none.
LEMMA RegisterKeepsEntries ==
  ASSUME Basics, Entries, Distinct, HandleRegister, acc'.rc = 0
  PROVE  /\ Entries' /\ Distinct'
         /\ Active \subseteq Active' /\ mutex_lista' = mutex_lista
<1>a. PICK p : p = Peer
  OBVIOUS
<1>b. PICK s : s = FreeSlot
  OBVIOUS
<1>0. /\ acc \in AccRecords /\ ListTypeOK /\ clock \in Nat /\ UNCHANGED <<descr, th>>
      /\ acc.pc = "register" /\ p \in Conns /\ acc.fd \in Fds
  BY <1>a, PeerApart DEF HandleRegister, Basics, TypeOK, AccRecords, ListTypeOK
<1>1. PICK ret \in {0, -1, -2} :
        /\ cl_add(acc.pkt.sender, IpOf[p], acc.fd, clock, ret)
        /\ acc' = [acc EXCEPT !.pc = "answer", !.rc = ret]
  BY <1>a DEF HandleRegister
<1>2. acc'.pc = "answer" /\ acc'.fd = acc.fd /\ ret = 0
  BY <1>0, <1>1 DEF AccRecords
<1>3. acc.pkt.sender = NameOf[p] /\ NameOf[p] \in Names /\ IpOf[p] \in Ips
  BY <1>a, <1>0, ServerAssumption DEF Basics, OwnRequests, RequestsOf
<1>4. cl_add(NameOf[p], IpOf[p], acc.fd, clock, 0)
  BY <1>1, <1>2, <1>3
<1>5. /\ ~Taken(NameOf[p], IpOf[p])
      /\ s \notin Active /\ Active' = Active \cup {s}
      /\ \A i \in Active : lista'[i] = lista[i]
      /\ lista'[s].username = Clip[NameOf[p]] /\ lista'[s].ip = IpOf[p]
      /\ lista'[s].sockfd = acc.fd
  BY <1>b, <1>0, <1>3, <1>4, AddEntries
<1>6. Peer' = p /\ descr[acc.fd] = p
  BY <1>a, <1>0, <1>2 DEF Peer
<1>7. \A d \in Conns \ {p} : Registered(d)' <=> Registered(d)
  BY <1>a, <1>0, <1>2, <1>6 DEF Registered
<1>8. Registered(p)' /\ \A i \in Active : lista[i].sockfd # acc.fd
  <2>1. \A i \in Active : lista[i].sockfd # acc.fd
    BY <1>0, PeerSlot
  <2>2. Registered(p)'
    BY <1>2, <1>6 DEF Registered
  <2> QED
    BY <2>1, <2>2
<1>9. /\ \A i \in Active : Owner(i)' = Owner(i)
      /\ descr'[lista'[s].sockfd] = p
  BY <1>0, <1>5, <1>6 DEF Owner
<1>10. ASSUME NEW i \in Active'
       PROVE  /\ lista'[i].sockfd \in Fds /\ Owner(i)' \in Conns
              /\ Registered(Owner(i))'
              /\ lista'[i].username = Clip[NameOf[Owner(i)']]
              /\ lista'[i].ip = IpOf[Owner(i)']
  <2>1. CASE i = s
    <3>1. Owner(i)' = p
      BY <1>9, <2>1 DEF Owner
    <3>2. Registered(Owner(i))'
      BY <1>8, <3>1 DEF Registered
    <3> QED
      BY <1>0, <1>5, <2>1, <3>1, <3>2
  <2>2. CASE i \in Active
    <3>1. /\ lista'[i] = lista[i] /\ Owner(i)' = Owner(i)
          /\ Owner(i) \in Conns /\ Registered(Owner(i))
      BY <1>5, <1>9, <2>2 DEF Entries
    <3>2. PICK d \in Conns : Owner(i) = d /\ Owner(i)' = d /\ Registered(d)
      BY <3>1
    <3>3. Registered(d)'
      BY <1>7, <1>8, <3>2
    <3>4. Registered(Owner(i))'
      BY <3>2, <3>3 DEF Registered
    <3> QED
      BY <2>2, <3>1, <3>4 DEF Entries
  <2> QED
    BY <1>5, <2>1, <2>2
<1>11. \A i, j \in Active' : lista'[i].sockfd = lista'[j].sockfd => i = j
  BY <1>5, <1>8 DEF Entries
<1>12. ASSUME NEW d \in Conns, Registered(d)' PROVE \E i \in Active' : Owner(i)' = d
  <2>1. CASE d = p
    <3>1. Owner(s)' = p
      BY <1>9 DEF Owner
    <3> QED
      BY <1>5, <2>1, <3>1
  <2>2. CASE d # p
    <3>1. PICK i \in Active : Owner(i) = d
      BY <1>7, <1>12, <2>2 DEF Entries
    <3> QED
      BY <1>5, <1>9, <3>1
  <2> QED
    BY <2>1, <2>2
<1>13. Entries'
  BY <1>10, <1>11, <1>12 DEF Entries
<1>14. Distinct'
  <2>1. \A i \in Active : lista[i].username # NameOf[p] /\ lista[i].ip # IpOf[p]
    BY <1>5 DEF Taken
  <2>2. NamesFit => Clip[NameOf[p]] = NameOf[p]
    BY <1>3 DEF NamesFit
  <2>3. \A i \in Active :
          /\ lista'[i].ip # lista'[s].ip
          /\ NamesFit => lista'[i].username # lista'[s].username
    BY <1>5, <2>1, <2>2
  <2> QED
    BY <1>5, <2>3 DEF Distinct
<1> QED
  BY <1>4, <1>5, <1>13, <1>14 DEF cl_add

LEMMA AcceptKeepsTable ==
  ASSUME Basics, MutexProtects, Entries, Distinct, AcceptLoop
  PROVE  MutexProtects' /\ Entries' /\ Distinct'
<1>0. /\ acc \in AccRecords /\ ListTypeOK
      /\ th \in [Conns -> Threads] /\ descr \in [Fds -> Conns \cup {NoConn}]
      /\ mon' = mon /\ NoConn \notin Conns
  BY ServerAssumption DEF Basics, TypeOK, AccRecords, ListTypeOK, AcceptLoop
\* A step that leaves the threads and the slots leaves the mutex invariant.
<1>a. ASSUME mutex_lista' = mutex_lista, Active \subseteq Active',
             \A d \in Conns : \/ th'[d] = th[d]
                              \/ th[d].pc = "none" /\ th'[d].pc = "recv"
      PROVE  MutexProtects'
  <2>1. \A d \in Conns :
          /\ (mutex_lista' = d) <=> (th'[d].pc \in {"sending", "passing", "telling"})
          /\ th'[d].pc = "passing" => th'[d].i \in Active'
    BY <1>a DEF MutexProtects
  <2>2. /\ (mutex_lista' = Monitor) <=> (mon'.pc \in {"scan", "tell"})
        /\ mon'.pc = "tell" => mon'.i \in Active'
    BY <1>0, <1>a DEF MutexProtects
  <2> QED
    BY <2>1, <2>2 DEF MutexProtects
<1>b. ASSUME UNCHANGED <<lista, num_clientes>>
      PROVE  SameEntries /\ Distinct' /\ Active \subseteq Active'
  BY <1>b, NoChange, SameDistinct DEF SameEntries
<1>1. CASE Accept
  <2>1. /\ UNCHANGED <<lista, num_clientes, mutex_lista, th>>
        /\ acc.pc = "accept" /\ FreeFds # {}
        /\ acc' = [acc EXCEPT !.pc = "first", !.fd = Min(FreeFds)]
        /\ descr' = [descr EXCEPT ![Min(FreeFds)] = Head(backlog)]
    BY <1>1 DEF Accept, listVars
  <2>2. descr[Min(FreeFds)] = NoConn
    <3>1. FreeFds \in SUBSET Nat
      BY ListAssumption DEF FreeFds
    <3>2. Min(FreeFds) \in FreeFds
      BY <2>1, <3>1, MinExists
    <3> QED
      BY <3>2 DEF FreeFds
  <2>3. acc'.pc = "first"
    BY <1>0, <2>1 DEF AccRecords
  <2>4. \A d \in Conns : Registered(d)' <=> Registered(d)
    BY <2>1, <2>3 DEF Registered
  <2>5. \A i \in Active : descr'[lista[i].sockfd] = descr[lista[i].sockfd]
    BY <1>0, <2>1, <2>2 DEF Entries, Owner
  <2>6. MutexProtects'
    BY <1>a, <1>b, <2>1
  <2> QED
    BY <1>b, <2>1, <2>4, <2>5, <2>6, EntriesFrame
<1>2. CASE FirstIsRegister \/ AnswerRegister \/ (HandleRegister /\ acc'.rc # 0)
  <2>1. UNCHANGED <<lista, num_clientes, mutex_lista, th, descr>> /\ acc.pc # "accept"
    <3>1. CASE FirstIsRegister \/ AnswerRegister
      BY <3>1 DEF FirstIsRegister, AnswerRegister, listVars
    <3>2. CASE HandleRegister /\ acc'.rc # 0
      <4>1. PICK ret : /\ cl_add(acc.pkt.sender, IpOf[Peer], acc.fd, clock, ret)
                       /\ acc' = [acc EXCEPT !.pc = "answer", !.rc = ret]
        BY <3>2 DEF HandleRegister
      <4>2. ret # 0
        BY <1>0, <3>2, <4>1 DEF AccRecords
      <4> QED
        BY <3>2, <4>1, <4>2 DEF HandleRegister, cl_add
    <3> QED
      BY <1>2, <3>1, <3>2
  <2>2. /\ acc'.fd = acc.fd
        /\ acc'.pc \in {"answer", "check"} /\ acc'.rc = 0
             <=> acc.pc \in {"answer", "check"} /\ acc.rc = 0
    <3>1. CASE FirstIsRegister
      <4>1. acc.pc = "first" /\ acc' = [acc EXCEPT !.pc = "register", !.pkt = Head(inq[Peer])]
        BY <3>1 DEF FirstIsRegister
      <4> QED
        BY <1>0, <4>1 DEF AccRecords
    <3>2. CASE AnswerRegister
      BY <1>0, <3>2 DEF AnswerRegister, AccRecords
    <3>3. CASE HandleRegister /\ acc'.rc # 0
      <4>1. acc.pc = "register" /\ \E ret : acc' = [acc EXCEPT !.pc = "answer", !.rc = ret]
        BY <3>3 DEF HandleRegister
      <4> QED
        BY <1>0, <3>3, <4>1 DEF AccRecords
    <3> QED
      BY <1>2, <3>1, <3>2, <3>3
  <2>3. Peer' = Peer
    BY <2>1, <2>2 DEF Peer
  <2>4. \A d \in Conns : Registered(d)' <=> Registered(d)
    BY <2>1, <2>2, <2>3 DEF Registered
  <2>5. MutexProtects'
    BY <1>a, <1>b, <2>1
  <2> QED
    BY <1>b, <2>1, <2>4, <2>5, EntriesFrame
<1>3. CASE HandleRegister /\ acc'.rc = 0
  <2>1. th' = th
    BY <1>3 DEF HandleRegister
  <2> QED
    BY <1>3, <1>a, <2>1, RegisterKeepsEntries
\* The connection is closed, and it is in no slot.
<1>c. ASSUME UNCHANGED <<lista, num_clientes, mutex_lista, th>>, acc.pc # "accept",
             acc' = Accepting, ~Registered(Peer), close(acc.fd)
      PROVE  MutexProtects' /\ Entries' /\ Distinct'
  <2>1. \A i \in Active : lista[i].sockfd # acc.fd
    BY <1>c, PeerSlot
  <2>2. \A i \in Active : descr'[lista[i].sockfd] = descr[lista[i].sockfd]
    BY <1>0, <1>c, <2>1 DEF close, Entries
  <2>3. \A d \in Conns : Registered(d)' <=> Registered(d)
    BY <1>c DEF Registered, Accepting
  <2>4. MutexProtects'
    BY <1>a, <1>b, <1>c
  <2> QED
    BY <1>b, <1>c, <2>2, <2>3, <2>4, EntriesFrame
<1>4. CASE FirstIsNot
  <2>1. /\ UNCHANGED <<lista, num_clientes, mutex_lista, th>>
        /\ acc.pc = "first" /\ acc' = Accepting /\ close(acc.fd)
    BY <1>4 DEF FirstIsNot, listVars
  <2>2. ~Registered(Peer)
    BY <2>1, PeerSlot
  <2> QED
    BY <1>c, <2>1, <2>2
<1>5. CASE CheckRegistered
  <2>1. /\ UNCHANGED <<lista, num_clientes, mutex_lista>>
        /\ acc.pc = "check" /\ acc' = Accepting
    BY <1>5 DEF CheckRegistered, listVars
  <2>2. cl_find_by_fd(acc.fd) \in Int
    BY <1>0, Finds DEF ListTypeOK
  <2>3. CASE cl_find_by_fd(acc.fd) < 0
    <3>1. \A i \in Active : lista[i].sockfd # acc.fd
      BY <1>0, <2>3, Finds DEF ListTypeOK
    <3>2. ~Registered(Peer)
      BY <2>1, <3>1, PeerSlot
    <3>3. close(acc.fd) /\ th' = th
      BY <1>5, <2>3 DEF CheckRegistered
    <3> QED
      BY <1>c, <2>1, <3>2, <3>3
  <2>4. CASE ~(cl_find_by_fd(acc.fd) < 0)
    <3>1. /\ th' = [th EXCEPT ![Peer].pc = "recv", ![Peer].sockfd = acc.fd]
          /\ UNCHANGED descr
      BY <1>5, <2>4 DEF CheckRegistered
    <3>2. \E i \in Active : lista[i].sockfd = acc.fd
      BY <1>0, <2>2, <2>4, Finds DEF ListTypeOK
    <3>3. Peer \in Conns /\ Registered(Peer) /\ th[Peer].pc = "none"
      BY <2>1, <3>2, PeerSlot, PeerApart
    <3>4. PICK p \in Conns : p = Peer
      BY <3>3
    <3>5. th'[p].pc = "recv" /\ \A d \in Conns \ {p} : th'[d] = th[d]
      BY <1>0, <3>1, <3>4 DEF Threads
    <3>6. acc'.pc = "accept"
      BY <2>1 DEF Accepting
    <3>7. \A d \in Conns : Registered(d)' <=> Registered(d)
      BY <3>3, <3>4, <3>5, <3>6 DEF Registered
    <3>8. MutexProtects'
      BY <1>a, <1>b, <2>1, <3>3, <3>4, <3>5
    <3> QED
      BY <1>b, <2>1, <3>1, <3>7, <3>8, EntriesFrame
  <2> QED
    BY <2>3, <2>4
<1> QED
  BY <1>1, <1>2, <1>3, <1>4, <1>5 DEF AcceptLoop

-----------------------------------------------------------------------------
\* The monitor and the rest

\* The monitor marks a slot in use, and takes none out of it.
LEMMA MonitorEntries ==
  ASSUME BasicInv, InactivityThread
  PROVE  SameEntries /\ (mon'.pc = "tell" => mon'.i \in Active)
<1>0. mon \in MonRecords /\ ListTypeOK /\ Basics /\ MonitorAtSlot
  BY DEF BasicInv, Basics, TypeOK, MonRecords, ListTypeOK
<1>1. CASE MonitorMark
  <2>1. PICK rest : /\ rest = {j \in Idle(mon.now) : j >= mon.i} /\ rest # {}
                    /\ mon' = [mon EXCEPT !.pc = "tell", !.i = Min(rest)]
                    /\ lista' = [lista EXCEPT ![Min(rest)].status = "INACTIVE"]
    BY <1>1 DEF MonitorMark
  <2>2. Min(rest) \in Active /\ Min(rest) \in Slots
    BY <1>0, <2>1, IdleSlots DEF ListTypeOK
  <2>3. PICK idx \in Slots : /\ mon' = [mon EXCEPT !.pc = "tell", !.i = idx]
                             /\ lista' = [lista EXCEPT ![idx].status = "INACTIVE"]
                             /\ idx \in Active
    BY <2>1, <2>2
  <2>4. \A i \in Slots : /\ lista'[i].activo = lista[i].activo
                         /\ lista'[i].sockfd = lista[i].sockfd
                         /\ lista'[i].username = lista[i].username
                         /\ lista'[i].ip = lista[i].ip
    BY <1>0, <2>3 DEF ListTypeOK, Cliente
  <2>5. ListTypeOK' /\ num_clientes' = num_clientes
    BY <1>0, <1>1, MonitorTypes DEF TypeOK, ListTypeOK, MonitorMark
  <2>6. mon'.i = idx
    BY <1>0, <2>3 DEF MonRecords
  <2> QED
    BY <1>0, <2>3, <2>4, <2>5, <2>6, OtherFields
<1>2. CASE ~MonitorMark
  <2>1. UNCHANGED <<lista, num_clientes>>
    BY <1>2 DEF InactivityThread, MonitorWake, MonitorLock, MonitorTell,
      MonitorDone, listVars
  <2>2. mon'.pc # "tell"
    <3>1. CASE MonitorWake
      BY <1>0, <3>1 DEF MonitorWake, MonRecords
    <3>2. CASE MonitorLock
      BY <1>0, <3>2 DEF MonitorLock, MonRecords
    <3>3. CASE MonitorTell
      BY <1>0, <3>3 DEF MonitorTell, MonRecords
    <3>4. CASE MonitorDone
      BY <3>4 DEF MonitorDone
    <3> QED
      BY <1>2, <3>1, <3>2, <3>3, <3>4 DEF InactivityThread
  <2> QED
    BY <2>1, <2>2, NoChange
<1> QED
  BY <1>1, <1>2

LEMMA MonitorKeepsTable ==
  ASSUME BasicInv, MutexProtects, Entries, Distinct, InactivityThread
  PROVE  MutexProtects' /\ Entries' /\ Distinct'
<1>0. /\ mon \in MonRecords /\ ListTypeOK /\ Basics /\ MonitorAtSlot
      /\ UNCHANGED <<descr, acc, th>>
      /\ Monitor \notin Conns /\ Unlocked \notin Conns /\ Unlocked # Monitor
  <2>1. Monitor \notin Conns /\ Unlocked \notin Conns /\ Unlocked # Monitor
    BY ServerAssumption DEF Monitor, Unlocked
  <2> QED
    BY <2>1 DEF BasicInv, Basics, TypeOK, MonRecords, ListTypeOK, InactivityThread
<1>1. SameEntries /\ (mon'.pc = "tell" => mon'.i \in Active)
  BY MonitorEntries
<1>2. /\ (mutex_lista' = Monitor) <=> (mon'.pc \in {"scan", "tell"})
      /\ \A d \in Conns : (mutex_lista' = d) <=> (mutex_lista = d)
  <2>0. (mutex_lista = Monitor) <=> (mon.pc \in {"scan", "tell"})
    BY DEF MutexProtects
  <2>1. CASE MonitorWake
    <3>1. mon.pc = "sleep" /\ mon'.pc = "lock" /\ mutex_lista' = mutex_lista
      BY <1>0, <2>1 DEF MonitorWake, MonRecords, listVars
    <3> QED
      BY <2>0, <3>1
  <2>2. CASE MonitorLock
    <3>1. mon'.pc = "scan" /\ mutex_lista = Unlocked /\ mutex_lista' = Monitor
      BY <1>0, <2>2 DEF MonitorLock, Lock, MonRecords
    <3> QED
      BY <1>0, <3>1
  <2>3. CASE MonitorMark \/ MonitorTell
    <3>1. /\ mon.pc \in {"scan", "tell"} /\ mon'.pc \in {"scan", "tell"}
          /\ mutex_lista' = mutex_lista
      BY <1>0, <2>3 DEF MonitorMark, MonitorTell, MonRecords, listVars
    <3> QED
      BY <2>0, <3>1
  <2>4. CASE MonitorDone
    <3>1. mon.pc = "scan" /\ mon'.pc = "sleep" /\ mutex_lista' = Unlocked
      BY <1>0, <2>4 DEF MonitorDone, Unlock
    <3> QED
      BY <1>0, <2>0, <3>1
  <2> QED
    BY <2>1, <2>2, <2>3, <2>4 DEF InactivityThread
<1>3. MutexProtects'
  <2>1. Active' = Active
    BY <1>1 DEF SameEntries
  <2> QED
    BY <1>0, <1>1, <1>2, <2>1 DEF MutexProtects
<1>4. \A d \in Conns : Registered(d)' <=> Registered(d)
  BY <1>0 DEF Registered, Peer
<1> QED
  BY <1>0, <1>1, <1>3, <1>4, EntriesFrame, SameDistinct

\* The clients and the clock touch nothing of this.
LEMMA TableUntouched ==
  ASSUME MutexProtects, Entries, Distinct,
         UNCHANGED <<lista, num_clientes, mutex_lista, descr, acc, th, mon>>
  PROVE  MutexProtects' /\ Entries' /\ Distinct'
<1>1. SameEntries /\ Active' = Active
  BY NoChange DEF SameEntries
<1>2. \A d \in Conns : Registered(d)' <=> Registered(d)
  BY DEF Registered, Peer
<1>3. MutexProtects'
  BY <1>1 DEF MutexProtects
<1> QED
  BY <1>1, <1>2, <1>3, EntriesFrame, SameDistinct

-----------------------------------------------------------------------------
\* The theorems

LEMMA TableInit ==
  ASSUME Init
  PROVE  TableInv
<1>1. Active = {} /\ mutex_lista = Unlocked
  <2>1. Used = {}
    <3>1. num_clientes = 0
      BY DEF Init, cl_init
    <3> QED
      BY <3>1 DEF Used
  <2> QED
    BY <2>1 DEF Init, cl_init, Active
<1>2. \A c \in Conns : th[c].pc = "none"
  BY DEF Init, NoThread
<1>3. acc.pc = "accept" /\ mon.pc = "sleep"
  BY DEF Init, Accepting
<1>4. MutexProtects
  <2>1. Unlocked \notin Conns /\ Unlocked # Monitor
    BY ServerAssumption DEF Monitor, Unlocked
  <2> QED
    BY <1>1, <1>2, <1>3, <2>1 DEF MutexProtects
<1>5. Entries /\ Distinct
  BY <1>1, <1>2, <1>3 DEF Entries, Distinct, Registered
<1> QED
  BY <1>4, <1>5, BasicInit DEF TableInv

LEMMA TableStep ==
  ASSUME TableInv, [Next]_vars
  PROVE  TableInv'
<1>0. BasicInv /\ Basics /\ MutexProtects /\ Entries /\ Distinct /\ BasicInv'
  BY BasicStep DEF TableInv, BasicInv
<1>1. CASE AcceptLoop
  BY <1>0, <1>1, AcceptKeepsTable DEF TableInv
<1>2. ASSUME NEW c \in Conns, ClientThread(c) PROVE TableInv'
  BY <1>0, <1>2, ThreadKeepsMutex, ThreadKeepsEntries, ThreadKeepsDistinct DEF TableInv
<1>3. ASSUME NEW c \in Conns, Client(c) PROVE TableInv'
  <2>1. UNCHANGED <<lista, num_clientes, mutex_lista, descr, acc, th, mon>>
    BY <1>3 DEF Client, serverVars, listVars
  <2> QED
    BY <1>0, <2>1, TableUntouched DEF TableInv
<1>4. CASE InactivityThread
  BY <1>0, <1>4, MonitorKeepsTable DEF TableInv
<1>5. CASE Tick \/ UNCHANGED vars
  <2>1. UNCHANGED <<lista, num_clientes, mutex_lista, descr, acc, th, mon>>
    BY <1>5 DEF Tick, vars, serverVars, listVars
  <2> QED
    BY <1>0, <2>1, TableUntouched DEF TableInv
<1> QED
  BY <1>1, <1>2, <1>3, <1>4, <1>5 DEF Next, Over

LEMMA TableInvariant == Spec => []TableInv
<1>1. Init => TableInv
  BY TableInit
<1>2. TableInv /\ [Next]_vars => TableInv'
  BY TableStep
<1> QED
  BY <1>1, <1>2, PTL DEF Spec

(***************************************************************************)
(* mutex_lista does its work: a broadcast, a direct message, a notice or   *)
(* the monitor's round holds it throughout, nobody else thinks he does,    *)
(* and the slot that is being sent to does not go away under the send.     *)
(***************************************************************************)
THEOREM MutexProtected == Spec => []MutexProtects
<1>1. TableInv => MutexProtects
  BY DEF TableInv
<1> QED
  BY <1>1, TableInvariant, PTL

(***************************************************************************)
(* Whatever order registrations, departures and descriptor reuse come in,  *)
(* what is sent to a slot's descriptor goes to the user the slot names.    *)
(***************************************************************************)
THEOREM EntriesOwnSockets == Spec => []EntryOwnsSocket
<1>1. TableInv => EntryOwnsSocket
  BY DEF TableInv, Entries, EntryOwnsSocket
<1> QED
  BY <1>1, TableInvariant, PTL

(***************************************************************************)
(* No slot outlives its session and no session is without a slot: a name   *)
(* is not lost to a user who has gone, and who is in is heard and hears.   *)
(***************************************************************************)
THEOREM SessionsHaveEntries == Spec => []SessionHasEntry
<1>1. TableInv => SessionHasEntry
  <2> SUFFICES ASSUME TableInv, NEW c \in Conns
               PROVE  Registered(c) <=> \E i \in Active : Owner(i) = c
    BY DEF SessionHasEntry
  <2> QED
    BY DEF TableInv, Entries
<1> QED
  BY <1>1, TableInvariant, PTL

(***************************************************************************)
(* If no name is too long for a slot, no two active slots have a name, an  *)
(* address or a descriptor in common.                                      *)
(***************************************************************************)
THEOREM MembersUnique == Spec => [](NamesFit => UniqueMembers)
<1>1. TableInv => (NamesFit => UniqueMembers)
  BY DEF TableInv, Entries, Distinct, UniqueMembers
<1> QED
  BY <1>1, TableInvariant, PTL
=============================================================================
