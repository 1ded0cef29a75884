---------------------- MODULE ChatServerPresenceProofs ----------------------
(***************************************************************************)
(* The server keeps the promise of Presence, for any number of             *)
(* connections and slots.                                                  *)
(***************************************************************************)
EXTENDS ChatServerDeliveryProofs, FiniteSetTheorems

-----------------------------------------------------------------------------
\* What a step does to the statuses in the table

HasStatus == \A i \in Active : lista[i].status \in Statuses

\* One slot's status becomes s, and the others' stay.
Changed(idx, s) ==
  \A i \in Active : lista'[i].status = IF i = idx THEN s ELSE lista[i].status

TableEffect ==
  \/ UNCHANGED <<lista, num_clientes>>
  \/ SameEntries /\ \E idx \in Active, s \in Statuses : Changed(idx, s)

LEMMA TouchEffect ==
  ASSUME ListTypeOK, HasStatus, NEW fd, NEW now \in Nat, NEW re, cl_touch(fd, now, re)
  PROVE  TableEffect
<1>0. PICK idx \in Int : idx = cl_find_by_fd(fd)
  BY Finds DEF ListTypeOK
<1>1. CASE idx >= 0
  <2>1. idx \in Active /\ idx \in Slots /\ Active \subseteq Slots
    BY <1>0, <1>1, Finds, ActiveSlots DEF ListTypeOK
  <2>2. lista' = [lista EXCEPT ![idx].ultimo_mensaje = now,
                               ![idx].status = IF re THEN "ACTIVE" ELSE @]
    BY <1>0, <1>1 DEF cl_touch
  <2>3. PICK s \in Statuses :
          lista' = [lista EXCEPT ![idx].ultimo_mensaje = now, ![idx].status = s]
    <3>1. CASE re
      BY <2>2, <3>1 DEF Statuses
    <3>2. CASE ~re
      <4>1. lista' = [lista EXCEPT ![idx].ultimo_mensaje = now,
                                   ![idx].status = lista[idx].status]
        BY <2>1, <2>2, <3>2 DEF ListTypeOK
      <4> QED
        BY <2>1, <4>1 DEF HasStatus
    <3> QED
      BY <3>1, <3>2
  <2>4. Changed(idx, s)
    BY <2>1, <2>3 DEF ListTypeOK, Cliente, Changed
  <2> QED
    BY <2>1, <2>4, TouchEntries DEF TableEffect
<1>2. CASE ~(idx >= 0)
  BY <1>0, <1>2 DEF cl_touch, TableEffect
<1> QED
  BY <1>1, <1>2

LEMMA SetStatusEffect ==
  ASSUME ListTypeOK, NEW u, NEW s \in Statuses, NEW ret, cl_set_status(u, s, ret)
  PROVE  TableEffect
<1>0. PICK idx \in Int : idx = cl_find_by_name(u)
  BY Finds DEF ListTypeOK
<1>1. CASE idx >= 0
  <2>1. idx \in Active /\ idx \in Slots /\ Active \subseteq Slots
    BY <1>0, <1>1, Finds, ActiveSlots DEF ListTypeOK
  <2>2. lista' = [lista EXCEPT ![idx].status = s]
    BY <1>0, <1>1 DEF cl_set_status
  <2>3. Changed(idx, s)
    BY <2>1, <2>2 DEF ListTypeOK, Cliente, Changed
  <2> QED
    BY <2>1, <2>3, SetStatusEntries DEF TableEffect
<1>2. CASE ~(idx >= 0)
  BY <1>0, <1>2 DEF cl_set_status, TableEffect
<1> QED
  BY <1>1, <1>2

LEMMA MarkEffect ==
  ASSUME TableInv, InactivityThread
  PROVE  TableEffect
<1>0. ListTypeOK /\ BasicInv
  BY DEF TableInv, BasicInv, Basics, TypeOK, ListTypeOK
<1>1. CASE MonitorMark
  <2>1. PICK rest : /\ rest = {j \in Idle(mon.now) : j >= mon.i} /\ rest # {}
                    /\ lista' = [lista EXCEPT ![Min(rest)].status = "INACTIVE"]
    BY <1>1 DEF MonitorMark
  <2>2. Min(rest) \in Active /\ Min(rest) \in Slots /\ Active \subseteq Slots
    BY <1>0, <2>1, IdleSlots, ActiveSlots DEF ListTypeOK
  <2>3. PICK idx \in Slots : /\ lista' = [lista EXCEPT ![idx].status = "INACTIVE"]
                             /\ idx \in Active
    BY <2>1, <2>2
  <2>4. Changed(idx, "INACTIVE") /\ "INACTIVE" \in Statuses
    BY <1>0, <2>2, <2>3 DEF ListTypeOK, Cliente, Changed, Statuses
  <2> QED
    BY <1>0, <2>3, <2>4, MonitorEntries DEF TableEffect
<1>2. CASE ~MonitorMark
  BY <1>2 DEF InactivityThread, MonitorWake, MonitorLock, MonitorTell, MonitorDone,
    listVars, TableEffect
<1> QED
  BY <1>1, <1>2

\* The table changes by a registration, a removal, or in one user's status.
LEMMA Effects ==
  ASSUME TableInv, HasStatus, [Next]_vars
  PROVE  \/ TableEffect
         \/ AcceptLoop /\ HandleRegister /\ acc'.rc = 0
         \/ \E c \in Conns : ClientThread(c) /\ Remove(c)
<1>0. BasicInv /\ Basics /\ ListTypeOK /\ clock \in Nat /\ acc \in AccRecords
  BY DEF TableInv, BasicInv, Basics, TypeOK, ListTypeOK, AccRecords
<1>1. ASSUME AcceptLoop, ~(HandleRegister /\ acc'.rc = 0) PROVE TableEffect
  <2>1. CASE HandleRegister
    <3>1. PICK ret : /\ cl_add(acc.pkt.sender, IpOf[Peer], acc.fd, clock, ret)
                     /\ acc' = [acc EXCEPT !.pc = "answer", !.rc = ret]
      BY <2>1 DEF HandleRegister
    <3>2. ret # 0
      BY <1>0, <1>1, <2>1, <3>1 DEF AccRecords
    <3> QED
      BY <3>1, <3>2 DEF cl_add, TableEffect
  <2>2. CASE ~HandleRegister
    BY <1>1, <2>2 DEF AcceptLoop, listVars, Accept, FirstIsRegister, FirstIsNot,
      AnswerRegister, CheckRegistered, TableEffect
  <2> QED
    BY <2>1, <2>2
<1>2. ASSUME NEW c \in Conns, ClientThread(c), ~Remove(c) PROVE TableEffect
  <2>1. CASE Touch(c)
    BY <1>0, <2>1, TouchEffect DEF Touch
  <2>2. CASE HandleStatus(c)
    <3>1. th[c].pkt.payload \in Statuses
      BY <1>0, <2>2, RequestFields DEF HandleStatus, Serving
    <3> QED
      BY <1>0, <2>2, <3>1, SetStatusEffect DEF HandleStatus
  <2>3. CASE ~Touch(c) /\ ~HandleStatus(c)
    BY <1>2, <2>3 DEF ClientThread, listVars, Recv, RecvFails, Notice,
      HandleBroadcast, SendNext, BroadcastDone, HandleDirect, DirectSend, HandleList,
      HandleInfo, HandleLogout, Reply, ResolveName, Close, NotifyDisconnect,
      NotifyDone, cl_read, TableEffect
  <2> QED
    BY <2>1, <2>2, <2>3
<1>3. ASSUME (\E c \in Conns : Client(c)) \/ Tick \/ UNCHANGED vars PROVE TableEffect
  BY <1>3 DEF Client, serverVars, listVars, Tick, vars, TableEffect
<1>4. ASSUME InactivityThread PROVE TableEffect
  BY <1>4, MarkEffect
<1> QED
  BY <1>1, <1>2, <1>3, <1>4 DEF Next, Over

\* What a successful registration does, at the main thread's peer.
LEMMA RegisterAdds ==
  ASSUME Basics, HandleRegister, acc'.rc = 0
  PROVE  \E n : /\ n \notin Active /\ Active' = Active \cup {n} /\ n = FreeSlot
                /\ \A i \in Active : lista'[i] = lista[i]
                /\ lista'[n].sockfd = acc.fd /\ lista'[n].status = "ACTIVE"
                /\ lista'[n].ultimo_mensaje = clock
                /\ ~Taken(NameOf[Peer], IpOf[Peer]) /\ num_clientes < MAX_CLIENTS
                /\ acc.pc = "register" /\ acc.fd \in Fds /\ descr' = descr /\ th' = th
<1>a. PICK p : p = Peer
  OBVIOUS
<1>0. /\ acc \in AccRecords /\ ListTypeOK /\ clock \in Nat /\ UNCHANGED <<descr, th>>
      /\ acc.pc = "register" /\ p \in Conns /\ acc.fd \in Fds
  BY <1>a, PeerApart DEF HandleRegister, Basics, TypeOK, AccRecords, ListTypeOK
<1>1. PICK ret \in {0, -1, -2} :
        /\ cl_add(acc.pkt.sender, IpOf[p], acc.fd, clock, ret)
        /\ acc' = [acc EXCEPT !.pc = "answer", !.rc = ret]
  BY <1>a DEF HandleRegister
<1>2. ret = 0
  BY <1>0, <1>1 DEF AccRecords
<1>3. acc.pkt.sender = NameOf[p] /\ NameOf[p] \in Names /\ IpOf[p] \in Ips
  BY <1>a, <1>0, ServerAssumption DEF Basics, OwnRequests, RequestsOf
<1>4. cl_add(NameOf[p], IpOf[p], acc.fd, clock, 0)
  BY <1>1, <1>2, <1>3
<1>5. num_clientes < MAX_CLIENTS
  <2>1. AddResult(NameOf[p], IpOf[p]) = 0
    BY <1>4, Zenon DEF cl_add
  <2> QED
    BY <1>0, <2>1, Room DEF ListTypeOK
<1>6. /\ ~Taken(NameOf[p], IpOf[p])
      /\ FreeSlot \notin Active /\ Active' = Active \cup {FreeSlot}
      /\ \A i \in Active : lista'[i] = lista[i]
      /\ lista'[FreeSlot].sockfd = acc.fd /\ lista'[FreeSlot].status = "ACTIVE"
      /\ lista'[FreeSlot].ultimo_mensaje = clock
  BY <1>0, <1>3, <1>4, AddEntries
<1> QED
  BY <1>a, <1>0, <1>5, <1>6

\* A registration gives the new slot a status, so every slot in use has one.
LEMMA HasStatusStep ==
  ASSUME TableInv, HasStatus, [Next]_vars
  PROVE  HasStatus'
<1>0. Basics /\ ListTypeOK /\ Entries
  BY DEF TableInv, BasicInv, Basics, TypeOK, ListTypeOK
<1>1. CASE TableEffect
  <2>1. CASE UNCHANGED <<lista, num_clientes>>
    BY <2>1, NoChange DEF HasStatus, SameEntries
  <2>2. ASSUME SameEntries, NEW idx \in Active, NEW s \in Statuses, Changed(idx, s)
        PROVE  HasStatus'
    BY <2>2 DEF HasStatus, SameEntries, Changed
  <2> QED
    BY <1>1, <2>1, <2>2 DEF TableEffect
<1>2. CASE HandleRegister /\ acc'.rc = 0
  <2>1. PICK n : /\ Active' = Active \cup {n} /\ \A i \in Active : lista'[i] = lista[i]
                 /\ lista'[n].status = "ACTIVE"
    BY <1>0, <1>2, RegisterAdds
  <2> QED
    BY <2>1 DEF HasStatus, Statuses
<1>3. ASSUME NEW c \in Conns, Remove(c) PROVE HasStatus'
  <2>1. Active' \subseteq Active /\ \A i \in Active' : lista'[i] = lista[i]
    BY <1>0, <1>3, RemoveEntries DEF Remove, Entries
  <2> QED
    BY <2>1 DEF HasStatus
<1> QED
  BY <1>1, <1>2, <1>3, Effects

-----------------------------------------------------------------------------
\* Who is a member

\* No two slots are of one connection.
LEMMA OneSlot ==
  ASSUME TableInv, NEW i \in Active, NEW j \in Active, Owner(i) = Owner(j)
  PROVE  i = j
<1>1. /\ lista[i].sockfd \in Fds /\ lista[j].sockfd \in Fds /\ Owner(i) \in Conns
      /\ NoConn \notin Conns
  BY ServerAssumption DEF TableInv, Entries
<1>2. lista[i].sockfd = lista[j].sockfd
  BY <1>1 DEF Owner, TableInv, BasicInv, Basics, DescriptorsOwned
<1> QED
  BY <1>2 DEF TableInv, Entries

(***************************************************************************)
(* member says of a connection with a slot what the slot says, and of one  *)
(* without whether it has had one.                                         *)
(***************************************************************************)
SlotOf(c) == \E i \in Active : Owner(i) = c

Mirrors ==
  /\ member = [c \in Conns |-> member[c]]
  /\ \A i \in Active : Owner(i) \in Conns /\ member[Owner(i)] = lista[i].status
  /\ \A c \in Conns :
       ~SlotOf(c) => member[c] = IF th[c].pc \in Gone THEN "left" ELSE "out"

LEMMA MemberMirrors == TableInv => Mirrors
<1> SUFFICES ASSUME TableInv PROVE Mirrors
  OBVIOUS
<1>1. member = [c \in Conns |-> member[c]]
  BY DEF member
<1>2. ASSUME NEW i \in Active
      PROVE  Owner(i) \in Conns /\ member[Owner(i)] = lista[i].status
  <2>1. PICK c \in Conns : c = Owner(i)
    BY DEF TableInv, Entries
  <2>2. (CHOOSE j \in Active : Owner(j) = c) = i
    BY <2>1, OneSlot
  <2>3. \E j \in Active : Owner(j) = c
    BY <2>1
  <2>4. member[c] = lista[CHOOSE j \in Active : Owner(j) = c].status
    BY <2>3 DEF member
  <2> QED
    BY <2>1, <2>2, <2>4
<1>3. ASSUME NEW c \in Conns, ~SlotOf(c)
      PROVE  member[c] = IF th[c].pc \in Gone THEN "left" ELSE "out"
  BY <1>3 DEF member, SlotOf, Gone
<1> QED
  BY <1>1, <1>2, <1>3 DEF Mirrors

\* Whose slot it is does not change while it is in use.
LEMMA OwnerKept ==
  ASSUME TableInv, TableInv', [Next]_vars, NEW i \in Active, i \in Active',
         lista'[i].sockfd = lista[i].sockfd
  PROVE  Owner(i)' = Owner(i) /\ Owner(i) \in Conns
<1>1. lista[i].sockfd \in Fds /\ Owner(i) \in Conns /\ Owner(i)' \in Conns
  BY DEF TableInv, Entries
<1>2. NoConn \notin Conns
  BY ServerAssumption
<1> QED
  BY <1>1, <1>2, DescriptorMoves DEF Owner

\* Who has no slot, before and after, has left or has not come as before.
LEMMA StaysOut ==
  ASSUME TableInv, TableInv', [Next]_vars, NEW c \in Conns, ~SlotOf(c), ~SlotOf(c)'
  PROVE  th'[c].pc \in Gone <=> th[c].pc \in Gone
<1>0. /\ Basics /\ th \in [Conns -> Threads] /\ th'[c] \in Threads /\ th[c] \in Threads
      /\ ~Registered(c) /\ ~Registered(c)'
  BY DEF TableInv, BasicInv, Basics, TypeOK, Entries, SlotOf
<1>1. CASE ClientThread(c)
  <2>1. th[c].pc \in Gone
    BY <1>0, <1>1, ThreadFrame DEF Registered, Gone
  <2>2. th[c].pc \notin Live
    BY <2>1 DEF Live
  <2>3. th'[c].pc \notin Live /\ th'[c].pc # "none"
    BY <1>0, <1>1, <2>2, ThreadMoves, ThreadSteps
  <2>4. th'[c].pc \in ThreadPCs
    BY <1>0 DEF Threads
  <2> QED
    BY <2>1, <2>3, <2>4 DEF Live
<1>2. CASE th'[c].pc = "recv"
  BY <1>0, <1>2 DEF Registered
<1> QED
  BY <1>1, <1>2, ThreadsApart

-----------------------------------------------------------------------------
\* The steps of Presence

LEMMA ChangeStep ==
  ASSUME TableInv, TableInv', HasStatus, Mirrors, Mirrors', [Next]_vars, TableEffect
  PROVE  [Abstract!Next]_member
<1>1. SameEntries
  BY NoChange DEF TableEffect
<1>2. Active' = Active /\ \A i \in Active : Owner(i)' = Owner(i) /\ Owner(i) \in Conns
  BY <1>1, OwnerKept DEF SameEntries
<1>3. \A c \in Conns : SlotOf(c)' <=> SlotOf(c)
  BY <1>2 DEF SlotOf
<1>4. \A c \in Conns : ~SlotOf(c) => member'[c] = member[c]
  BY <1>3, StaysOut DEF Mirrors
<1>5. \A i \in Active : member[Owner(i)] = lista[i].status
                        /\ member'[Owner(i)] = lista'[i].status
  <2> SUFFICES ASSUME NEW i \in Active
               PROVE  member[Owner(i)] = lista[i].status
                      /\ member'[Owner(i)] = lista'[i].status
    OBVIOUS
  <2>1. i \in Active' /\ Owner(i)' = Owner(i)
    BY <1>2
  <2>2. member'[Owner(i)'] = lista'[i].status
    BY <2>1 DEF Mirrors
  <2> QED
    BY <2>1, <2>2 DEF Mirrors
<1>a. /\ member = [c \in Conns |-> member[c]]
      /\ member' = [c \in Conns |-> member'[c]]
  BY DEF Mirrors
<1>6. CASE UNCHANGED <<lista, num_clientes>>
  <2>1. \A c \in Conns : member'[c] = member[c]
    BY <1>4, <1>5, <1>6 DEF SlotOf
  <2>2. member' = member
    BY <1>a, <2>1, Zenon
  <2> QED
    BY <2>2
<1>7. ASSUME NEW idx \in Active, NEW s \in Statuses, Changed(idx, s)
      PROVE  [Abstract!Next]_member
  <2>1. PICK u \in Conns : u = Owner(idx)
    BY <1>2
  <2>2. \A c \in Conns : member'[c] = IF c = u THEN s ELSE member[c]
    <3> SUFFICES ASSUME NEW c \in Conns
                 PROVE  member'[c] = IF c = u THEN s ELSE member[c]
      OBVIOUS
    <3>1. CASE ~SlotOf(c)
      BY <1>4, <2>1, <3>1 DEF SlotOf
    <3>2. ASSUME NEW i \in Active, Owner(i) = c
          PROVE  member'[c] = IF c = u THEN s ELSE member[c]
      <4>1. i = idx <=> c = u
        BY <2>1, <3>2, OneSlot
      <4> QED
        BY <1>5, <1>7, <3>2, <4>1 DEF Changed
    <3> QED
      BY <3>1, <3>2 DEF SlotOf
  <2>3. member' = [member EXCEPT ![u] = s]
    BY <1>a, <2>2
  <2>4. u \in Abstract!Members
    BY <1>5, <2>1 DEF Abstract!Members, HasStatus
  <2>5. Abstract!Change(u)
    BY <2>3, <2>4 DEF Abstract!Change
  <2> QED
    BY <2>5 DEF Abstract!Next
<1> QED
  BY <1>6, <1>7 DEF TableEffect

LEMMA LeaveStep ==
  ASSUME TableInv, TableInv', HasStatus, Mirrors, Mirrors', [Next]_vars,
         NEW c \in Conns, ClientThread(c), Remove(c)
  PROVE  Abstract!Leave(c)
<1>0. /\ Basics /\ ListTypeOK /\ UNCHANGED descr /\ th[c].pc = "remove"
      /\ th[c].sockfd \in Fds /\ descr[th[c].sockfd] = c
  BY DEF TableInv, BasicInv, Basics, TypeOK, ListTypeOK, Remove, DescriptorsOwned,
    OpenThreads, ThreadPCs
<1>1. /\ Active' = {i \in Active : lista[i].sockfd # th[c].sockfd}
      /\ \A i \in Active' : lista'[i] = lista[i]
  BY <1>0, RemoveEntries DEF Remove, TableInv, Entries
<1>2. PICK e \in Active : Owner(e) = c
  <2>1. Registered(c)
    BY <1>0 DEF Registered
  <2> QED
    BY <2>1 DEF TableInv, Entries
<1>3. lista[e].sockfd = th[c].sockfd
  <2>1. lista[e].sockfd \in Fds /\ c # NoConn
    BY ServerAssumption DEF TableInv, Entries
  <2> QED
    BY <1>0, <1>2, <2>1 DEF Owner, Basics, DescriptorsOwned
<1>4. \A i \in Active : lista[i].sockfd = th[c].sockfd <=> i = e
  BY <1>3 DEF TableInv, Entries
<1>5. Active' = Active \ {e} /\ \A i \in Active' : Owner(i)' = Owner(i) /\ Owner(i) # c
  <2>1. Active' = Active \ {e}
    BY <1>1, <1>4
  <2>2. \A i \in Active' : Owner(i)' = Owner(i)
    BY <1>0, <1>1, <2>1, OwnerKept
  <2>3. \A i \in Active' : Owner(i) # c
    BY <1>2, <2>1, OneSlot
  <2> QED
    BY <2>1, <2>2, <2>3
<1>6. member'[c] = "left"
  <2>1. ~SlotOf(c)'
    BY <1>5 DEF SlotOf
  <2>2. th'[c].pc \in Gone
    BY <1>0, ThreadMoves DEF Gone
  <2> QED
    BY <2>1, <2>2 DEF Mirrors
<1>7. ASSUME NEW d \in Conns \ {c} PROVE member'[d] = member[d]
  <2>1. SlotOf(d)' <=> SlotOf(d)
    BY <1>2, <1>5, <1>7 DEF SlotOf
  <2>2. CASE ~SlotOf(d)
    BY <2>1, <2>2, StaysOut DEF Mirrors
  <2>3. CASE SlotOf(d)
    <3>1. PICK i \in Active : Owner(i) = d
      BY <2>3 DEF SlotOf
    <3>2. i \in Active' /\ Owner(i)' = d /\ lista'[i] = lista[i]
      BY <1>1, <1>2, <1>5, <1>7, <3>1
    <3>3. member'[Owner(i)'] = lista'[i].status /\ member[Owner(i)] = lista[i].status
      BY <3>2 DEF Mirrors
    <3> QED
      BY <3>1, <3>2, <3>3
  <2> QED
    BY <2>2, <2>3
<1>8. member' = [member EXCEPT ![c] = "left"]
  <2>1. /\ member = [d \in Conns |-> member[d]]
        /\ member' = [d \in Conns |-> member'[d]]
    BY DEF Mirrors
  <2> QED
    BY <1>6, <1>7, <2>1
<1>9. c \in Abstract!Members
  BY <1>2 DEF Abstract!Members, HasStatus, Mirrors
<1> QED
  BY <1>8, <1>9 DEF Abstract!Leave

\* A slot that is not in use is one that is left for a newcomer.
LEMMA RoomInPresence ==
  ASSUME TableInv, HasStatus, Mirrors, num_clientes < MAX_CLIENTS
  PROVE  Cardinality(Abstract!Members) < MAX_CLIENTS
<1>0. /\ Active \subseteq Slots /\ MAX_CLIENTS \in Nat
      /\ FreeSlot \in Slots /\ FreeSlot \notin Active
  BY MaxClients, ActiveSlots, FreeSlotFree DEF TableInv, BasicInv, Basics, TypeOK
<1>1. IsFiniteSet(Slots) /\ Cardinality(Slots) = MAX_CLIENTS
  <2>1. PICK k \in Int : k = MAX_CLIENTS - 1
    BY <1>0
  <2>2. ~(0 > k) /\ 0 \in Int
    BY <1>0, <2>1, MaxClients
  <2>3. /\ IsFiniteSet(0 .. k)
        /\ Cardinality(0 .. k) = IF 0 > k THEN 0 ELSE k - 0 + 1
    BY <2>2, FS_Interval
  <2>4. Cardinality(0 .. k) = k - 0 + 1
    BY <2>2, <2>3
  <2>5. Slots = 0 .. k
    BY <2>1 DEF Slots
  <2> QED
    BY <1>0, <2>1, <2>3, <2>4, <2>5
<1>2. PICK rest : rest = Slots \ {FreeSlot}
  OBVIOUS
<1>3. IsFiniteSet(rest) /\ Cardinality(rest) = MAX_CLIENTS - 1
  BY <1>0, <1>1, <1>2, FS_RemoveElement
<1>4. Active \in SUBSET rest
  BY <1>0, <1>2
<1>5. IsFiniteSet(Active) /\ Cardinality(Active) <= MAX_CLIENTS - 1
  BY <1>3, <1>4, FS_Subset
<1>6. PICK f : f = [i \in Active |-> Owner(i)]
  OBVIOUS
<1>7. f \in Surjection(Active, Abstract!Members)
  <2>1. \A i \in Active : Owner(i) \in Abstract!Members
    BY DEF Mirrors, HasStatus, Abstract!Members
  <2>2. ASSUME NEW u \in Abstract!Members PROVE \E i \in Active : f[i] = u
    <3>1. u \in Conns /\ member[u] \in Statuses
      BY DEF Abstract!Members
    <3>2. SlotOf(u)
      BY <3>1 DEF Mirrors, Statuses
    <3> QED
      BY <1>6, <3>2 DEF SlotOf
  <2>3. f \in [Active -> Abstract!Members]
    BY <1>6, <2>1
  <2> QED
    BY <2>2, <2>3 DEF Surjection
<1>8. /\ Cardinality(Abstract!Members) <= Cardinality(Active)
      /\ IsFiniteSet(Abstract!Members)
  BY <1>5, <1>7, FS_Surjection
<1>9. Cardinality(Abstract!Members) \in Nat /\ Cardinality(Active) \in Nat
  BY <1>5, <1>8, FS_CardinalityType
<1> QED
  BY <1>0, <1>5, <1>8, <1>9

LEMMA JoinStep ==
  ASSUME TableInv, TableInv', HasStatus, Mirrors, Mirrors', NamesFit, [Next]_vars,
         HandleRegister, acc'.rc = 0
  PROVE  \E u \in Conns : Abstract!Join(u)
<1>a. PICK p : p = Peer
  OBVIOUS
<1>0. Basics /\ acc \in AccRecords /\ acc' \in AccRecords
  BY DEF TableInv, BasicInv, Basics, TypeOK, AccRecords
<1>1. PICK n : /\ n \notin Active /\ Active' = Active \cup {n} /\ n = FreeSlot
               /\ \A i \in Active : lista'[i] = lista[i]
               /\ lista'[n].sockfd = acc.fd /\ lista'[n].status = "ACTIVE"
               /\ ~Taken(NameOf[p], IpOf[p]) /\ num_clientes < MAX_CLIENTS
               /\ acc.pc = "register" /\ acc.fd \in Fds /\ descr' = descr /\ th' = th
  BY <1>a, <1>0, RegisterAdds
<1>2. p \in Conns /\ descr[acc.fd] = p /\ th[p].pc = "none" /\ ~Registered(p)
  BY <1>a, <1>0, <1>1, PeerSlot, PeerApart DEF TableInv
<1>3. \A i \in Active : Owner(i)' = Owner(i)
  BY <1>1 DEF Owner
<1>4. Owner(n)' = p
  BY <1>1, <1>2 DEF Owner
<1>5. ~SlotOf(p) /\ member[p] = "out"
  BY <1>2 DEF TableInv, Entries, SlotOf, Mirrors, Gone
<1>6. member'[p] = "ACTIVE"
  <2>1. n \in Active'
    BY <1>1
  <2>2. member'[Owner(n)'] = lista'[n].status
    BY <2>1 DEF Mirrors
  <2> QED
    BY <1>1, <1>4, <2>2
<1>7. ASSUME NEW d \in Conns \ {p} PROVE member'[d] = member[d]
  <2>1. SlotOf(d)' <=> SlotOf(d)
    BY <1>1, <1>3, <1>4, <1>7 DEF SlotOf
  <2>2. CASE ~SlotOf(d)
    BY <1>1, <2>1, <2>2 DEF Mirrors
  <2>3. CASE SlotOf(d)
    <3>1. PICK i \in Active : Owner(i) = d
      BY <2>3 DEF SlotOf
    <3>2. i \in Active' /\ Owner(i)' = d /\ lista'[i] = lista[i]
      BY <1>1, <1>3, <3>1
    <3>3. member'[Owner(i)'] = lista'[i].status /\ member[Owner(i)] = lista[i].status
      BY <3>2 DEF Mirrors
    <3> QED
      BY <3>1, <3>2, <3>3
  <2> QED
    BY <2>2, <2>3
<1>8. member' = [member EXCEPT ![p] = "ACTIVE"]
  <2>1. /\ member = [d \in Conns |-> member[d]]
        /\ member' = [d \in Conns |-> member'[d]]
    BY DEF Mirrors
  <2> QED
    BY <1>2, <1>6, <1>7, <2>1
<1>9. ASSUME NEW v \in Abstract!Members
      PROVE  Clip[NameOf[v]] # Clip[NameOf[p]] /\ IpOf[v] # IpOf[p]
  <2>1. v \in Conns /\ member[v] \in Statuses
    BY DEF Abstract!Members
  <2>2. PICK i \in Active : Owner(i) = v
    BY <2>1 DEF Mirrors, SlotOf, Statuses
  <2>3. lista[i].username = Clip[NameOf[v]] /\ lista[i].ip = IpOf[v]
    BY <2>2 DEF TableInv, Entries
  <2>4. Clip[NameOf[p]] = NameOf[p]
    BY <1>2, ServerAssumption DEF NamesFit
  <2> QED
    BY <1>1, <2>3, <2>4 DEF Taken
<1>10. Cardinality(Abstract!Members) < MAX_CLIENTS
  BY <1>1, RoomInPresence
<1>11. Abstract!Join(p)
  <2>1. \A v \in Abstract!Members :
          /\ [c \in Conns |-> Clip[NameOf[c]]][v] # [c \in Conns |-> Clip[NameOf[c]]][p]
          /\ IpOf[v] # IpOf[p]
    BY <1>2, <1>9 DEF Abstract!Members
  <2>2. Abstract!Cardinality(Abstract!Members) = Cardinality(Abstract!Members)
    BY Zenon DEF Abstract!Cardinality, Cardinality
  <2> QED
    BY <1>5, <1>8, <1>10, <2>1, <2>2 DEF Abstract!Join
<1> QED
  BY <1>2, <1>11

LEMMA PresenceStep ==
  ASSUME TableInv, TableInv', HasStatus, Mirrors, Mirrors', NamesFit, [Next]_vars
  PROVE  [Abstract!Next]_member
<1>1. CASE TableEffect
  BY <1>1, ChangeStep
<1>2. CASE HandleRegister /\ acc'.rc = 0
  BY <1>2, JoinStep DEF Abstract!Next
<1>3. ASSUME NEW c \in Conns, ClientThread(c), Remove(c)
      PROVE  [Abstract!Next]_member
  BY <1>3, LeaveStep DEF Abstract!Next
<1> QED
  BY <1>1, <1>2, <1>3, Effects

LEMMA PresenceInit ==
  ASSUME Init
  PROVE  HasStatus /\ Abstract!Init
<1>1. Active = {}
  <2>1. num_clientes = 0
    BY DEF Init, cl_init
  <2>2. Used = {}
    BY <2>1 DEF Used
  <2> QED
    BY <2>2 DEF Active
<1>2. \A c \in Conns : th[c].pc = "none"
  BY DEF Init, NoThread
<1>3. member = [c \in Conns |-> "out"]
  BY <1>1, <1>2 DEF member
<1> QED
  BY <1>1, <1>3 DEF HasStatus, Abstract!Init

(***************************************************************************)
(* If no name is too long for a slot, the server does what Presence says:  *)
(* accept loop, threads, table, mutex and monitor amount to one user at a  *)
(* time joining while there is room and its name and address are free,     *)
(* having its status changed while it is in, and leaving once.             *)
(***************************************************************************)
THEOREM ServerKeepsPresence ==
  ASSUME NamesFit
  PROVE  Spec => ImplementsPresence
<1>1. Init => HasStatus /\ Abstract!Init
  BY PresenceInit
<1>2. TableInv /\ HasStatus /\ [Next]_vars => HasStatus'
  BY HasStatusStep
<1>3. TableInv => Mirrors
  BY MemberMirrors
<1>4. TableInv /\ TableInv' /\ HasStatus /\ Mirrors /\ Mirrors' /\ [Next]_vars
        => [Abstract!Next]_member
  BY PresenceStep
<1> QED
  BY <1>1, <1>2, <1>3, <1>4, TableInvariant, PTL
    DEF Spec, ImplementsPresence, Abstract!Spec
=============================================================================
