---------------------- MODULE ChatServerDeliveryProofs ----------------------
(***************************************************************************)
(* What the server's packets say and whom they reach, for any number of    *)
(* connections, slots and requests.                                        *)
(***************************************************************************)
EXTENDS ChatServerTableProofs

-----------------------------------------------------------------------------
\* What a thread is about to send

\* The packet in out is going to be sent.
Outgoing == {"sending", "telling", "passing", "reply"}
Refusal == "status refused"

\* What a client is sent without having asked for it.
Unasked == {"MSG", "DISCONNECTED"}

(***************************************************************************)
(* Where a thread's packet comes from: a loop keeps it, a broadcast is for *)
(* all, a direct message is for the user in the slot that was found, and   *)
(* an answer is not a message.                                             *)
(***************************************************************************)
LEMMA ThreadSpeaks ==
  ASSUME Basics, NEW c \in Conns, ClientThread(c), th'[c].pc \in Outgoing
  PROVE  \/ SendNext(c) /\ th'[c].pc = th[c].pc /\ th'[c].out = th[c].out
         \/ /\ HandleBroadcast(c) /\ th'[c].pc = "sending"
            /\ th'[c].out.command = "MSG" /\ th'[c].out.sender = Clip[th[c].pkt.sender]
            /\ th'[c].out.target = "ALL" /\ th'[c].out.payload = th[c].pkt.payload
         \/ /\ NotifyDisconnect(c) /\ th'[c].pc = "telling"
            /\ th'[c].out.command = "DISCONNECTED"
            /\ th'[c].out.payload = th[c].username
         \/ /\ HandleDirect(c) /\ th'[c].pc = "passing"
            /\ th'[c].i \in Active /\ lista[th'[c].i].username = th[c].pkt.target
            /\ th'[c].out.command = "MSG" /\ th'[c].out.sender = Clip[th[c].pkt.sender]
            /\ th'[c].out.target = Clip[th[c].pkt.target]
            /\ th'[c].out.payload = th[c].pkt.payload
         \/ /\ th'[c].pc = "reply" /\ th'[c].out.command \notin Unasked
            /\ \/ th'[c].out.payload # Refusal
               \/ HandleStatus(c) /\ cl_find_by_name(th[c].pkt.sender) < 0
<1>0. th \in [Conns -> Threads] /\ th[c] \in Threads /\ ListTypeOK
  BY DEF Basics, TypeOK, ListTypeOK
<1>a. \A cmd : HandlerOf(cmd) \notin Outgoing
  BY DEF HandlerOf, Outgoing
<1>b. ASSUME NEW p, Goto(c, p) PROVE th'[c].pc = p
  BY <1>0, <1>b DEF Goto, Threads
<1>c. ASSUME NEW o, Answer(c, o) PROVE th'[c].pc = "reply" /\ th'[c].out = o
  <2>1. th'[c] = [th[c] EXCEPT !.pc = "reply", !.out = o]
    BY <1>0, <1>c DEF Answer
  <2> QED
    BY <1>0, <2>1 DEF Threads
<1>d. ASSUME Next_packet(c) PROVE th'[c].pc = "recv"
  BY <1>0, <1>d DEF Next_packet, Threads
<1>e. ASSUME NEW p, NEW i, NEW o, th' = [th EXCEPT ![c].pc = p, ![c].i = i, ![c].out = o]
      PROVE  th'[c].pc = p /\ th'[c].i = i /\ th'[c].out = o
  <2>1. th'[c] = [th[c] EXCEPT !.pc = p, !.i = i, !.out = o]
    BY <1>0, <1>e
  <2> QED
    BY <1>0, <2>1 DEF Threads
<1>1. CASE Recv(c)
  <2>1. PICK pkt : th' = [th EXCEPT ![c].pkt = pkt, ![c].pc =
                           IF pkt.command \in Activity THEN "touch"
                           ELSE HandlerOf(pkt.command)]
    BY <1>1 DEF Recv
  <2>2. th'[c].pc = IF pkt.command \in Activity THEN "touch" ELSE HandlerOf(pkt.command)
    BY <1>0, <2>1 DEF Threads
  <2> QED
    BY <1>a, <2>2 DEF Outgoing
<1>2. CASE Touch(c)
  <2>1. PICK p \in {"notice", HandlerOf(th[c].pkt.command)} : Goto(c, p)
    BY <1>2 DEF Touch
  <2> QED
    BY <1>a, <1>b, <2>1 DEF Outgoing
<1>3. CASE Notice(c) \/ RecvFails(c) \/ Remove(c)
  <2>1. PICK p \in {"resolve", "close", HandlerOf(th[c].pkt.command)} : Goto(c, p)
    BY <1>3 DEF Notice, RecvFails, Remove
  <2> QED
    BY <1>a, <1>b, <2>1 DEF Outgoing
<1>4. CASE Close(c)
  <2>1. PICK p \in {"announce", "done"} : Goto(c, p)
    BY <1>4 DEF Close
  <2> QED
    BY <1>b, <2>1 DEF Outgoing
<1>5. CASE BroadcastDone(c) \/ DirectSend(c) \/ Reply(c)
  <2>1. Next_packet(c) \/ Goto(c, "resolve")
    BY <1>5 DEF BroadcastDone, DirectSend, Reply
  <2> QED
    BY <1>b, <1>d, <2>1 DEF Outgoing
<1>6. CASE HandleBroadcast(c)
  <2> DEFINE o == Packet("MSG", Clip[th[c].pkt.sender], "ALL", th[c].pkt.payload)
  <2>1. /\ o.command = "MSG" /\ o.sender = Clip[th[c].pkt.sender]
        /\ o.target = "ALL" /\ o.payload = th[c].pkt.payload
    BY DEF Packet
  <2>2. th' = [th EXCEPT ![c].pc = "sending", ![c].i = 0, ![c].out = o]
    BY <1>6 DEF HandleBroadcast
  <2> HIDE DEF o
  <2>3. th'[c].pc = "sending" /\ th'[c].out = o
    BY <1>e, <2>2
  <2> QED
    BY <1>6, <2>1, <2>3
<1>7. CASE NotifyDisconnect(c)
  <2> DEFINE o == Packet("DISCONNECTED", "SERVER", "ALL", th[c].username)
  <2>1. o.command = "DISCONNECTED" /\ o.payload = th[c].username
    BY DEF Packet
  <2>2. th' = [th EXCEPT ![c].pc = "telling", ![c].i = 0, ![c].out = o]
    BY <1>7 DEF NotifyDisconnect
  <2> HIDE DEF o
  <2>3. th'[c].pc = "telling" /\ th'[c].out = o
    BY <1>e, <2>2
  <2> QED
    BY <1>7, <2>1, <2>3
<1>8. CASE HandleDirect(c)
  <2> DEFINE idx == cl_find_by_name(th[c].pkt.target)
             o == Packet("MSG", Clip[th[c].pkt.sender], Clip[th[c].pkt.target],
                         th[c].pkt.payload)
             e == Error(th[c].pkt.sender, "not connected")
  <2>1. CASE idx >= 0
    <3>1. idx \in Active /\ lista[idx].username = th[c].pkt.target
      BY <1>0, <2>1, Finds DEF ListTypeOK
    <3>2. /\ o.command = "MSG" /\ o.sender = Clip[th[c].pkt.sender]
          /\ o.target = Clip[th[c].pkt.target] /\ o.payload = th[c].pkt.payload
      BY DEF Packet
    <3>3. th' = [th EXCEPT ![c].pc = "passing", ![c].i = idx, ![c].out = o]
      BY <1>8, <2>1 DEF HandleDirect
    <3> HIDE DEF idx, o
    <3>4. th'[c].pc = "passing" /\ th'[c].i = idx /\ th'[c].out = o
      BY <1>e, <3>3
    <3> QED
      BY <1>8, <3>1, <3>2, <3>4
  <2>2. CASE ~(idx >= 0)
    <3>1. Answer(c, e)
      BY <1>8, <2>2 DEF HandleDirect
    <3>2. e.command = "ERROR" /\ e.payload = "not connected"
      BY DEF Error, Packet
    <3> HIDE DEF e
    <3> QED
      BY <1>c, <3>1, <3>2 DEF Refusal, Unasked
  <2> QED
    BY <2>1, <2>2
<1>9. CASE HandleStatus(c)
  <2>1. PICK ret \in {0, -1} :
          /\ cl_set_status(th[c].pkt.sender, th[c].pkt.payload, ret)
          /\ Answer(c, IF ret = 0 THEN Ok(th[c].pkt.sender, th[c].pkt.payload)
                       ELSE Error(th[c].pkt.sender, "status refused"))
    BY <1>9 DEF HandleStatus
  <2>2. CASE ret = 0
    <3> DEFINE o == Ok(th[c].pkt.sender, th[c].pkt.payload)
    <3>1. th[c].pkt.payload \in Statuses
      BY <1>9, RequestFields DEF HandleStatus, Serving
    <3>2. o.command = "OK" /\ o.payload = th[c].pkt.payload
      BY DEF Ok, Packet
    <3>3. Answer(c, o)
      BY <2>1, <2>2
    <3> HIDE DEF o
    <3> QED
      BY <1>c, <3>1, <3>2, <3>3 DEF Refusal, Unasked, Statuses
  <2>3. CASE ret # 0
    <3> DEFINE o == Error(th[c].pkt.sender, "status refused")
    <3>1. ~(cl_find_by_name(th[c].pkt.sender) >= 0)
      BY <2>1, <2>3 DEF cl_set_status
    <3>2. cl_find_by_name(th[c].pkt.sender) < 0
      <4>1. cl_find_by_name(th[c].pkt.sender) \in Int
        BY <1>0, Finds DEF ListTypeOK
      <4> QED
        BY <3>1, <4>1
    <3>3. o.command = "ERROR"
      BY DEF Error, Packet
    <3>4. Answer(c, o)
      BY <2>1, <2>3
    <3> HIDE DEF o
    <3> QED
      BY <1>9, <1>c, <3>2, <3>3, <3>4 DEF Unasked
  <2> QED
    BY <2>2, <2>3
<1>10. CASE HandleList(c) \/ HandleInfo(c)
  <2> DEFINE list == Packet("USER_LIST", "SERVER", Clip[th[c].pkt.sender], "roster")
             info == Packet("USER_INFO", "SERVER", Clip[th[c].pkt.sender], "info")
             none == Error(th[c].pkt.sender, "not connected")
  <2>1. /\ list.command = "USER_LIST" /\ list.payload = "roster"
        /\ info.command = "USER_INFO" /\ info.payload = "info"
        /\ none.command = "ERROR" /\ none.payload = "not connected"
    BY DEF Packet, Error
  <2>2. Answer(c, list) \/ Answer(c, info) \/ Answer(c, none)
    BY <1>10 DEF HandleList, HandleInfo
  <2> HIDE DEF list, info, none
  <2> QED
    BY <1>c, <2>1, <2>2 DEF Refusal, Unasked
<1>11. CASE HandleLogout(c)
  <2> DEFINE o == Ok(th[c].pkt.sender, "bye")
  <2>1. o.command = "OK" /\ o.payload = "bye"
    BY DEF Ok, Packet
  <2>2. PICK u : th' = [th EXCEPT ![c].pc = "reply", ![c].username = u, ![c].out = o]
    BY <1>11 DEF HandleLogout
  <2> HIDE DEF o
  <2>3. th'[c] = [th[c] EXCEPT !.pc = "reply", !.username = u, !.out = o]
    BY <1>0, <2>2
  <2>4. th'[c].pc = "reply" /\ th'[c].out = o
    BY <1>0, <2>3 DEF Threads
  <2> QED
    BY <2>1, <2>4 DEF Refusal, Unasked
<1>12. CASE SendNext(c)
  <2>1. th'[c].pc = th[c].pc /\ th'[c].out = th[c].out
    BY <1>0, <1>12 DEF SendNext, Threads
  <2> QED
    BY <1>12, <2>1
<1>13. CASE NotifyDone(c)
  <2>1. th'[c].pc = "done"
    BY <1>0, <1>13 DEF NotifyDone, NoThread
  <2> QED
    BY <2>1 DEF Outgoing
<1>14. CASE ResolveName(c)
  <2>1. \/ th' = [th EXCEPT ![c].pc = "remove"]
        \/ \E u : th' = [th EXCEPT ![c].pc = "remove", ![c].username = u]
    BY <1>14 DEF ResolveName, Goto
  <2>2. th'[c].pc = "remove"
    BY <1>0, <2>1 DEF Threads
  <2> QED
    BY <2>2 DEF Outgoing
<1> QED
  BY <1>1, <1>2, <1>3, <1>4, <1>5, <1>6, <1>7, <1>8, <1>9, <1>10, <1>11, <1>12,
     <1>13, <1>14 DEF ClientThread

-----------------------------------------------------------------------------
\* What a step does to the table

\* Who is in the table changes by a registration or a removal, and both wait
\* for the mutex.
LEMMA TableMoves ==
  ASSUME TableInv, [Next]_vars
  PROVE  SameEntries \/ mutex_lista = Unlocked
<1>0. BasicInv /\ Basics
  BY DEF TableInv, BasicInv
<1>1. ASSUME AcceptLoop PROVE SameEntries \/ mutex_lista = Unlocked
  <2>1. CASE HandleRegister
    BY <2>1 DEF HandleRegister, cl_add
  <2>2. CASE ~HandleRegister
    <3>1. UNCHANGED <<lista, num_clientes>>
      BY <1>1, <2>2 DEF AcceptLoop, listVars, Accept, FirstIsRegister, FirstIsNot,
        AnswerRegister, CheckRegistered
    <3> QED
      BY <3>1, NoChange
  <2> QED
    BY <2>1, <2>2
<1>2. ASSUME NEW c \in Conns, ClientThread(c)
      PROVE  SameEntries \/ mutex_lista = Unlocked
  BY <1>0, <1>2, ThreadEntries DEF Remove, cl_remove
<1>3. ASSUME NEW c \in Conns, Client(c) PROVE SameEntries
  <2>1. UNCHANGED <<lista, num_clientes>>
    BY <1>3 DEF Client, serverVars, listVars
  <2> QED
    BY <2>1, NoChange
<1>4. ASSUME InactivityThread PROVE SameEntries
  BY <1>0, <1>4, MonitorEntries
<1>5. ASSUME Tick \/ UNCHANGED vars PROVE SameEntries
  <2>1. UNCHANGED <<lista, num_clientes>>
    BY <1>5 DEF Tick, vars, serverVars, listVars
  <2> QED
    BY <2>1, NoChange
<1> QED
  BY <1>1, <1>2, <1>3, <1>4, <1>5 DEF Next, Over

\* A descriptor changes hands only by being closed first.
LEMMA DescriptorMoves ==
  ASSUME TableInv, [Next]_vars, NEW f \in Fds
  PROVE  descr'[f] = descr[f] \/ descr[f] = NoConn \/ descr'[f] = NoConn
<1>0. Basics /\ descr \in [Fds -> Conns \cup {NoConn}]
  BY DEF TableInv, BasicInv, Basics, TypeOK
<1>1. ASSUME AcceptLoop
      PROVE  descr'[f] = descr[f] \/ descr[f] = NoConn \/ descr'[f] = NoConn
  <2>1. CASE Accept
    <3>1. /\ FreeFds # {}
          /\ descr' = [descr EXCEPT ![Min(FreeFds)] = Head(backlog)]
      BY <2>1 DEF Accept
    <3>2. FreeFds \in SUBSET Nat
      BY ListAssumption DEF FreeFds
    <3>3. Min(FreeFds) \in FreeFds
      BY <3>1, <3>2, MinExists
    <3>4. descr[Min(FreeFds)] = NoConn
      BY <3>3 DEF FreeFds
    <3> QED
      BY <1>0, <3>1, <3>4
  <2>2. CASE FirstIsNot \/ CheckRegistered
    <3>1. descr' = descr \/ descr' = [descr EXCEPT ![acc.fd] = NoConn]
      BY <2>2 DEF FirstIsNot, CheckRegistered, close
    <3> QED
      BY <1>0, <3>1
  <2>3. CASE FirstIsRegister \/ HandleRegister \/ AnswerRegister
    BY <2>3 DEF FirstIsRegister, HandleRegister, AnswerRegister
  <2> QED
    BY <1>1, <2>1, <2>2, <2>3 DEF AcceptLoop
<1>2. ASSUME NEW c \in Conns, ClientThread(c)
      PROVE  descr'[f] = descr[f] \/ descr'[f] = NoConn
  BY <1>0, <1>2, ThreadKeepsPeer
<1>3. ASSUME NEW c \in Conns, Client(c) PROVE descr' = descr
  BY <1>3 DEF Client, serverVars
<1>4. ASSUME InactivityThread \/ Tick \/ UNCHANGED vars PROVE descr' = descr
  BY <1>4 DEF InactivityThread, Tick, vars, serverVars
<1> QED
  BY <1>1, <1>2, <1>3, <1>4 DEF Next, Over

\* While the mutex is held the slots in use stay the same users'.
LEMMA HeldSlots ==
  ASSUME TableInv, TableInv', [Next]_vars, mutex_lista # Unlocked
  PROVE  /\ Active' = Active
         /\ \A i \in Active : /\ lista'[i].username = lista[i].username
                              /\ Owner(i)' = Owner(i) /\ Owner(i) \in Conns
<1>1. SameEntries
  BY TableMoves
<1>2. ASSUME NEW i \in Active PROVE Owner(i)' = Owner(i) /\ Owner(i) \in Conns
  <2>1. lista[i].sockfd \in Fds /\ Owner(i) \in Conns
    BY DEF TableInv, Entries
  <2>2. i \in Active' /\ lista'[i].sockfd = lista[i].sockfd
    BY <1>1 DEF SameEntries
  <2>3. Owner(i)' \in Conns
    BY <2>2 DEF TableInv, Entries
  <2>4. NoConn \notin Conns
    BY ServerAssumption
  <2> QED
    BY <2>1, <2>2, <2>3, <2>4, DescriptorMoves DEF Owner
<1> QED
  BY <1>1, <1>2 DEF SameEntries

\* A step changes one thread at most: that of the client it is a step of, or
\* the one it starts.
LEMMA ThreadsApart ==
  ASSUME TableInv, [Next]_vars, NEW c \in Conns
  PROVE  \/ th'[c] = th[c]
         \/ ClientThread(c)
         \/ /\ AcceptLoop /\ acc.pc = "check" /\ Peer = c
            /\ th[c].pc = "none" /\ th'[c].pc = "recv"
<1>0. Basics /\ th \in [Conns -> Threads]
  BY DEF TableInv, BasicInv, Basics, TypeOK
<1>1. ASSUME AcceptLoop, th'[c] # th[c]
      PROVE  /\ acc.pc = "check" /\ Peer = c
             /\ th[c].pc = "none" /\ th'[c].pc = "recv"
  <2>1. /\ acc.pc = "check"
        /\ th' = [th EXCEPT ![Peer].pc = "recv", ![Peer].sockfd = acc.fd]
    BY <1>1 DEF AcceptLoop, Accept, FirstIsRegister, FirstIsNot, HandleRegister,
      AnswerRegister, CheckRegistered
  <2>2. Peer \in Conns /\ th[Peer].pc = "none"
    BY <1>0, <2>1, PeerApart
  <2>3. Peer = c
    BY <1>0, <1>1, <2>1, <2>2
  <2>4. th'[c].pc = "recv"
    BY <1>0, <2>1, <2>3 DEF Threads
  <2> QED
    BY <2>1, <2>2, <2>3, <2>4
<1>2. ASSUME NEW d \in Conns, ClientThread(d) PROVE th'[c] = th[c] \/ ClientThread(c)
  BY <1>0, <1>2, ThreadFrame
<1>3. ASSUME NEW d \in Conns, Client(d) PROVE th' = th
  BY <1>3 DEF Client, serverVars
<1>4. ASSUME InactivityThread \/ Tick \/ UNCHANGED vars PROVE th' = th
  BY <1>4 DEF InactivityThread, Tick, vars, serverVars
<1> QED
  BY <1>1, <1>2, <1>3, <1>4 DEF Next, Over

-----------------------------------------------------------------------------
\* The packets in hand

(***************************************************************************)
(* A packet a thread is sending is one for all, an answer to its own       *)
(* client, or a direct message for the user of the slot it is sent to; no  *)
(* user's message is signed by the server.                                 *)
(***************************************************************************)
OutOf(c) ==
  /\ th[c].pc \in {"sending", "passing"} =>
       th[c].out.command = "MSG" /\ th[c].out.sender # "SERVER"
  /\ th[c].pc = "sending" => th[c].out.target = "ALL"
  /\ th[c].pc = "telling" => th[c].out.command = "DISCONNECTED"
  /\ th[c].pc = "reply" => th[c].out.command \notin Unasked
  /\ th[c].pc = "passing" =>
       th[c].i \in Active /\ th[c].out.target = lista[th[c].i].username

Outs == \A c \in Conns : OutOf(c)

\* What a slot keeps of a user's name is not the server's, nor everybody's.
LEMMA NameCut ==
  ASSUME NEW n \in Names \cup {""}
  PROVE  Clip[n] \in Names \cup {""} /\ Clip[n] \notin {"SERVER", "ALL"}
<1>1. Clip[n] \in Names \cup {""}
  BY ListAssumption
<1> QED
  BY <1>1, NamesAssumption

LEMMA NotTheServer ==
  ASSUME Basics, NEW c \in Conns, th[c].pc \in Serving
  PROVE  Clip[th[c].pkt.sender] # "SERVER"
<1>1. th[c].pkt.sender = NameOf[c] /\ NameOf[c] \in Names
  BY RequestFields
<1> QED
  BY <1>1, NameCut

LEMMA OutsStep ==
  ASSUME TableInv, TableInv', Outs, [Next]_vars
  PROVE  Outs'
<1> SUFFICES ASSUME NEW c \in Conns PROVE OutOf(c)'
  BY DEF Outs
<1>0. Basics /\ OutOf(c) /\ (th[c].pc = "passing" => mutex_lista # Unlocked)
  <2>1. Unlocked \notin Conns
    BY ServerAssumption
  <2> QED
    BY <2>1 DEF TableInv, BasicInv, Outs, MutexProtects
<1>1. CASE th'[c] = th[c]
  BY <1>0, <1>1, HeldSlots DEF OutOf
<1>2. CASE th'[c].pc \notin Outgoing
  BY <1>2 DEF OutOf, Outgoing
<1>3. CASE ClientThread(c) /\ th'[c].pc \in Outgoing
  <2>1. CASE SendNext(c) /\ th'[c].pc = th[c].pc /\ th'[c].out = th[c].out
    <3>1. th[c].pc \in {"sending", "telling"}
      BY <2>1 DEF SendNext
    <3> QED
      BY <1>0, <2>1, <3>1 DEF OutOf
  <2>2. CASE /\ HandleBroadcast(c) /\ th'[c].pc = "sending"
             /\ th'[c].out.command = "MSG" /\ th'[c].out.sender = Clip[th[c].pkt.sender]
             /\ th'[c].out.target = "ALL"
    BY <1>0, <2>2, NotTheServer DEF OutOf, HandleBroadcast, Serving
  <2>3. CASE th'[c].pc = "telling" /\ th'[c].out.command = "DISCONNECTED"
    BY <2>3 DEF OutOf
  <2>4. CASE th'[c].pc = "reply" /\ th'[c].out.command \notin Unasked
    BY <2>4 DEF OutOf
  <2>5. CASE /\ HandleDirect(c) /\ th'[c].pc = "passing"
             /\ th'[c].i \in Active /\ lista[th'[c].i].username = th[c].pkt.target
             /\ th'[c].out.command = "MSG" /\ th'[c].out.sender = Clip[th[c].pkt.sender]
             /\ th'[c].out.target = Clip[th[c].pkt.target]
    <3>0. th'[c].out.sender # "SERVER"
      BY <1>0, <2>5, NotTheServer DEF HandleDirect, Serving
    <3>1. UNCHANGED <<lista, num_clientes>>
      BY <2>5 DEF HandleDirect
    <3>2. Active' = Active /\ lista' = lista
      BY <3>1, NoChange DEF SameEntries
    <3>3. PICK n \in Names : th[c].pkt.target = Clip[n]
      <4>1. /\ lista[th'[c].i].username = Clip[NameOf[Owner(th'[c].i)]]
            /\ Owner(th'[c].i) \in Conns
        BY <2>5 DEF TableInv, Entries
      <4>2. NameOf[Owner(th'[c].i)] \in Names
        BY <4>1, ServerAssumption
      <4> QED
        BY <2>5, <4>1, <4>2
    <3>4. Clip[th[c].pkt.target] = th[c].pkt.target
      BY <3>3, ClipAssumption
    <3> QED
      BY <2>5, <3>0, <3>2, <3>4 DEF OutOf
  <2> QED
    BY <1>0, <1>3, <2>1, <2>2, <2>3, <2>4, <2>5, ThreadSpeaks
<1> QED
  BY <1>1, <1>2, <1>3, ThreadsApart DEF Outgoing

-----------------------------------------------------------------------------
\* What a step delivers, and to whom

Delivers(d, p) == delivered' = [delivered EXCEPT ![d] = Append(@, p)]

\* A direct message is for the user it reaches.
ForMe(d, p) ==
  p.command = "MSG" /\ p.sender # "SERVER" /\ p.target # "ALL"
    => p.target = Clip[NameOf[d]]

LEMMA SendDelivers ==
  ASSUME TypeOK, NEW fd \in Fds, NEW p, send_packet(fd, p)
  PROVE  /\ UNCHANGED delivered
            \/ (descr[fd] \in Conns /\ cli[descr[fd]] = "up" /\ Delivers(descr[fd], p))
         /\ descr[fd] \in Conns /\ cli[descr[fd]] = "up" => Delivers(descr[fd], p)
<1>1. descr[fd] \in Conns \cup {NoConn} /\ NoConn \notin Conns
  BY ServerAssumption DEF TypeOK
<1> QED
  BY <1>1 DEF send_packet, Delivers

\* What goes to a slot in use goes to its registered user.
LEMMA SendToSlot ==
  ASSUME TableInv, NEW i \in Active, NEW p, send_packet(lista[i].sockfd, p)
  PROVE  /\ UNCHANGED delivered \/ Delivers(Owner(i), p)
         /\ cli[Owner(i)] = "up" => Delivers(Owner(i), p)
         /\ Owner(i) \in Conns /\ Registered(Owner(i))
         /\ lista[i].username = Clip[NameOf[Owner(i)]]
<1>1. TypeOK /\ lista[i].sockfd \in Fds /\ Owner(i) \in Conns
  BY DEF TableInv, BasicInv, Basics, Entries
<1>2. Registered(Owner(i)) /\ lista[i].username = Clip[NameOf[Owner(i)]]
  BY DEF TableInv, Entries
<1> QED
  BY <1>1, <1>2, SendDelivers DEF Owner

\* A thread's own client is registered while the thread answers it.
LEMMA SendToOwn ==
  ASSUME TableInv, NEW c \in Conns, th[c].pc \in {"notice", "reply"}, NEW p,
         send_packet(th[c].sockfd, p)
  PROVE  (UNCHANGED delivered \/ Delivers(c, p)) /\ Registered(c)
<1>1. TypeOK /\ th[c].sockfd \in Fds /\ descr[th[c].sockfd] = c
  BY DEF TableInv, BasicInv, Basics, DescriptorsOwned, OpenThreads, ThreadPCs
<1> QED
  BY <1>1, SendDelivers DEF Registered

\* The round of a loop over the slots sends to one that is in use.
LEMMA SendNextSlot ==
  ASSUME TypeOK, NEW c \in Conns, SendNext(c)
  PROVE  \E j \in Active : /\ send_packet(lista[j].sockfd, th[c].out)
                           /\ th'[c].i = j + 1 /\ j >= th[c].i
                           /\ \A i \in Active : i >= th[c].i => i >= j
<1>1. th \in [Conns -> Threads] /\ Active \in SUBSET Nat
  BY ActiveSlots DEF TypeOK
<1>2. PICK rest : rest = {j \in Active : j >= th[c].i}
  OBVIOUS
<1>3. /\ rest # {} /\ send_packet(lista[Min(rest)].sockfd, th[c].out)
      /\ th' = [th EXCEPT ![c].i = Min(rest) + 1]
  BY <1>2 DEF SendNext, SendToNext, After
<1>4. rest \in SUBSET Nat /\ Min(rest) \in rest /\ \A y \in rest : Min(rest) <= y
  BY <1>1, <1>2, <1>3, MinExists
<1>5. th'[c].i = Min(rest) + 1
  BY <1>1, <1>3 DEF Threads
<1>6. \A i \in Active : i >= th[c].i => i >= Min(rest)
  <2> SUFFICES ASSUME NEW i \in Active, i >= th[c].i PROVE i >= Min(rest)
    OBVIOUS
  <2>1. i \in rest /\ i \in Nat /\ Min(rest) \in Nat
    BY <1>1, <1>2, <1>4
  <2> QED
    BY <1>4, <2>1
<1> QED
  BY <1>2, <1>3, <1>4, <1>5, <1>6

(***************************************************************************)
(* A step delivers nothing, or one packet to one registered user, who may  *)
(* read it, or the refusal of its REGISTER to the peer of the main thread. *)
(***************************************************************************)
Regular(d, p) ==
  /\ ForMe(d, p)
  /\ \/ Registered(d)
     \/ /\ AnswerRegister /\ acc.pc = "answer" /\ acc.rc # 0 /\ d = Peer
        /\ p.command = "ERROR"
  /\ \/ p.payload # Refusal
     \/ \E c \in Conns : th[c].pc \in Outgoing /\ p.payload = th[c].out.payload

LEMMA ThreadDelivers ==
  ASSUME TableInv, Outs, NEW c \in Conns, ClientThread(c)
  PROVE  UNCHANGED delivered \/ \E d \in Conns : \E p : Delivers(d, p) /\ Regular(d, p)
<1>0. TypeOK /\ OutOf(c)
  BY DEF TableInv, BasicInv, Basics, Outs
<1>1. CASE Notice(c)
  <2>1. PICK p : /\ p = Packet("MSG", "SERVER", "", "back to ACTIVE")
                 /\ send_packet(th[c].sockfd, p) /\ th[c].pc = "notice"
    BY <1>1 DEF Notice
  <2>2. p.sender = "SERVER" /\ p.payload = "back to ACTIVE"
    BY <2>1 DEF Packet
  <2>3. (UNCHANGED delivered \/ Delivers(c, p)) /\ Registered(c)
    BY <2>1, SendToOwn
  <2>4. Regular(c, p)
    BY <2>2, <2>3 DEF Regular, ForMe, Refusal
  <2> QED
    BY <2>3, <2>4
<1>2. CASE Reply(c)
  <2>1. send_packet(th[c].sockfd, th[c].out) /\ th[c].pc = "reply"
    BY <1>2 DEF Reply
  <2>2. (UNCHANGED delivered \/ Delivers(c, th[c].out)) /\ Registered(c)
    BY <2>1, SendToOwn
  <2>3. Regular(c, th[c].out)
    BY <1>0, <2>1, <2>2 DEF Regular, ForMe, OutOf, Outgoing, Unasked
  <2> QED
    BY <2>2, <2>3
<1>3. CASE SendNext(c)
  <2>1. PICK j \in Active : send_packet(lista[j].sockfd, th[c].out)
    BY <1>0, <1>3, SendNextSlot
  <2>2. /\ UNCHANGED delivered \/ Delivers(Owner(j), th[c].out)
        /\ Owner(j) \in Conns /\ Registered(Owner(j))
    BY <2>1, SendToSlot
  <2>3. PICK d \in Conns : d = Owner(j)
    BY <2>2
  <2>4. th[c].pc \in {"sending", "telling"}
    BY <1>3 DEF SendNext
  <2>5. Registered(d)
    BY <2>2, <2>3
  <2>6. Regular(d, th[c].out)
    BY <1>0, <2>4, <2>5 DEF Regular, ForMe, OutOf, Outgoing
  <2> QED
    BY <2>2, <2>3, <2>6
<1>4. CASE DirectSend(c)
  <2>1. th[c].pc = "passing" /\ send_packet(lista[th[c].i].sockfd, th[c].out)
    BY <1>4 DEF DirectSend
  <2>2. PICK i \in Active : i = th[c].i /\ th[c].out.target = lista[i].username
    BY <1>0, <2>1 DEF OutOf
  <2>3. /\ UNCHANGED delivered \/ Delivers(Owner(i), th[c].out)
        /\ Owner(i) \in Conns /\ Registered(Owner(i))
        /\ lista[i].username = Clip[NameOf[Owner(i)]]
    BY <2>1, <2>2, SendToSlot
  <2>4. PICK d \in Conns : d = Owner(i)
    BY <2>3
  <2>5. Registered(d) /\ th[c].out.target = Clip[NameOf[d]]
    BY <2>2, <2>3, <2>4
  <2>6. Regular(d, th[c].out)
    BY <2>1, <2>5 DEF Regular, ForMe, Outgoing
  <2> QED
    BY <2>3, <2>4, <2>6
<1>5. CASE ~(Notice(c) \/ Reply(c) \/ SendNext(c) \/ DirectSend(c))
  BY <1>5 DEF ClientThread, Recv, RecvFails, Touch, HandleBroadcast,
    BroadcastDone, HandleDirect, HandleStatus, HandleList, HandleInfo,
    HandleLogout, ResolveName, Remove, Close, NotifyDisconnect, NotifyDone
<1> QED
  BY <1>1, <1>2, <1>3, <1>4, <1>5

LEMMA AcceptDelivers ==
  ASSUME TableInv, AcceptLoop
  PROVE  UNCHANGED delivered \/ \E d \in Conns : \E p : Delivers(d, p) /\ Regular(d, p)
<1>1. CASE AnswerRegister
  <2>0. Basics /\ acc \in AccRecords
    BY DEF TableInv, BasicInv, Basics, TypeOK, AccRecords
  <2>1. acc.pc = "answer" /\ send_packet(acc.fd, Greeting)
    BY <1>1 DEF AnswerRegister
  <2>2. PICK d \in Conns : d = Peer /\ d = descr[acc.fd] /\ acc.fd \in Fds
    BY <2>0, <2>1, PeerApart
  <2>3. /\ Greeting.command # "MSG" /\ Greeting.payload # Refusal
        /\ acc.rc # 0 => Greeting.command = "ERROR"
    BY <2>0 DEF Greeting, Ok, Error, Packet, Refusal
  <2>4. acc.rc = 0 => Registered(d)
    BY <2>1, <2>2 DEF Registered
  <2>5. Regular(d, Greeting)
    BY <1>1, <2>1, <2>2, <2>3, <2>4 DEF Regular, ForMe
  <2>6. UNCHANGED delivered \/ Delivers(d, Greeting)
    BY <2>0, <2>1, <2>2, SendDelivers DEF Basics
  <2> QED
    BY <2>5, <2>6
<1>2. CASE ~AnswerRegister
  BY <1>2 DEF AcceptLoop, Accept, FirstIsRegister, FirstIsNot, HandleRegister,
    CheckRegistered
<1> QED
  BY <1>1, <1>2

LEMMA MonitorDelivers ==
  ASSUME TableInv, InactivityThread
  PROVE  UNCHANGED delivered \/ \E d \in Conns : \E p : Delivers(d, p) /\ Regular(d, p)
<1>1. CASE MonitorTell
  <2>1. PICK i : i = mon.i
    OBVIOUS
  <2>2. i \in Active
    BY <1>1, <2>1 DEF MonitorTell, TableInv, MutexProtects
  <2>3. PICK p : /\ p = Packet("MSG", "SERVER", lista[i].username, "now INACTIVE")
                 /\ send_packet(lista[i].sockfd, p)
    BY <1>1, <2>1 DEF MonitorTell
  <2>4. p.sender = "SERVER" /\ p.payload = "now INACTIVE"
    BY <2>3 DEF Packet
  <2>5. /\ UNCHANGED delivered \/ Delivers(Owner(i), p)
        /\ Owner(i) \in Conns /\ Registered(Owner(i))
    BY <2>2, <2>3, SendToSlot
  <2>6. PICK d \in Conns : d = Owner(i)
    BY <2>5
  <2>7. Registered(d)
    BY <2>5, <2>6
  <2>8. Regular(d, p)
    BY <2>4, <2>7 DEF Regular, ForMe, Refusal
  <2> QED
    BY <2>5, <2>6, <2>8
<1>2. CASE ~MonitorTell
  BY <1>2 DEF InactivityThread, MonitorWake, MonitorLock, MonitorMark, MonitorDone
<1> QED
  BY <1>1, <1>2

LEMMA Deliveries ==
  ASSUME TableInv, Outs, [Next]_vars
  PROVE  UNCHANGED delivered \/ \E d \in Conns : \E p : Delivers(d, p) /\ Regular(d, p)
<1>1. CASE \E c \in Conns : Client(c)
  BY <1>1 DEF Client, serverVars
<1>2. CASE Tick \/ UNCHANGED vars
  BY <1>2 DEF Tick, vars, serverVars
<1> QED
  BY <1>1, <1>2, AcceptDelivers, ThreadDelivers, MonitorDelivers DEF Next, Over

\* Append leaves what was there.
LEMMA Grows ==
  ASSUME delivered \in [Conns -> Seq(ChatPacket)], NEW d \in Conns, NEW p, Delivers(d, p)
  PROVE  /\ \A c \in Conns \ {d} : delivered'[c] = delivered[c]
         /\ delivered'[d] = Append(delivered[d], p)
         /\ Len(delivered'[d]) = Len(delivered[d]) + 1
         /\ DOMAIN delivered'[d] = DOMAIN delivered[d] \cup {Len(delivered[d]) + 1}
         /\ \A k \in DOMAIN delivered[d] : delivered'[d][k] = delivered[d][k]
         /\ delivered'[d][Len(delivered[d]) + 1] = p
<1>1. /\ \A c \in Conns \ {d} : delivered'[c] = delivered[c]
      /\ delivered'[d] = Append(delivered[d], p)
  BY DEF Delivers
<1>2. PICK s \in Seq(ChatPacket) : s = delivered[d]
  OBVIOUS
<1>3. /\ Len(Append(s, p)) = Len(s) + 1
      /\ DOMAIN Append(s, p) = 1 .. Len(s) + 1 /\ DOMAIN s = 1 .. Len(s) /\ Len(s) \in Nat
      /\ \A k \in 1 .. Len(s) : Append(s, p)[k] = s[k]
      /\ Append(s, p)[Len(s) + 1] = p
  BY <1>2
<1>4. 1 .. Len(s) + 1 = (1 .. Len(s)) \cup {Len(s) + 1}
  BY <1>3
<1> QED
  BY <1>1, <1>2, <1>3, <1>4

LEMMA OutsInit ==
  ASSUME Init
  PROVE  Outs
<1>1. \A c \in Conns : th[c].pc = "none"
  BY DEF Init, NoThread
<1> QED
  BY <1>1 DEF Outs, OutOf

TableOuts == TableInv /\ Outs

LEMMA TableOutsInvariant == Spec => []TableOuts
<1>1. Init => TableOuts
  BY TableInit, OutsInit DEF TableOuts
<1>2. TableOuts /\ [Next]_vars => TableOuts'
  BY TableStep, OutsStep DEF TableOuts
<1> QED
  BY <1>1, <1>2, PTL DEF Spec

-----------------------------------------------------------------------------
\* Direct messages

Addressed == \A c \in Conns : \A k \in DOMAIN delivered[c] : ForMe(c, delivered[c][k])

LEMMA AddressedStep ==
  ASSUME TableOuts, Addressed, [Next]_vars
  PROVE  Addressed'
<1>0. delivered \in [Conns -> Seq(ChatPacket)]
  BY DEF TableOuts, TableInv, BasicInv, Basics, TypeOK
<1>1. CASE UNCHANGED delivered
  BY <1>1 DEF Addressed, ForMe
<1>2. ASSUME NEW d \in Conns, NEW p, Delivers(d, p), ForMe(d, p)
      PROVE  Addressed'
  <2> SUFFICES ASSUME NEW c \in Conns, NEW k \in DOMAIN delivered'[c]
               PROVE  ForMe(c, delivered'[c][k])
    BY DEF Addressed, ForMe
  <2>1. CASE c # d \/ k \in DOMAIN delivered[d]
    BY <1>0, <1>2, <2>1, Grows DEF Addressed
  <2>2. CASE c = d /\ k \notin DOMAIN delivered[d]
    <3>1. delivered'[c][k] = p
      BY <1>0, <1>2, <2>2, Grows
    <3> QED
      BY <1>2, <2>2, <3>1
  <2> QED
    BY <2>1, <2>2
<1> QED
  BY <1>1, <1>2, Deliveries DEF TableOuts, Regular

(***************************************************************************)
(* A direct message reaches nobody but the user it is addressed to: the    *)
(* slot that was found by name is the addressee's, and stays his until     *)
(* handle_direct has sent, whoever registers or leaves meanwhile.          *)
(***************************************************************************)
THEOREM DirectMessagesReachTheirTarget == Spec => []DirectReachesTarget
<1>1. Init => Addressed
  BY DEF Init, Addressed
<1>2. TableOuts /\ Addressed /\ [Next]_vars => Addressed'
  BY AddressedStep
<1>3. Addressed => DirectReachesTarget
  BY DEF Addressed, ForMe, DirectReachesTarget
<1> QED
  BY <1>1, <1>2, <1>3, TableOutsInvariant, PTL DEF Spec

-----------------------------------------------------------------------------
\* Who is not registered

\* Who has not been answered yet, and has no slot.
Pending(c) ==
  \/ cli[c] = "new"
  \/ \E k \in DOMAIN backlog : backlog[k] = c
  \/ Peer = c /\ acc.pc \in {"first", "register"}
  \/ Peer = c /\ acc.pc = "answer" /\ acc.rc # 0

Fresh ==
  \A c \in Conns : th[c].pc = "none" /\ Pending(c) => delivered[c] = <<>>

LEMMA PendingIsOut ==
  ASSUME TableInv, NEW c \in Conns, th[c].pc = "none", Pending(c)
  PROVE  ~Registered(c)
<1>1. acc.pc # "accept" => acc.fd \in Fds /\ Peer = descr[acc.fd]
  BY PeerApart DEF TableInv, BasicInv
<1>2. cli[c] = "new" \/ (\E k \in DOMAIN backlog : backlog[k] = c)
        => \A f \in Fds : descr[f] # c
  BY DEF TableInv, BasicInv, Basics, DescriptorsOwned
<1>3. SUFFICES ASSUME acc.pc \in {"answer", "check"}, acc.rc = 0, Peer = c
               PROVE  FALSE
  BY DEF Registered
<1> QED
  BY <1>1, <1>2, <1>3 DEF Pending

\* A slot is kept until the thread removes it.
LEMMA StaysRegistered ==
  ASSUME TableInv, TableInv', [Next]_vars, NEW c \in Conns, th'[c].pc = "none"
  PROVE  th[c].pc = "none" /\ (Registered(c) => Registered(c)')
<1>0. Basics /\ acc \in AccRecords /\ ListTypeOK /\ th \in [Conns -> Threads]
  BY DEF TableInv, BasicInv, Basics, TypeOK, AccRecords, ListTypeOK
<1>1. th'[c] = th[c]
  <2>1. CASE ClientThread(c)
    BY <1>0, <2>1, ThreadSteps
  <2> QED
    BY <2>1, ThreadsApart
<1>2. SUFFICES ASSUME acc.pc \in {"answer", "check"}, acc.rc = 0, Peer = c
               PROVE  Registered(c)'
  BY <1>1 DEF Registered
<1>3. ASSUME AcceptLoop PROVE Registered(c)'
  <2>1. CASE AnswerRegister
    <3>1. UNCHANGED descr /\ acc' = [acc EXCEPT !.pc = "check"]
      BY <2>1 DEF AnswerRegister
    <3>2. acc'.pc = "check" /\ acc'.rc = 0 /\ acc'.fd = acc.fd
      BY <1>0, <1>2, <3>1 DEF AccRecords
    <3> QED
      BY <1>2, <3>1, <3>2 DEF Registered, Peer
  <2>2. CASE CheckRegistered
    <3>1. acc.pc # "accept" /\ Registered(c)
      BY <1>2 DEF Registered
    <3>2. \E i \in Active : lista[i].sockfd = acc.fd
      BY <1>0, <1>2, <3>1, PeerSlot DEF TableInv
    <3>3. ~(cl_find_by_fd(acc.fd) < 0)
      BY <1>0, <3>2, Finds DEF ListTypeOK
    <3>4. th' = [th EXCEPT ![c].pc = "recv", ![c].sockfd = acc.fd]
      BY <1>2, <2>2, <3>3 DEF CheckRegistered
    <3>5. th'[c].pc = "recv"
      BY <1>0, <3>4 DEF Threads
    <3> QED
      BY <3>5
  <2> QED
    BY <1>2, <1>3, <2>1, <2>2 DEF AcceptLoop, Accept, FirstIsRegister, FirstIsNot,
      HandleRegister
<1>4. ASSUME NEW d \in Conns, ClientThread(d) PROVE Registered(c)'
  <2>1. Peer' = Peer /\ acc' = acc
    BY <1>0, <1>2, <1>4, ThreadKeepsPeer
  <2> QED
    BY <1>2, <2>1 DEF Registered
<1>5. ASSUME (\E d \in Conns : Client(d)) \/ InactivityThread \/ Tick \/ UNCHANGED vars
      PROVE  Registered(c)'
  <2>1. UNCHANGED <<descr, acc>>
    BY <1>5 DEF Client, serverVars, InactivityThread, Tick, vars
  <2> QED
    BY <1>2, <2>1 DEF Registered, Peer
<1> QED
  BY <1>3, <1>4, <1>5 DEF Next, Over

\* Who is pending was pending before, and is not answered by this step.
LEMMA PendingBefore ==
  ASSUME TableInv, TableInv', [Next]_vars, NEW c \in Conns, th'[c].pc = "none",
         Pending(c)'
  PROVE  Pending(c) /\ ~(AnswerRegister /\ Peer = c)
<1>0. /\ Basics /\ Basics' /\ acc \in AccRecords /\ backlog \in Seq(Conns)
      /\ cli \in [Conns -> {"new", "up", "down"}]
      /\ descr \in [Fds -> Conns \cup {NoConn}]
  BY DEF TableInv, BasicInv, Basics, TypeOK, AccRecords
<1>1. ASSUME AcceptLoop PROVE Pending(c) /\ ~(AnswerRegister /\ Peer = c)
  <2>0. cli' = cli
    BY <1>1 DEF AcceptLoop, peers
  <2>1. CASE Accept
    <3>1. /\ backlog # <<>> /\ backlog' = Tail(backlog) /\ FreeFds # {}
          /\ descr' = [descr EXCEPT ![Min(FreeFds)] = Head(backlog)]
          /\ acc' = [acc EXCEPT !.pc = "first", !.fd = Min(FreeFds)]
          /\ acc.pc = "accept"
      BY <2>1 DEF Accept
    <3>2. FreeFds \in SUBSET Nat
      BY ListAssumption DEF FreeFds
    <3>3. Min(FreeFds) \in Fds
      BY <3>1, <3>2, MinExists DEF FreeFds
    <3>4. acc'.fd = Min(FreeFds)
      BY <1>0, <3>1 DEF AccRecords
    <3>5. Peer' = Head(backlog)
      BY <1>0, <3>1, <3>3, <3>4 DEF Peer
    <3>6. Head(backlog) = backlog[1] /\ 1 \in DOMAIN backlog
      BY <1>0, <3>1
    <3>7. \A k \in DOMAIN backlog' : k + 1 \in DOMAIN backlog /\ backlog'[k] = backlog[k + 1]
      BY <1>0, <3>1
    <3>8. Pending(c)
      BY <2>0, <3>5, <3>6, <3>7 DEF Pending
    <3> QED
      BY <3>1, <3>8 DEF AnswerRegister
  <2>2. CASE FirstIsRegister \/ HandleRegister
    <3>1. UNCHANGED <<descr, backlog>> /\ acc.pc \in {"first", "register"}
      BY <2>2 DEF FirstIsRegister, HandleRegister
    <3>2. acc'.fd = acc.fd
      <4>1. CASE FirstIsRegister
        BY <1>0, <4>1 DEF FirstIsRegister, AccRecords
      <4>2. CASE HandleRegister
        <5>1. \E ret : acc' = [acc EXCEPT !.pc = "answer", !.rc = ret]
          BY <4>2 DEF HandleRegister
        <5> QED
          BY <1>0, <5>1 DEF AccRecords
      <4> QED
        BY <2>2, <4>1, <4>2
    <3>3. Peer' = Peer
      BY <3>1, <3>2 DEF Peer
    <3> QED
      BY <2>0, <3>1, <3>3 DEF Pending, AnswerRegister
  <2>3. CASE AnswerRegister
    <3>1. UNCHANGED <<descr, backlog>> /\ acc' = [acc EXCEPT !.pc = "check"]
          /\ acc.pc = "answer"
      BY <2>3 DEF AnswerRegister
    <3>2. acc'.pc = "check" /\ acc'.fd = acc.fd /\ Peer' = Peer
      BY <1>0, <3>1 DEF AccRecords, Peer
    <3>3. cli[c] = "new" \/ \E k \in DOMAIN backlog : backlog[k] = c
      BY <2>0, <3>1, <3>2 DEF Pending
    <3>4. \A f \in Fds : descr[f] # c
      BY <1>0, <3>3 DEF Basics, DescriptorsOwned
    <3>5. Peer # c
      BY <1>0, <3>1, <3>4, PeerApart
    <3> QED
      BY <3>3, <3>5 DEF Pending
  <2>4. CASE FirstIsNot \/ CheckRegistered
    <3>1. UNCHANGED backlog /\ acc' = Accepting /\ acc.pc \in {"first", "check"}
      BY <2>4 DEF FirstIsNot, CheckRegistered
    <3>2. cli[c] = "new" \/ \E k \in DOMAIN backlog : backlog[k] = c
      BY <2>0, <3>1 DEF Pending, Accepting
    <3> QED
      BY <3>1, <3>2 DEF Pending, AnswerRegister
  <2> QED
    BY <1>1, <2>1, <2>2, <2>3, <2>4 DEF AcceptLoop
<1>a. ASSUME acc' = acc, acc.pc # "accept" => Peer' = Peer, UNCHANGED <<cli, backlog>>
      PROVE  Pending(c) /\ ~(AnswerRegister /\ Peer = c)
  <2>1. Pending(c)
    BY <1>a DEF Pending
  <2>2. ~AnswerRegister
    BY <1>0, <1>a DEF AnswerRegister, AccRecords
  <2> QED
    BY <2>1, <2>2
<1>2. ASSUME NEW d \in Conns, ClientThread(d)
      PROVE  Pending(c) /\ ~(AnswerRegister /\ Peer = c)
  <2>1. acc' = acc /\ UNCHANGED <<cli, backlog>>
    BY <1>2 DEF ClientThread, peers
  <2> QED
    BY <1>0, <1>2, <1>a, <2>1, ThreadKeepsPeer
<1>3. ASSUME NEW d \in Conns, Client(d)
      PROVE  Pending(c) /\ ~(AnswerRegister /\ Peer = c)
  <2>1. UNCHANGED <<descr, acc>>
    BY <1>3 DEF Client, serverVars
  <2>2. CASE Connect(d)
    <3>1. cli[d] = "new" /\ backlog' = Append(backlog, d) /\ cli' = [cli EXCEPT ![d] = "up"]
      BY <2>2 DEF Connect
    <3>2. CASE c = d
      BY <1>0, <2>1, <3>1, <3>2 DEF Pending, AnswerRegister, AccRecords
    <3>3. CASE c # d
      <4>1. cli'[c] = cli[c]
        BY <1>0, <3>1, <3>3
      <4>2. \A k \in DOMAIN backlog' : backlog'[k] = c =>
              k \in DOMAIN backlog /\ backlog[k] = c
        BY <1>0, <3>1, <3>3
      <4>3. Pending(c)
        BY <2>1, <4>1, <4>2 DEF Pending, Peer
      <4> QED
        BY <1>0, <2>1, <4>3 DEF AnswerRegister, AccRecords
    <3> QED
      BY <3>2, <3>3
  <2>3. CASE ~Connect(d)
    <3>1. UNCHANGED backlog /\ (cli' = cli \/ cli' = [cli EXCEPT ![d] = "down"])
      BY <1>3, <2>3 DEF Client, Hello, Ask, HangUp, StopReading, ReadAgain
    <3>2. cli'[c] = "new" => cli[c] = "new"
      BY <1>0, <3>1
    <3>3. Pending(c)
      BY <2>1, <3>1, <3>2 DEF Pending, Peer
    <3> QED
      BY <1>0, <2>1, <3>3 DEF AnswerRegister, AccRecords
  <2> QED
    BY <2>2, <2>3
<1>4. ASSUME InactivityThread \/ Tick \/ UNCHANGED vars
      PROVE  Pending(c) /\ ~(AnswerRegister /\ Peer = c)
  <2>1. UNCHANGED <<descr, acc, cli, backlog>>
    BY <1>4 DEF InactivityThread, Tick, vars, serverVars, peers
  <2> QED
    BY <1>a, <2>1 DEF Peer
<1> QED
  BY <1>1, <1>2, <1>3, <1>4 DEF Next, Over

LEMMA FreshStep ==
  ASSUME TableOuts, TableOuts', Fresh, [Next]_vars
  PROVE  Fresh'
<1> SUFFICES ASSUME NEW c \in Conns, th'[c].pc = "none", Pending(c)'
             PROVE  delivered'[c] = <<>>
  BY DEF Fresh, Pending
<1>0. TableInv /\ TableInv' /\ Outs /\ delivered \in [Conns -> Seq(ChatPacket)]
  BY DEF TableOuts, TableInv, BasicInv, Basics, TypeOK
<1>1. /\ th[c].pc = "none" /\ Pending(c) /\ ~Registered(c)
      /\ ~(AnswerRegister /\ Peer = c)
  BY <1>0, StaysRegistered, PendingBefore, PendingIsOut
<1>2. delivered[c] = <<>>
  BY <1>1 DEF Fresh
<1>3. ASSUME NEW d \in Conns, NEW p, Delivers(d, p), Regular(d, p)
      PROVE  delivered'[c] = delivered[c]
  <2>1. c # d
    BY <1>1, <1>3 DEF Regular
  <2> QED
    BY <1>0, <1>3, <2>1, Grows
<1> QED
  BY <1>0, <1>2, <1>3, Deliveries

LEMMA RefusedStep ==
  ASSUME TableOuts, TableOuts', Fresh, RefusedGetOnlyError, [Next]_vars
  PROVE  RefusedGetOnlyError'
<1> SUFFICES ASSUME NEW c \in Conns, th'[c].pc = "none", ~Registered(c)'
             PROVE  \/ delivered'[c] = <<>>
                    \/ Len(delivered'[c]) = 1 /\ Head(delivered'[c]).command = "ERROR"
  BY DEF RefusedGetOnlyError, Registered, Peer
<1>0. TableInv /\ TableInv' /\ Outs /\ delivered \in [Conns -> Seq(ChatPacket)]
  BY DEF TableOuts, TableInv, BasicInv, Basics, TypeOK
<1>1. th[c].pc = "none" /\ ~Registered(c)
  BY <1>0, StaysRegistered
<1>2. \/ delivered[c] = <<>>
      \/ Len(delivered[c]) = 1 /\ Head(delivered[c]).command = "ERROR"
  BY <1>1 DEF RefusedGetOnlyError
<1>3. ASSUME NEW d \in Conns, NEW p, Delivers(d, p), Regular(d, p), d # c
      PROVE  delivered'[c] = delivered[c]
  BY <1>0, <1>3, Grows
<1>4. ASSUME NEW p, Delivers(c, p), Regular(c, p)
      PROVE  Len(delivered'[c]) = 1 /\ Head(delivered'[c]).command = "ERROR"
  <2>1. acc.pc = "answer" /\ acc.rc # 0 /\ c = Peer /\ p.command = "ERROR"
    BY <1>1, <1>4 DEF Regular
  <2>2. delivered[c] = <<>>
    BY <1>1, <2>1 DEF Fresh, Pending
  <2>3. delivered'[c] = Append(<<>>, p)
    BY <1>0, <1>4, <2>2, Grows
  <2>4. Len(Append(<<>>, p)) = 1 /\ Head(Append(<<>>, p)) = p
    OBVIOUS
  <2> QED
    BY <2>1, <2>3, <2>4
<1>5. ASSUME NEW d \in Conns, NEW p, Delivers(d, p), Regular(d, p)
      PROVE  \/ delivered'[c] = delivered[c]
             \/ Len(delivered'[c]) = 1 /\ Head(delivered'[c]).command = "ERROR"
  BY <1>3, <1>4, <1>5
<1>6. UNCHANGED delivered \/ \E d \in Conns : \E p : Delivers(d, p) /\ Regular(d, p)
  BY <1>0, Deliveries
<1> QED
  BY <1>2, <1>5, <1>6

LEMMA FreshInit ==
  ASSUME Init
  PROVE  Fresh /\ RefusedGetOnlyError
<1>1. \A c \in Conns : delivered[c] = <<>>
  BY DEF Init
<1> QED
  BY <1>1 DEF Fresh, RefusedGetOnlyError

(***************************************************************************)
(* Who is not, or not yet, registered gets nothing but the one refusal of  *)
(* its REGISTER: no message for the user whose descriptor it was given.    *)
(***************************************************************************)
THEOREM RefusedHearOnlyTheError == Spec => []RefusedGetOnlyError
<1>1. Init => Fresh /\ RefusedGetOnlyError
  BY FreshInit
<1>2. TableOuts /\ TableOuts' /\ Fresh /\ RefusedGetOnlyError /\ [Next]_vars
        => Fresh' /\ RefusedGetOnlyError'
  BY FreshStep, RefusedStep
<1> QED
  BY <1>1, <1>2, TableOutsInvariant, PTL DEF Spec

-----------------------------------------------------------------------------
\* The loops that send to everybody

(***************************************************************************)
(* Whoever is in a slot behind the loop has been sent the packet.          *)
(***************************************************************************)
Behind(c) ==
  th[c].pc \in {"sending", "telling"} =>
    \A i \in Active :
      i < th[c].i /\ cli[Owner(i)] = "up" => Holds(delivered[Owner(i)], th[c].out)

AllBehind == \A c \in Conns : Behind(c)

\* Nothing that was delivered is lost.
LEMMA HoldsOn ==
  ASSUME TableOuts, [Next]_vars, NEW d \in Conns, NEW p, Holds(delivered[d], p)
  PROVE  Holds(delivered'[d], p)
<1>0. delivered \in [Conns -> Seq(ChatPacket)] /\ TableInv /\ Outs
  BY DEF TableOuts, TableInv, BasicInv, Basics, TypeOK
<1>1. PICK k \in DOMAIN delivered[d] : delivered[d][k] = p
  BY DEF Holds
<1>2. ASSUME NEW e \in Conns, NEW q, Delivers(e, q) PROVE Holds(delivered'[d], p)
  <2>1. k \in DOMAIN delivered'[d] /\ delivered'[d][k] = p
    BY <1>0, <1>1, <1>2, Grows
  <2> QED
    BY <2>1 DEF Holds
<1>3. CASE UNCHANGED delivered
  BY <1>3
<1> QED
  BY <1>0, <1>2, <1>3, Deliveries

\* Nobody comes back.
LEMMA WasUp ==
  ASSUME TableInv, [Next]_vars, NEW i \in Active, cli'[Owner(i)] = "up"
  PROVE  cli[Owner(i)] = "up"
<1>0. /\ Basics /\ cli \in [Conns -> {"new", "up", "down"}]
      /\ lista[i].sockfd \in Fds /\ Owner(i) \in Conns
  BY DEF TableInv, BasicInv, Basics, TypeOK, Entries
<1>1. cli[Owner(i)] # "new"
  BY <1>0 DEF Basics, DescriptorsOwned, Owner
<1>2. \/ cli' = cli
      \/ \E d \in Conns : \/ cli[d] = "new" /\ cli' = [cli EXCEPT ![d] = "up"]
                          \/ cli' = [cli EXCEPT ![d] = "down"]
  <2>1. ASSUME NEW d \in Conns, Client(d)
        PROVE  \/ cli' = cli
               \/ cli[d] = "new" /\ cli' = [cli EXCEPT ![d] = "up"]
               \/ cli' = [cli EXCEPT ![d] = "down"]
    BY <2>1 DEF Client, Connect, Hello, Ask, HangUp, StopReading, ReadAgain
  <2>2. ASSUME \/ AcceptLoop \/ InactivityThread \/ Tick \/ UNCHANGED vars
               \/ \E d \in Conns : ClientThread(d)
        PROVE  cli' = cli
    BY <2>2 DEF AcceptLoop, ClientThread, InactivityThread, Tick, vars, peers
  <2> QED
    BY <2>1, <2>2 DEF Next, Over
<1>3. PICK o \in Conns : o = Owner(i)
  BY <1>0
<1>4. cli'[o] = "up" /\ cli[o] # "new"
  BY <1>1, <1>3
<1>5. cli[o] = "up"
  BY <1>0, <1>2, <1>4
<1> QED
  BY <1>3, <1>5

LEMMA LoopIndex ==
  ASSUME NEW t \in Threads
  PROVE  t.i \in Nat
<1>1. t.i \in 0 .. MAX_CLIENTS
  BY DEF Threads
<1> QED
  BY <1>1, MaxClients

\* The round of the loop.
LEMMA BehindNext ==
  ASSUME TableOuts, TableOuts', NEW c \in Conns, Behind(c), ClientThread(c),
         SendNext(c), [Next]_vars
  PROVE  Behind(c)'
<1>0. /\ TableInv /\ TableInv' /\ TypeOK /\ th \in [Conns -> Threads]
      /\ delivered \in [Conns -> Seq(ChatPacket)] /\ Active \in SUBSET Nat
      /\ th[c].i \in Nat
  <2>1. TableInv /\ TableInv' /\ TypeOK
    BY DEF TableOuts, TableInv, BasicInv, Basics
  <2>2. th[c] \in Threads
    BY <2>1 DEF TypeOK
  <2> QED
    BY <2>1, <2>2, ActiveSlots, LoopIndex DEF TypeOK
<1>1. PICK j \in Active : /\ send_packet(lista[j].sockfd, th[c].out)
                          /\ th'[c].i = j + 1 /\ j >= th[c].i
                          /\ \A i \in Active : i >= th[c].i => i >= j
  BY <1>0, SendNextSlot
<1>2. th'[c].out = th[c].out /\ th'[c].pc = th[c].pc /\ th[c].pc \in {"sending", "telling"}
  BY <1>0 DEF SendNext, Threads
<1>3. mutex_lista # Unlocked
  BY <1>0, <1>2, ServerAssumption DEF TableInv, MutexProtects
<1>4. /\ Active' = Active
      /\ \A i \in Active : Owner(i)' = Owner(i) /\ Owner(i) \in Conns
  BY <1>0, <1>3, HeldSlots
<1>5. ASSUME NEW i \in Active, i < j + 1, cli[Owner(i)] = "up"
      PROVE  Holds(delivered'[Owner(i)], th[c].out)
  <2>1. CASE i = j
    <3>1. Delivers(Owner(j), th[c].out) /\ Owner(j) \in Conns
      BY <1>0, <1>1, <1>5, <2>1, SendToSlot
    <3>2. PICK d \in Conns : d = Owner(j) /\ Delivers(d, th[c].out)
      BY <3>1
    <3>3. PICK k : k \in DOMAIN delivered'[d] /\ delivered'[d][k] = th[c].out
      BY <1>0, <3>2, Grows
    <3>4. Holds(delivered'[d], th[c].out)
      BY <3>3 DEF Holds
    <3> QED
      BY <2>1, <3>2, <3>4
  <2>2. CASE i # j
    <3>1. i < th[c].i
      BY <1>0, <1>1, <1>5, <2>2
    <3>2. Holds(delivered[Owner(i)], th[c].out)
      BY <1>2, <1>5, <3>1 DEF Behind
    <3>3. PICK d \in Conns : d = Owner(i)
      BY <1>4
    <3>4. Holds(delivered'[d], th[c].out)
      BY <3>2, <3>3, HoldsOn
    <3> QED
      BY <3>3, <3>4
  <2> QED
    BY <2>1, <2>2
<1>6. ASSUME NEW i \in Active', i < th'[c].i, cli'[Owner(i)'] = "up"
      PROVE  Holds(delivered'[Owner(i)'], th'[c].out)
  <2>1. i \in Active /\ Owner(i)' = Owner(i) /\ i < j + 1
    BY <1>1, <1>4, <1>6
  <2>2. cli'[Owner(i)] = "up"
    BY <1>6, <2>1
  <2>3. cli[Owner(i)] = "up"
    BY <1>0, <2>1, <2>2, WasUp
  <2> QED
    BY <1>2, <1>5, <2>1, <2>3
<1> QED
  BY <1>6 DEF Behind

LEMMA BehindStep ==
  ASSUME TableOuts, TableOuts', AllBehind, [Next]_vars
  PROVE  AllBehind'
<1> SUFFICES ASSUME NEW c \in Conns PROVE Behind(c)'
  BY DEF AllBehind
<1>0. TableInv /\ TableInv' /\ Basics /\ Behind(c) /\ th \in [Conns -> Threads]
  BY DEF TableOuts, TableInv, BasicInv, Basics, TypeOK, AllBehind
<1>1. CASE th'[c] = th[c]
  <2> SUFFICES ASSUME th[c].pc \in {"sending", "telling"}, NEW i \in Active',
                      i < th[c].i, cli'[Owner(i)'] = "up"
               PROVE  Holds(delivered'[Owner(i)'], th[c].out)
    BY <1>1 DEF Behind
  <2>1. mutex_lista # Unlocked
    BY <1>0, ServerAssumption DEF TableInv, MutexProtects
  <2>2. i \in Active /\ Owner(i)' = Owner(i) /\ Owner(i) \in Conns
    BY <1>0, <2>1, HeldSlots
  <2>3. cli'[Owner(i)] = "up"
    BY <2>2
  <2>4. cli[Owner(i)] = "up"
    BY <1>0, <2>2, <2>3, WasUp
  <2>5. PICK d \in Conns : d = Owner(i) /\ Holds(delivered[d], th[c].out)
    BY <1>0, <2>2, <2>4 DEF Behind
  <2>6. Holds(delivered'[d], th[c].out)
    BY <2>5, HoldsOn
  <2> QED
    BY <2>2, <2>5, <2>6
<1>2. CASE th'[c].pc \notin {"sending", "telling"}
  BY <1>2 DEF Behind
<1>3. CASE ClientThread(c) /\ th'[c].pc \in {"sending", "telling"}
  <2>1. SendNext(c) \/ HandleBroadcast(c) \/ NotifyDisconnect(c)
    BY <1>0, <1>3, ThreadSpeaks DEF Outgoing
  <2>2. CASE SendNext(c)
    BY <1>0, <1>3, <2>2, BehindNext
  <2>3. CASE HandleBroadcast(c) \/ NotifyDisconnect(c)
    <3>1. PICK p, o : th' = [th EXCEPT ![c].pc = p, ![c].i = 0, ![c].out = o]
      BY <2>3 DEF HandleBroadcast, NotifyDisconnect
    <3>2. th'[c] = [th[c] EXCEPT !.pc = p, !.i = 0, !.out = o]
      BY <1>0, <3>1
    <3>3. th'[c].i = 0
      BY <1>0, <3>2 DEF Threads
    <3>4. Active' \in SUBSET Nat
      <4>1. UNCHANGED <<lista, num_clientes>>
        BY <2>3 DEF HandleBroadcast, NotifyDisconnect
      <4>2. Active' = Active
        BY <4>1, NoChange DEF SameEntries
      <4> QED
        BY <1>0, <4>2, ActiveSlots DEF Basics, TypeOK
    <3>5. \A i \in Active' : ~(i < 0)
      BY <3>4
    <3> QED
      BY <3>3, <3>5 DEF Behind
  <2> QED
    BY <2>1, <2>2, <2>3
<1> QED
  BY <1>0, <1>1, <1>2, <1>3, ThreadsApart

\* Where the loop ends.
LEMMA NobodySkippedStep ==
  ASSUME TableOuts, AllBehind, [Next]_vars, NEW c \in Conns,
         th[c].pc \in {"sending", "telling"}, th'[c].pc # th[c].pc,
         NEW i \in Active, cli[Owner(i)] = "up"
  PROVE  Holds(delivered[Owner(i)], th[c].out)
<1>0. /\ TableInv /\ th \in [Conns -> Threads] /\ th[c] \in Threads
      /\ Active \in SUBSET Nat
  BY ActiveSlots DEF TableOuts, TableInv, BasicInv, Basics, TypeOK
<1>1. ClientThread(c)
  BY <1>0, ThreadsApart
<1>2. ASSUME SendNext(c) PROVE FALSE
  <2>1. PICK i1 : th' = [th EXCEPT ![c].i = i1]
    BY <1>2 DEF SendNext
  <2>2. th'[c].pc = th[c].pc
    BY <1>0, <2>1 DEF Threads
  <2> QED
    BY <2>2
<1>3. BroadcastDone(c) \/ NotifyDone(c)
  BY <1>1, <1>2 DEF ClientThread, Recv, RecvFails, Touch, Notice, HandleBroadcast,
    HandleDirect, DirectSend, HandleStatus, HandleList, HandleInfo,
    HandleLogout, Reply, ResolveName, Remove, Close, NotifyDisconnect
<1>4. ~(i >= th[c].i)
  BY <1>3 DEF BroadcastDone, NotifyDone, NoneLeft
<1>5. i < th[c].i
  <2>1. i \in Nat /\ th[c].i \in Nat
    BY <1>0, LoopIndex
  <2> QED
    BY <1>4, <2>1
<1> QED
  BY <1>5 DEF AllBehind, Behind

(***************************************************************************)
(* When the loop of a broadcast or of a notice ends, every registered user *)
(* who is still connected has been sent the packet: nobody who joins,      *)
(* leaves or is given a hole of the table meanwhile makes it skip one.     *)
(***************************************************************************)
THEOREM LoopsSkipNobody == Spec => NobodySkipped
<1>1. Init => AllBehind
  <2> SUFFICES ASSUME Init PROVE AllBehind
    OBVIOUS
  <2>1. \A c \in Conns : th[c].pc = "none"
    BY DEF Init, NoThread
  <2> QED
    BY <2>1 DEF AllBehind, Behind
<1>2. TableOuts /\ TableOuts' /\ AllBehind /\ [Next]_vars => AllBehind'
  BY BehindStep
<1>3. TableOuts /\ AllBehind /\ [Next]_vars =>
        [ \A c \in Conns :
            th[c].pc \in {"sending", "telling"} /\ th'[c].pc # th[c].pc
              => \A i \in Active :
                   cli[Owner(i)] = "up" => Holds(delivered[Owner(i)], th[c].out)
        ]_vars
  BY NobodySkippedStep
<1> QED
  BY <1>1, <1>2, <1>3, TableOutsInvariant, PTL DEF Spec, NobodySkipped

-----------------------------------------------------------------------------
\* Nobody's STATUS is refused

\* No name and no chat text reads like the refusal.
TextsApart == Refusal \notin Names \cup Texts

Honest ==
  /\ \A c \in Conns : th[c].pc \in Outgoing => th[c].out.payload # Refusal
  /\ OwnStatusAccepted

LEMMA OutIsHonest ==
  ASSUME TableOuts, NamesFit, TextsApart, Honest, NEW c \in Conns, ClientThread(c),
         th'[c].pc \in Outgoing
  PROVE  th'[c].out.payload # Refusal
<1>0. TableInv /\ Basics /\ th \in [Conns -> Threads] /\ ListTypeOK
  BY DEF TableOuts, TableInv, BasicInv, Basics, TypeOK, ListTypeOK
<1>1. ASSUME th[c].pc \in Serving PROVE th[c].pkt.payload # Refusal
  <2>1. th[c].pkt.payload \in Names \cup Statuses \cup Texts \cup {""}
    BY <1>0, <1>1 DEF Basics, OwnRequests, RequestsOf
  <2> QED
    BY <2>1, Zenon DEF TextsApart, Refusal, Statuses
<1>2. th[c].username # Refusal
  <2>1. th[c].username \in Names \cup {""}
    BY <1>0, Zenon DEF Threads
  <2> QED
    BY <2>1, Zenon DEF TextsApart, Refusal
<1>3. CASE SendNext(c) /\ th'[c].pc = th[c].pc /\ th'[c].out = th[c].out
  BY <1>3 DEF Honest
<1>4. CASE HandleBroadcast(c) /\ th'[c].out.payload = th[c].pkt.payload
  <2>1. th[c].pc = "broadcast"
    BY <1>4 DEF HandleBroadcast
  <2> QED
    BY <1>1, <1>4, <2>1 DEF Serving
<1>5. CASE HandleDirect(c) /\ th'[c].out.payload = th[c].pkt.payload
  <2>1. th[c].pc = "direct"
    BY <1>5 DEF HandleDirect
  <2> QED
    BY <1>1, <1>5, <2>1 DEF Serving
<1>6. CASE th'[c].out.payload = th[c].username
  BY <1>2, <1>6
<1>7. CASE HandleStatus(c) /\ cl_find_by_name(th[c].pkt.sender) < 0
  <2>1. th[c].pc = "status"
    BY <1>7 DEF HandleStatus
  <2>2. th[c].pkt.sender = NameOf[c] /\ NameOf[c] \in Names
    BY <1>0, <2>1, RequestFields DEF Serving
  <2>3. Registered(c)
    BY <2>1 DEF Registered
  <2>4. PICK i \in Active : Owner(i) = c /\ lista[i].username = Clip[NameOf[c]]
    BY <1>0, <2>3 DEF TableInv, Entries
  <2>5. lista[i].username = th[c].pkt.sender
    BY <2>2, <2>4 DEF NamesFit
  <2> QED
    BY <1>0, <1>7, <2>4, <2>5, Finds DEF ListTypeOK
<1> QED
  BY <1>0, <1>3, <1>4, <1>5, <1>6, <1>7, ThreadSpeaks

LEMMA HonestStep ==
  ASSUME TableOuts, NamesFit, TextsApart, Honest, [Next]_vars
  PROVE  Honest'
<1>0. TableInv /\ Outs /\ delivered \in [Conns -> Seq(ChatPacket)]
  BY DEF TableOuts, TableInv, BasicInv, Basics, TypeOK
<1>1. ASSUME NEW c \in Conns, th'[c].pc \in Outgoing PROVE th'[c].out.payload # Refusal
  <2>1. CASE th'[c] = th[c]
    BY <1>1, <2>1 DEF Honest
  <2>2. CASE ClientThread(c)
    BY <1>1, <2>2, OutIsHonest
  <2> QED
    BY <1>0, <1>1, <2>1, <2>2, ThreadsApart DEF Outgoing
<1>2. ASSUME NEW d \in Conns, NEW p, Delivers(d, p), Regular(d, p),
             NEW c \in Conns, NEW k \in DOMAIN delivered'[c]
      PROVE  delivered'[c][k].payload # Refusal
  <2>1. p.payload # Refusal
    BY <1>2 DEF Regular, Honest
  <2>2. CASE c # d \/ k \in DOMAIN delivered[d]
    <3>1. delivered'[c][k] = delivered[c][k] /\ k \in DOMAIN delivered[c]
      BY <1>0, <1>2, <2>2, Grows
    <3> QED
      BY <3>1 DEF Honest, OwnStatusAccepted, Refusal
  <2>3. CASE c = d /\ k \notin DOMAIN delivered[d]
    <3>1. delivered'[c][k] = p
      BY <1>0, <1>2, <2>3, Grows
    <3> QED
      BY <2>1, <3>1
  <2> QED
    BY <2>2, <2>3
<1>3. CASE UNCHANGED delivered
  BY <1>1, <1>3 DEF Honest, OwnStatusAccepted
<1>4. CASE \E d \in Conns : \E p : Delivers(d, p) /\ Regular(d, p)
  BY <1>1, <1>2, <1>4 DEF Honest, OwnStatusAccepted, Refusal
<1> QED
  BY <1>0, <1>3, <1>4, Deliveries

(***************************************************************************)
(* If no name is too long for a slot, a registered user's own STATUS is    *)
(* accepted: handle_status looks the user up by the name in the packet,    *)
(* and that is the name the slot has, until the thread removes it.         *)
(***************************************************************************)
THEOREM OwnStatusIsAccepted ==
  Spec => [](NamesFit /\ TextsApart => OwnStatusAccepted)
<1>1. Init => (NamesFit /\ TextsApart => Honest)
  <2> SUFFICES ASSUME Init PROVE Honest
    OBVIOUS
  <2>1. \A c \in Conns : th[c].pc = "none"
    BY DEF Init, NoThread
  <2>2. OwnStatusAccepted
    <3>1. DOMAIN <<>> = {}
      OBVIOUS
    <3>2. \A c \in Conns : delivered[c] = <<>>
      BY DEF Init
    <3>3. \A c \in Conns : DOMAIN delivered[c] = {}
      BY <3>1, <3>2, Zenon
    <3> QED
      BY <3>3, Zenon DEF OwnStatusAccepted
  <2> QED
    BY <2>1, <2>2 DEF Honest, Outgoing
<1>2. TableOuts /\ (NamesFit /\ TextsApart => Honest) /\ [Next]_vars
        => (NamesFit /\ TextsApart => Honest)'
  BY HonestStep DEF NamesFit, TextsApart
<1>3. (NamesFit /\ TextsApart => Honest) => (NamesFit /\ TextsApart => OwnStatusAccepted)
  BY DEF Honest
<1> QED
  BY <1>1, <1>2, <1>3, TableOutsInvariant, PTL DEF Spec
=============================================================================
