-------------------------- MODULE ChatServerProofs --------------------------
(***************************************************************************)
(* Types, descriptors and requests: the invariants the proofs about the    *)
(* table rest on.                                                          *)
(***************************************************************************)
EXTENDS ChatServerProps, WellFoundedInduction, TLAPS

-----------------------------------------------------------------------------
\* Operators

(***************************************************************************)
(* A non-empty set of naturals has a least element, and Min gives it.      *)
(***************************************************************************)
LEMMA MinExists ==
  ASSUME NEW S \in SUBSET Nat, S # {}
  PROVE  Min(S) \in S /\ \A y \in S : Min(S) <= y
<1>1. IsWellFoundedOn(OpToRel(<, Nat), Nat)
  BY NatLessThanWellFounded
<1>2. PICK x \in S : \A y \in S : <<y, x>> \notin OpToRel(<, Nat)
  BY <1>1, WFMin
<1>3. \A y \in S : ~ (y < x)
  BY <1>2, Zenon DEF OpToRel
<1>4. \A y \in S : x <= y
  BY <1>3
<1> QED
  BY <1>4 DEF Min

(***************************************************************************)
(* The search loops return an index that matches, and -1 only if none does.*)
(***************************************************************************)
LEMMA FirstOfFound ==
  ASSUME NEW S \in SUBSET Nat
  PROVE  /\ FirstOf(S) >= 0 => FirstOf(S) \in S
         /\ FirstOf(S) < 0 => S = {}
         /\ FirstOf(S) \in S \cup {-1}
<1>1. CASE S = {}
  BY <1>1 DEF FirstOf
<1>2. CASE S # {}
  <2>1. Min(S) \in S /\ Min(S) \in Nat
    BY <1>2, MinExists
  <2> QED
    BY <1>2, <2>1 DEF FirstOf
<1> QED
  BY <1>1, <1>2

LEMMA MaxClients == MAX_CLIENTS \in Nat /\ MAX_CLIENTS > 0 /\ 0 \in 0 .. MAX_CLIENTS
<1>1. MAX_CLIENTS \in Nat \ {0}
  BY ListAssumption
<1> QED
  BY <1>1

\* The slots in use are slots, and a loop over them ends at the last.
LEMMA ActiveSlots ==
  ASSUME num_clientes \in 0 .. MAX_CLIENTS
  PROVE  /\ Active \subseteq Slots /\ Active \in SUBSET Nat
         /\ Used \subseteq Slots /\ Used \in SUBSET Nat
         /\ \A i : ~NoneLeft(i) =>
              /\ After(i) \in 0 .. MAX_CLIENTS
              /\ After(i) - 1 \in Active /\ After(i) - 1 >= i
<1>1. Used \subseteq Slots /\ Used \in SUBSET Nat
  BY MaxClients DEF Used, Slots
<1>2. Active \subseteq Used
  BY Zenon DEF Active
<1>3. ASSUME NEW i, ~NoneLeft(i)
      PROVE  /\ After(i) \in 0 .. MAX_CLIENTS
             /\ After(i) - 1 \in Active /\ After(i) - 1 >= i
  <2> DEFINE rest == {j \in Active : j >= i}
  <2>1. rest # {}
    BY <1>3 DEF NoneLeft
  <2>2. rest \subseteq Active
    BY Zenon
  <2>3. Min(rest) \in rest
    BY <2>1, <2>2, <1>1, <1>2, MinExists
  <2>4. Min(rest) \in Active /\ Min(rest) >= i
    BY <2>3
  <2>5. Min(rest) \in Slots
    BY <2>4, <1>1, <1>2
  <2>6. After(i) = Min(rest) + 1
    BY DEF After
  <2>7. Min(rest) \in Int /\ Min(rest) + 1 \in 0 .. MAX_CLIENTS
    BY <2>5, MaxClients DEF Slots
  <2>8. After(i) - 1 = Min(rest)
    BY <2>6, <2>7
  <2> QED
    BY <2>4, <2>6, <2>7, <2>8
<1> QED
  BY <1>1, <1>2, <1>3

\* The server's packets have the type of a packet.
LEMMA PacketTypes ==
  /\ NoPacket \in ChatPacket
  /\ \A cmd \in Responses, from \in Names \cup {"", "SERVER"},
        to \in Names \cup {"", "ALL"},
        body \in Names \cup Statuses \cup Texts \cup ServerTexts \cup {""} :
       Packet(cmd, from, to, body) \in ChatPacket
BY NamesAssumption DEF ChatPacket, Packet, NoPacket

LEMMA AnswerTypes ==
  ASSUME NEW to \in Names \cup {""}, NEW body \in Statuses \cup ServerTexts
  PROVE  Ok(to, body) \in ChatPacket /\ Error(to, body) \in ChatPacket
<1>1. Clip[to] \in Names \cup {""}
  BY ListAssumption
<1> QED
  BY <1>1, PacketTypes DEF Ok, Error, Responses

\* Whatever it is sent to, send_packet leaves sequences of packets.
LEMMA SendTypes ==
  ASSUME delivered \in [Conns -> Seq(ChatPacket)],
         NEW fd, NEW pkt \in ChatPacket, send_packet(fd, pkt)
  PROVE  delivered' \in [Conns -> Seq(ChatPacket)]
<1>1. CASE descr[fd] # NoConn /\ cli[descr[fd]] = "up"
  <2>1. delivered' = [delivered EXCEPT ![descr[fd]] = Append(@, pkt)]
    BY <1>1 DEF send_packet
  <2>2. \A c \in Conns : Append(delivered[c], pkt) \in Seq(ChatPacket)
    OBVIOUS
  <2> QED
    BY <2>1, <2>2
<1>2. CASE ~(descr[fd] # NoConn /\ cli[descr[fd]] = "up")
  BY <1>2 DEF send_packet
<1> QED
  BY <1>1, <1>2


-----------------------------------------------------------------------------
\* The inductive invariant of this module

(***************************************************************************)
(* Packets on their way to the server, and the one a thread works on, are  *)
(* requests of the kind and with the sender Ask gives them.  This carries  *)
(* the model's assumption about clients to the handlers; it is no          *)
(* guarantee of the server's, which never looks at the sender.             *)
(***************************************************************************)
RequestsOf(c) ==
  {p \in ChatPacket : /\ p.command \in Requests /\ p.sender = NameOf[c]
                      /\ p.target \in Names \cup {""}
                      /\ p.payload \in Names \cup Statuses \cup Texts \cup {""}
                      /\ p.command = "STATUS" => p.payload \in Statuses}

Serving == {"touch", "notice", "broadcast", "direct", "status", "list", "info",
            "logout"}

OwnRequests ==
  /\ \A c \in Conns : inq[c] \in Seq(RequestsOf(c))
  /\ \A c \in Conns : th[c].pc \in Serving =>
       /\ th[c].pkt \in RequestsOf(c)
       /\ th[c].pc = "status" => th[c].pkt.command = "STATUS"
       /\ th[c].pc \in {"touch", "notice"} => th[c].pkt.command \in Activity
  /\ acc.pc \in {"register", "answer"} => acc.pkt \in RequestsOf(Peer)

Basics == TypeOK /\ OwnRequests /\ DescriptorsOwned

LEMMA HandlerPCs ==
  \A cmd : HandlerOf(cmd) \in ThreadPCs
BY DEF HandlerOf, ThreadPCs

LEMMA HeadTail ==
  ASSUME NEW T, NEW s \in Seq(T), s # <<>>
  PROVE  Head(s) \in T /\ Tail(s) \in Seq(T)
OBVIOUS

Bodies == Names \cup Statuses \cup Texts \cup ServerTexts \cup {""}

\* What a thread finds in the request it serves.
LEMMA RequestFields ==
  ASSUME Basics, NEW c \in Conns, th[c].pc \in Serving
  PROVE  /\ th[c].pkt \in ChatPacket
         /\ th[c].pkt.sender = NameOf[c] /\ NameOf[c] \in Names
         /\ Clip[th[c].pkt.sender] \in Names \cup {""}
         /\ th[c].pkt.target \in Names \cup {""}
         /\ Clip[th[c].pkt.target] \in Names \cup {""}
         /\ th[c].pkt.payload \in Bodies
         /\ th[c].pc = "status" => th[c].pkt.payload \in Statuses
<1>1. th[c].pkt \in RequestsOf(c) /\ th[c].pc = "status" => th[c].pkt.command = "STATUS"
  BY DEF Basics, OwnRequests
<1>2. th[c].pkt \in RequestsOf(c)
  BY DEF Basics, OwnRequests
<1>3. NameOf[c] \in Names
  BY ServerAssumption
<1> QED
  BY <1>1, <1>2, <1>3, ListAssumption DEF RequestsOf, ChatPacket, Bodies, Basics, OwnRequests

LEMMA ThreadMessages ==
  ASSUME TypeOK, NEW c \in Conns, ClientThread(c)
  PROVE  inq' \in [Conns -> Seq(ChatPacket)]
<1>1. CASE Recv(c)
  <2>1. inq[c] \in Seq(ChatPacket) /\ inq[c] # <<>> /\ inq' = [inq EXCEPT ![c] = Tail(@)]
    BY <1>1 DEF Recv, TypeOK
  <2> QED
    BY <2>1, HeadTail DEF TypeOK
<1>2. CASE ~Recv(c)
  <2>1. inq' = inq
    BY <1>2 DEF ClientThread, RecvFails, Touch, Notice, HandleBroadcast, SendNext,
      BroadcastDone, HandleDirect, DirectSend, HandleStatus, HandleList, HandleInfo,
      HandleLogout, Reply, ResolveName, Remove, Close, NotifyDisconnect, NotifyDone
  <2> QED
    BY <2>1 DEF TypeOK
<1> QED
  BY <1>1, <1>2

LEMMA ThreadRecords ==
  ASSUME Basics, NEW c \in Conns, ClientThread(c)
  PROVE  th' \in [Conns -> Threads]
<1>0. th \in [Conns -> Threads]
  BY DEF Basics, TypeOK
<1>a. 0 \in 0 .. MAX_CLIENTS
  BY MaxClients
<1>b. NoPacket \in ChatPacket
  BY PacketTypes
<1>c. ASSUME NEW p \in ThreadPCs, th' = [th EXCEPT ![c].pc = p]
      PROVE  th' \in [Conns -> Threads]
  BY <1>0, <1>c DEF Threads
<1>d. ASSUME NEW p \in ThreadPCs, NEW i \in 0 .. MAX_CLIENTS, NEW o \in ChatPacket,
             th' = [th EXCEPT ![c].pc = p, ![c].i = i, ![c].out = o]
      PROVE  th' \in [Conns -> Threads]
  <2> DEFINE r == [th[c] EXCEPT !.pc = p, !.i = i, !.out = o]
  <2>1. th[c] \in Threads
    BY <1>0
  <2>2. r \in Threads
    BY <2>1 DEF Threads
  <2>3. th' = [th EXCEPT ![c] = r]
    BY <1>0, <1>d
  <2> HIDE DEF r
  <2> QED
    BY <1>0, <2>2, <2>3
<1>e. ASSUME NEW o \in ChatPacket,
             th' = [th EXCEPT ![c].pc = "reply", ![c].out = o]
      PROVE  th' \in [Conns -> Threads]
  <2> DEFINE r == [th[c] EXCEPT !.pc = "reply", !.out = o]
  <2>1. th[c] \in Threads /\ "reply" \in ThreadPCs
    BY <1>0 DEF ThreadPCs
  <2>2. r \in Threads
    BY <2>1 DEF Threads
  <2>3. th' = [th EXCEPT ![c] = r]
    BY <1>0, <1>e
  <2> HIDE DEF r
  <2> QED
    BY <1>0, <2>2, <2>3
<1>f. ASSUME NEW p \in ThreadPCs, NEW k \in ChatPacket,
             th' = [th EXCEPT ![c].pkt = k, ![c].pc = p]
      PROVE  th' \in [Conns -> Threads]
  <2> DEFINE r == [th[c] EXCEPT !.pkt = k, !.pc = p]
  <2>1. th[c] \in Threads
    BY <1>0
  <2>2. r \in Threads
    BY <2>1 DEF Threads
  <2>3. th' = [th EXCEPT ![c] = r]
    BY <1>0, <1>f
  <2> HIDE DEF r
  <2> QED
    BY <1>0, <2>2, <2>3
<1>g. ASSUME NEW p \in ThreadPCs, NEW u \in Names \cup {""}, NEW o \in ChatPacket,
             th' = [th EXCEPT ![c].pc = p, ![c].username = u, ![c].out = o]
      PROVE  th' \in [Conns -> Threads]
  <2> DEFINE r == [th[c] EXCEPT !.pc = p, !.username = u, !.out = o]
  <2>1. th[c] \in Threads
    BY <1>0
  <2>2. r \in Threads
    BY <2>1 DEF Threads
  <2>3. th' = [th EXCEPT ![c] = r]
    BY <1>0, <1>g
  <2> HIDE DEF r
  <2> QED
    BY <1>0, <2>2, <2>3
<1>h. ASSUME NEW p \in ThreadPCs, NEW k \in ChatPacket, NEW i \in 0 .. MAX_CLIENTS,
             NEW o \in ChatPacket,
             th' = [th EXCEPT ![c].pc = p, ![c].pkt = k, ![c].i = i, ![c].out = o]
      PROVE  th' \in [Conns -> Threads]
  <2> DEFINE r == [th[c] EXCEPT !.pc = p, !.pkt = k, !.i = i, !.out = o]
  <2>1. th[c] \in Threads
    BY <1>0
  <2>2. r \in Threads
    BY <2>1 DEF Threads
  <2>3. th' = [th EXCEPT ![c] = r]
    BY <1>0, <1>h
  <2> HIDE DEF r
  <2> QED
    BY <1>0, <2>2, <2>3
<1>1. CASE Recv(c)
  <2>1. inq[c] \in Seq(ChatPacket) /\ inq[c] # <<>>
    BY <1>1 DEF Recv, Basics, TypeOK
  <2>2. Head(inq[c]) \in ChatPacket
    BY <2>1, HeadTail
  <2>3. PICK p \in ThreadPCs, k \in ChatPacket :
          th' = [th EXCEPT ![c].pkt = k, ![c].pc = p]
    BY <1>1, <2>2, HandlerPCs DEF Recv, ThreadPCs
  <2>4. th' \in [Conns -> Threads]
    BY <2>3, <1>f
  <2> QED
    BY <2>4
<1>2. CASE RecvFails(c)
  <2>1. th' = [th EXCEPT ![c].pc = "resolve"]
    BY <1>2 DEF RecvFails, Goto
  <2> QED
    BY <2>1, <1>c DEF ThreadPCs
<1>3. CASE Touch(c)
  <2>1. PICK p \in ThreadPCs : th' = [th EXCEPT ![c].pc = p]
    BY <1>3, HandlerPCs DEF Touch, Goto, ThreadPCs
  <2> QED
    BY <2>1, <1>c
<1>4. CASE Notice(c)
  BY <1>4, <1>c, HandlerPCs DEF Notice, Goto
<1>5. CASE HandleBroadcast(c)
  <2>1. PICK o \in ChatPacket :
          th' = [th EXCEPT ![c].pc = "sending", ![c].i = 0, ![c].out = o]
    BY <1>5, RequestFields, PacketTypes DEF HandleBroadcast, Serving, Responses, Bodies
  <2> QED
    BY <2>1, <1>a, <1>d DEF ThreadPCs
<1>6. CASE SendNext(c)
  <2>1. ~NoneLeft(th[c].i)
    BY <1>6 DEF SendNext, SendToNext, NoneLeft
  <2>5. After(th[c].i) \in 0 .. MAX_CLIENTS
    BY <2>1, ActiveSlots DEF Basics, TypeOK
  <2>6. th' = [th EXCEPT ![c].i = After(th[c].i)]
    BY <1>6 DEF SendNext
  <2> QED
    BY <1>0, <2>5, <2>6 DEF Threads
<1>7. CASE BroadcastDone(c) \/ DirectSend(c)
  <2>1. th' = [th EXCEPT ![c].pc = "recv", ![c].pkt = NoPacket, ![c].i = 0, ![c].out = NoPacket]
    BY <1>7 DEF BroadcastDone, DirectSend, Next_packet
  <2> QED
    BY <2>1, <1>a, <1>b, <1>h DEF ThreadPCs
<1>8. CASE HandleDirect(c)
  <2>1. CASE cl_find_by_name(th[c].pkt.target) >= 0
    <3>1. cl_find_by_name(th[c].pkt.target) \in Active
      BY <2>1, ActiveSlots, FirstOfFound DEF cl_find_by_name, Basics, TypeOK
    <3>2. cl_find_by_name(th[c].pkt.target) \in 0 .. MAX_CLIENTS
      BY <3>1, ActiveSlots, MaxClients DEF Slots, Basics, TypeOK
    <3>3. PICK o \in ChatPacket : th' = [th EXCEPT ![c].pc = "passing",
            ![c].i = cl_find_by_name(th[c].pkt.target), ![c].out = o]
      BY <1>8, <2>1, RequestFields, PacketTypes DEF HandleDirect, Serving, Responses, Bodies
    <3> QED
      BY <3>2, <3>3, <1>d DEF ThreadPCs
  <2>2. CASE ~(cl_find_by_name(th[c].pkt.target) >= 0)
    <3>1. PICK o \in ChatPacket : th' = [th EXCEPT ![c].pc = "reply", ![c].out = o]
      BY <1>8, <2>2, RequestFields, AnswerTypes
        DEF HandleDirect, Answer, Serving, ServerTexts
    <3> QED
      BY <3>1, <1>e
  <2> QED
    BY <2>1, <2>2
<1>9. CASE HandleStatus(c)
  <2>1. PICK o \in ChatPacket : th' = [th EXCEPT ![c].pc = "reply", ![c].out = o]
    BY <1>9, RequestFields, AnswerTypes
      DEF HandleStatus, Answer, Serving, ServerTexts
  <2> QED
    BY <2>1, <1>e
<1>10. CASE HandleList(c)
  <2>1. PICK o \in ChatPacket : th' = [th EXCEPT ![c].pc = "reply", ![c].out = o]
    BY <1>10, RequestFields, PacketTypes
      DEF HandleList, Answer, Serving, ServerTexts, Responses, Bodies
  <2> QED
    BY <2>1, <1>e
<1>11. CASE HandleInfo(c)
  <2>1. PICK o \in ChatPacket : th' = [th EXCEPT ![c].pc = "reply", ![c].out = o]
    BY <1>11, RequestFields, PacketTypes, AnswerTypes
      DEF HandleInfo, Answer, Serving, ServerTexts, Responses, Bodies
  <2> QED
    BY <2>1, <1>e
<1>12. CASE HandleLogout(c)
  <2>1. PICK o \in ChatPacket, u \in Names \cup {""} :
          th' = [th EXCEPT ![c].pc = "reply", ![c].username = u, ![c].out = o]
    BY <1>12, RequestFields, AnswerTypes DEF HandleLogout, Serving, ServerTexts
  <2> QED
    BY <2>1, <1>g DEF ThreadPCs
<1>13. CASE Reply(c)
  <2>1. CASE th[c].pkt.command = "LOGOUT"
    <3>1. th' = [th EXCEPT ![c].pc = "resolve"]
      BY <1>13, <2>1 DEF Reply, Goto
    <3> QED
      BY <3>1, <1>c DEF ThreadPCs
  <2>2. CASE th[c].pkt.command # "LOGOUT"
    <3>1. th' = [th EXCEPT ![c].pc = "recv", ![c].pkt = NoPacket, ![c].i = 0, ![c].out = NoPacket]
      BY <1>13, <2>2 DEF Reply, Next_packet
    <3> QED
      BY <3>1, <1>a, <1>b, <1>h DEF ThreadPCs
  <2> QED
    BY <2>1, <2>2
<1>14. CASE ResolveName(c)
  <2>1. PICK u \in Names \cup {""} :
          th' = [th EXCEPT ![c].pc = "remove", ![c].username = u]
    <3>1. CASE th[c].username # ""
      <4>1. th' = [th EXCEPT ![c].pc = "remove"]
        BY <1>14, <3>1 DEF ResolveName, Goto
      <4>2. th[c].username \in Names \cup {""}
        BY <1>0 DEF Threads
      <4>3. th' = [th EXCEPT ![c].pc = "remove", ![c].username = th[c].username]
        BY <1>0, <4>1 DEF Threads
      <4> QED
        BY <4>2, <4>3
    <3>2. CASE th[c].username = ""
      <4> DEFINE idx == cl_find_by_fd(th[c].sockfd)
      <4>1. idx >= 0 => idx \in Slots
        BY ActiveSlots, FirstOfFound DEF cl_find_by_fd, Basics, TypeOK
      <4>2. idx >= 0 => lista[idx].username \in Names \cup {""}
        BY <4>1 DEF Basics, TypeOK, Cliente
      <4>3. th' = [th EXCEPT ![c].pc = "remove", ![c].username =
                               IF idx >= 0 THEN lista[idx].username ELSE @]
        BY <1>14, <3>2 DEF ResolveName
      <4>4. CASE idx >= 0
        <5>1. th' = [th EXCEPT ![c].pc = "remove", ![c].username = lista[idx].username]
          BY <4>3, <4>4
        <5> QED
          BY <5>1, <4>2, <4>4
      <4>5. CASE ~(idx >= 0)
        <5>1. th' = [th EXCEPT ![c].pc = "remove", ![c].username = ""]
          BY <1>0, <4>3, <4>5, <3>2 DEF Threads
        <5> QED
          BY <5>1
      <4> QED
        BY <4>4, <4>5
    <3> QED
      BY <3>1, <3>2
  <2> DEFINE r == [th[c] EXCEPT !.pc = "remove", !.username = u]
  <2>2. th[c] \in Threads /\ "remove" \in ThreadPCs
    BY <1>0 DEF ThreadPCs
  <2>3. r \in Threads
    BY <2>2 DEF Threads
  <2>4. th' = [th EXCEPT ![c] = r]
    BY <1>0, <2>1
  <2> HIDE DEF r
  <2> QED
    BY <1>0, <2>3, <2>4
<1>15. CASE Remove(c)
  BY <1>15, <1>c DEF Remove, Goto, ThreadPCs
<1>16. CASE Close(c)
  <2>1. PICK p \in ThreadPCs : th' = [th EXCEPT ![c].pc = p]
    BY <1>16 DEF Close, Goto, ThreadPCs
  <2> QED
    BY <2>1, <1>c
<1>17. CASE NotifyDisconnect(c)
  <2>1. th[c].username \in Names \cup {""}
    BY <1>0 DEF Threads
  <2>2. PICK o \in ChatPacket :
          th' = [th EXCEPT ![c].pc = "telling", ![c].i = 0, ![c].out = o]
    BY <1>17, <2>1, PacketTypes DEF NotifyDisconnect, Responses
  <2> QED
    BY <2>2, <1>a, <1>d DEF ThreadPCs
<1>18. CASE NotifyDone(c)
  <2>1. th[c].username \in Names \cup {""}
    BY <1>0 DEF Threads
  <2>2. NoThread \in Threads
    BY <1>a, <1>b DEF NoThread, Threads, ThreadPCs
  <2>3. [NoThread EXCEPT !.pc = "done", !.username = th[c].username] \in Threads
    BY <2>1, <2>2 DEF Threads, ThreadPCs
  <2>4. th' = [th EXCEPT ![c] =
                 [NoThread EXCEPT !.pc = "done", !.username = th[c].username]]
    BY <1>18 DEF NotifyDone
  <2> QED
    BY <1>0, <2>3, <2>4
<1> QED
  BY <1>1, <1>2, <1>3, <1>4, <1>5, <1>6, <1>7, <1>8, <1>9, <1>10, <1>11, <1>12,
     <1>13, <1>14, <1>15, <1>16, <1>17, <1>18 DEF ClientThread

-----------------------------------------------------------------------------
\* The table's operations keep its types

ListTypeOK == lista \in [Slots -> Cliente] /\ num_clientes \in 0 .. MAX_CLIENTS

\* What the two searches return.
LEMMA Finds ==
  ASSUME num_clientes \in 0 .. MAX_CLIENTS, NEW x
  PROVE  /\ cl_find_by_fd(x) >= 0 =>
              /\ cl_find_by_fd(x) \in Active /\ cl_find_by_fd(x) \in Slots
              /\ lista[cl_find_by_fd(x)].sockfd = x
         /\ cl_find_by_fd(x) < 0 => \A i \in Active : lista[i].sockfd # x
         /\ cl_find_by_name(x) >= 0 =>
              /\ cl_find_by_name(x) \in Active /\ cl_find_by_name(x) \in Slots
              /\ lista[cl_find_by_name(x)].username = x
         /\ cl_find_by_name(x) < 0 => \A i \in Active : lista[i].username # x
         /\ cl_find_by_fd(x) \in Int /\ cl_find_by_name(x) \in Int
<1>1. {i \in Active : lista[i].sockfd = x} \in SUBSET Nat
  BY ActiveSlots
<1>2. {i \in Active : lista[i].username = x} \in SUBSET Nat
  BY ActiveSlots
<1>3. Active \subseteq Slots
  BY ActiveSlots
<1>4. /\ cl_find_by_fd(x) >= 0 => cl_find_by_fd(x) \in {i \in Active : lista[i].sockfd = x}
      /\ cl_find_by_fd(x) < 0 => {i \in Active : lista[i].sockfd = x} = {}
  BY <1>1, FirstOfFound DEF cl_find_by_fd
<1>5. /\ cl_find_by_name(x) >= 0 => cl_find_by_name(x) \in {i \in Active : lista[i].username = x}
      /\ cl_find_by_name(x) < 0 => {i \in Active : lista[i].username = x} = {}
  BY <1>2, FirstOfFound DEF cl_find_by_name
<1>6. cl_find_by_fd(x) \in {i \in Active : lista[i].sockfd = x} \cup {-1}
  BY <1>1, FirstOfFound DEF cl_find_by_fd
<1>7. cl_find_by_name(x) \in {i \in Active : lista[i].username = x} \cup {-1}
  BY <1>2, FirstOfFound DEF cl_find_by_name
<1>8. cl_find_by_fd(x) \in Int /\ cl_find_by_name(x) \in Int
  BY <1>1, <1>2, <1>6, <1>7
<1> QED
  BY <1>3, <1>4, <1>5, <1>8

\* The slot a newcomer gets exists and is free.
LEMMA FreeSlotFree ==
  ASSUME num_clientes \in 0 .. MAX_CLIENTS, num_clientes < MAX_CLIENTS
  PROVE  /\ FreeSlot \in Slots /\ FreeSlot \notin Active
         /\ FreeSlot \in Used \/ FreeSlot = num_clientes
<1>1. Used \ Active \in SUBSET Nat /\ Used \subseteq Slots /\ Active \subseteq Used
  BY ActiveSlots DEF Active
<1>2. CASE FirstOf(Used \ Active) < 0
  <2>1. FreeSlot = num_clientes
    BY <1>2 DEF FreeSlot
  <2>2. num_clientes \in Slots /\ num_clientes \notin Used
    BY MaxClients DEF Slots, Used
  <2> QED
    BY <1>1, <2>1, <2>2
<1>3. CASE ~(FirstOf(Used \ Active) < 0)
  <2>1. FirstOf(Used \ Active) \in (Used \ Active) \cup {-1}
    BY <1>1, FirstOfFound
  <2>2. FirstOf(Used \ Active) \in Used \ Active
    BY <2>1, <1>3
  <2>3. FreeSlot = FirstOf(Used \ Active)
    BY <1>3 DEF FreeSlot
  <2> QED
    BY <1>1, <2>2, <2>3
<1> QED
  BY <1>2, <1>3

\* Who is added found room.
LEMMA Room ==
  ASSUME num_clientes \in 0 .. MAX_CLIENTS, NEW u, NEW ip, AddResult(u, ip) = 0
  PROVE  /\ num_clientes < MAX_CLIENTS /\ num_clientes + 1 \in 0 .. MAX_CLIENTS
         /\ ~Taken(u, ip)
<1>1. MAX_CLIENTS \in Int /\ num_clientes \in Int
  BY MaxClients
<1>2. ~(num_clientes >= MAX_CLIENTS) /\ ~Taken(u, ip)
  BY <1>1 DEF AddResult
<1> QED
  BY <1>1, <1>2

LEMMA AddTypes ==
  ASSUME ListTypeOK, NEW u \in Names \cup {""}, NEW ip \in Ips, NEW fd \in Fds,
         NEW now \in Nat, NEW ret, cl_add(u, ip, fd, now, ret)
  PROVE  ListTypeOK'
<1>1. CASE ret = 0
  <2>a. AddResult(u, ip) = 0
    BY <1>1, Zenon DEF cl_add
  <2>b. num_clientes \in 0 .. MAX_CLIENTS
    BY DEF ListTypeOK
  <2>1. num_clientes < MAX_CLIENTS /\ num_clientes + 1 \in 0 .. MAX_CLIENTS
    BY <2>a, <2>b, Room
  <2>2. FreeSlot \in Slots /\ (FreeSlot \in Used \/ FreeSlot = num_clientes)
    BY <2>1, FreeSlotFree DEF ListTypeOK
  <2> DEFINE r == [username |-> Clip[u], ip |-> ip, status |-> "ACTIVE",
                   sockfd |-> fd, activo |-> TRUE, ultimo_mensaje |-> now]
  <2>3. Clip[u] \in Names \cup {""}
    BY ListAssumption
  <2>4. r \in Cliente
    BY <2>3 DEF Cliente, Statuses
  <2>5. lista' = [lista EXCEPT ![FreeSlot] = r]
    BY <1>1 DEF cl_add
  <2>c. num_clientes' = num_clientes + 1 \/ num_clientes' = num_clientes
    BY <1>1 DEF cl_add
  <2>6. num_clientes' \in 0 .. MAX_CLIENTS
    BY <2>1, <2>b, <2>c
  <2> HIDE DEF r
  <2>7. lista' \in [Slots -> Cliente]
    BY <2>2, <2>4, <2>5 DEF ListTypeOK
  <2> QED
    BY <2>6, <2>7 DEF ListTypeOK
<1>2. CASE ret # 0
  BY <1>2 DEF cl_add, ListTypeOK
<1> QED
  BY <1>1, <1>2

LEMMA RemoveTypes ==
  ASSUME ListTypeOK, NEW fd, cl_remove(fd)
  PROVE  ListTypeOK'
<1> DEFINE idx == cl_find_by_fd(fd)
<1>1. CASE idx >= 0
  <2>1. idx \in Slots
    BY <1>1, Finds DEF ListTypeOK
  <2>2. lista' = [lista EXCEPT ![idx].activo = FALSE]
    BY <1>1 DEF cl_remove
  <2> HIDE DEF idx
  <2>3. lista' \in [Slots -> Cliente]
    BY <2>1, <2>2 DEF ListTypeOK, Cliente
  <2> QED
    BY <2>3 DEF ListTypeOK, cl_remove
<1>2. CASE ~(idx >= 0)
  BY <1>2 DEF cl_remove, ListTypeOK
<1> QED
  BY <1>1, <1>2

LEMMA SetStatusTypes ==
  ASSUME ListTypeOK, NEW u, NEW s \in Statuses, NEW ret, cl_set_status(u, s, ret)
  PROVE  ListTypeOK'
<1> DEFINE idx == cl_find_by_name(u)
<1>1. CASE idx >= 0
  <2>1. idx \in Slots
    BY <1>1, Finds DEF ListTypeOK
  <2>2. lista' = [lista EXCEPT ![idx].status = s]
    BY <1>1 DEF cl_set_status
  <2> HIDE DEF idx
  <2>3. lista' \in [Slots -> Cliente]
    BY <2>1, <2>2 DEF ListTypeOK, Cliente
  <2> QED
    BY <2>3 DEF ListTypeOK, cl_set_status
<1>2. CASE ~(idx >= 0)
  BY <1>2 DEF cl_set_status, ListTypeOK
<1> QED
  BY <1>1, <1>2

LEMMA TouchTypes ==
  ASSUME ListTypeOK, NEW fd, NEW now \in Nat, NEW re, cl_touch(fd, now, re)
  PROVE  ListTypeOK'
<1> DEFINE idx == cl_find_by_fd(fd)
<1>0. idx \in Int
  BY Finds DEF ListTypeOK
<1>1. CASE idx >= 0
  <2>1. idx \in Slots
    BY <1>1, Finds DEF ListTypeOK
  <2>2. lista[idx] \in Cliente
    BY <2>1 DEF ListTypeOK
  <2>3. PICK s \in Statuses \cup {""} :
          lista' = [lista EXCEPT ![idx].ultimo_mensaje = now, ![idx].status = s]
    <3>1. lista' = [lista EXCEPT ![idx].ultimo_mensaje = now,
                                 ![idx].status = IF re THEN "ACTIVE" ELSE @]
      BY <1>1, <1>0 DEF cl_touch
    <3>2. lista[idx].status \in Statuses \cup {""}
      BY <2>2 DEF Cliente
    <3> HIDE DEF idx
    <3>3. CASE re
      <4>1. lista' = [lista EXCEPT ![idx].ultimo_mensaje = now, ![idx].status = "ACTIVE"]
        BY <3>1, <3>3
      <4> QED
        BY <4>1 DEF Statuses
    <3>4. CASE ~re
      <4>1. lista' = [lista EXCEPT ![idx].ultimo_mensaje = now,
                                   ![idx].status = lista[idx].status]
        BY <3>1, <3>4, <2>1 DEF ListTypeOK
      <4> QED
        BY <3>2, <4>1
    <3> QED
      BY <3>3, <3>4
  <2> HIDE DEF idx
  <2> DEFINE r == [lista[idx] EXCEPT !.ultimo_mensaje = now, !.status = s]
  <2>4. r \in Cliente
    BY <2>2 DEF Cliente
  <2>5. lista' = [lista EXCEPT ![idx] = r]
    BY <2>1, <2>3 DEF ListTypeOK
  <2> HIDE DEF r
  <2>6. lista' \in [Slots -> Cliente]
    BY <2>1, <2>4, <2>5 DEF ListTypeOK
  <2> QED
    BY <2>6 DEF ListTypeOK, cl_touch
<1>2. CASE ~(idx >= 0)
  BY <1>0, <1>2 DEF cl_touch, ListTypeOK
<1> QED
  BY <1>1, <1>2

-----------------------------------------------------------------------------
\* A client thread keeps the types of the rest

LEMMA ThreadTable ==
  ASSUME Basics, NEW c \in Conns, ClientThread(c)
  PROVE  ListTypeOK' /\ mutex_lista' \in Conns \cup {Unlocked, Monitor}
<1>0. ListTypeOK /\ mutex_lista \in Conns \cup {Unlocked, Monitor} /\ clock \in Nat
  BY DEF Basics, TypeOK, ListTypeOK
<1>1. CASE Touch(c)
  <2>1. PICK re \in BOOLEAN : cl_touch(th[c].sockfd, clock, re)
    BY <1>1 DEF Touch
  <2>2. mutex_lista' = mutex_lista
    BY <2>1 DEF cl_touch
  <2>3. ListTypeOK'
    BY <1>0, <2>1, TouchTypes
  <2> QED
    BY <1>0, <2>2, <2>3
<1>2. CASE HandleStatus(c)
  <2>1. th[c].pkt.payload \in Statuses
    BY <1>2, RequestFields DEF HandleStatus, Serving
  <2>2. PICK ret \in {0, -1} : cl_set_status(th[c].pkt.sender, th[c].pkt.payload, ret)
    BY <1>2 DEF HandleStatus
  <2>3. mutex_lista' = mutex_lista
    BY <2>2 DEF cl_set_status
  <2>4. ListTypeOK'
    BY <1>0, <2>1, <2>2, SetStatusTypes
  <2> QED
    BY <1>0, <2>3, <2>4
<1>3. CASE Remove(c)
  <2>1. cl_remove(th[c].sockfd)
    BY <1>3 DEF Remove
  <2>2. mutex_lista' = mutex_lista
    BY <2>1 DEF cl_remove
  <2>3. ListTypeOK'
    BY <1>0, <2>1, RemoveTypes
  <2> QED
    BY <1>0, <2>2, <2>3
<1>4. CASE ~Touch(c) /\ ~HandleStatus(c) /\ ~Remove(c)
  <2>1. UNCHANGED <<lista, num_clientes>>
    BY <1>4 DEF ClientThread, listVars, Recv, RecvFails, Notice, HandleBroadcast,
      SendNext, BroadcastDone, HandleDirect, DirectSend, HandleList, HandleInfo,
      HandleLogout, Reply, ResolveName, Close, NotifyDisconnect, NotifyDone, cl_read
  <2>2. mutex_lista' \in {mutex_lista, c, Unlocked}
    BY <1>4 DEF ClientThread, listVars, Lock, Unlock, Recv, RecvFails, Notice,
      HandleBroadcast, SendNext, BroadcastDone, HandleDirect, DirectSend, HandleList,
      HandleInfo, HandleLogout, Reply, ResolveName, Close, NotifyDisconnect,
      NotifyDone, cl_read
  <2> QED
    BY <1>0, <2>1, <2>2 DEF ListTypeOK
<1> QED
  BY <1>1, <1>2, <1>3, <1>4

LEMMA ThreadSends ==
  ASSUME Basics, NEW c \in Conns, ClientThread(c)
  PROVE  delivered' \in [Conns -> Seq(ChatPacket)]
<1>0. delivered \in [Conns -> Seq(ChatPacket)] /\ th[c].out \in ChatPacket
  BY DEF Basics, TypeOK, Threads
<1>1. CASE \E fd, pkt : pkt \in ChatPacket /\ send_packet(fd, pkt)
  BY <1>0, <1>1, SendTypes
<1>2. CASE delivered' = delivered
  BY <1>0, <1>2
<1>3. CASE Notice(c)
  <2>1. Packet("MSG", "SERVER", "", "back to ACTIVE") \in ChatPacket
    BY PacketTypes DEF Responses, ServerTexts
  <2> QED
    BY <1>1, <1>3, <2>1 DEF Notice
<1>4. CASE SendNext(c)
  BY <1>0, <1>1, <1>4 DEF SendNext, SendToNext
<1>5. CASE DirectSend(c) \/ Reply(c)
  BY <1>0, <1>1, <1>5 DEF DirectSend, Reply
<1>6. CASE ~(Notice(c) \/ SendNext(c) \/ DirectSend(c) \/ Reply(c))
  BY <1>2, <1>6 DEF ClientThread, Recv, RecvFails, Touch, HandleBroadcast,
    BroadcastDone, HandleDirect, HandleStatus, HandleList, HandleInfo,
    HandleLogout, ResolveName, Remove, Close, NotifyDisconnect, NotifyDone
<1> QED
  BY <1>3, <1>4, <1>5, <1>6

LEMMA ThreadDescr ==
  ASSUME NEW c \in Conns, ClientThread(c)
  PROVE  \/ UNCHANGED descr
         \/ /\ Close(c) /\ descr' = [descr EXCEPT ![th[c].sockfd] = NoConn]
BY DEF ClientThread, close, Recv, RecvFails, Touch, Notice, HandleBroadcast, SendNext,
  BroadcastDone, HandleDirect, DirectSend, HandleStatus, HandleList, HandleInfo,
  HandleLogout, Reply, ResolveName, Remove, Close, NotifyDisconnect, NotifyDone

LEMMA ThreadTypes ==
  ASSUME Basics, NEW c \in Conns, ClientThread(c)
  PROVE  TypeOK'
<1>1. UNCHANGED <<backlog, acc, mon, clock, cli, sent, full>>
  BY DEF ClientThread, peers
<1>2. descr' \in [Fds -> Conns \cup {NoConn}]
  BY ThreadDescr DEF Basics, TypeOK
<1>3. th' \in [Conns -> Threads]
  BY ThreadRecords
<1>4. ListTypeOK' /\ mutex_lista' \in Conns \cup {Unlocked, Monitor}
  BY ThreadTable
<1>5. delivered' \in [Conns -> Seq(ChatPacket)]
  BY ThreadSends
<1>6. inq' \in [Conns -> Seq(ChatPacket)]
  BY ThreadMessages DEF Basics
<1> QED
  BY <1>1, <1>2, <1>3, <1>4, <1>5, <1>6 DEF Basics, TypeOK, ListTypeOK

-----------------------------------------------------------------------------
\* So do the main thread, the monitor, the clients and the clock

AccRecords ==
  [pc : {"accept", "first", "register", "answer", "check"}, fd : Fds \cup {0},
   pkt : ChatPacket, rc : {0, -1, -2}]

LEMMA AcceptTypes ==
  ASSUME Basics, AcceptLoop
  PROVE  TypeOK'
<1>0. /\ acc \in AccRecords /\ Accepting \in AccRecords
      /\ acc.pc # "accept" => acc.fd \in Fds /\ Peer \in Conns
      /\ ListTypeOK
  <2>1. acc \in AccRecords
    BY DEF Basics, TypeOK, AccRecords
  <2>2. Accepting \in AccRecords
    BY PacketTypes DEF Accepting, AccRecords
  <2> QED
    BY <2>1, <2>2 DEF Basics, TypeOK, DescriptorsOwned, ListTypeOK
<1>a. UNCHANGED <<mon, clock, cli, sent, full>>
  BY DEF AcceptLoop, peers
<1>1. CASE Accept
  <2>1. backlog \in Seq(Conns) /\ backlog # <<>> /\ FreeFds # {}
    BY <1>1 DEF Accept, Basics, TypeOK
  <2>2. Head(backlog) \in Conns /\ backlog' \in Seq(Conns)
    BY <1>1, <2>1, HeadTail DEF Accept
  <2>3. FreeFds \in SUBSET Nat
    BY ListAssumption DEF FreeFds
  <2>4. Min(FreeFds) \in Fds
    BY <2>1, <2>3, MinExists DEF FreeFds
  <2>5. descr' \in [Fds -> Conns \cup {NoConn}]
    BY <1>1, <2>2, <2>4 DEF Accept, Basics, TypeOK
  <2>6. acc' \in AccRecords /\ acc'.fd \in Fds
    <3>1. acc' = [acc EXCEPT !.pc = "first", !.fd = Min(FreeFds)]
      BY <1>1 DEF Accept
    <3> QED
      BY <1>0, <2>4, <3>1 DEF AccRecords
  <2> QED
    BY <1>1, <1>a, <2>2, <2>5, <2>6 DEF Accept, Basics, TypeOK, listVars, AccRecords
<1>2. CASE FirstIsRegister
  <2>1. inq[Peer] \in Seq(ChatPacket) /\ inq[Peer] # <<>> /\ acc.fd \in Fds
    BY <1>0, <1>2 DEF FirstIsRegister, Basics, TypeOK
  <2>2. Head(inq[Peer]) \in ChatPacket /\ Tail(inq[Peer]) \in Seq(ChatPacket)
    BY <2>1, HeadTail
  <2>3. inq' \in [Conns -> Seq(ChatPacket)]
    BY <1>2, <2>2 DEF FirstIsRegister, Basics, TypeOK
  <2>4. acc' \in AccRecords /\ acc'.fd \in Fds
    <3>1. acc' = [acc EXCEPT !.pc = "register", !.pkt = Head(inq[Peer])]
      BY <1>2 DEF FirstIsRegister
    <3> QED
      BY <1>0, <2>1, <2>2, <3>1 DEF AccRecords
  <2> QED
    BY <1>2, <1>a, <2>3, <2>4 DEF FirstIsRegister, Basics, TypeOK, listVars, AccRecords
<1>3. CASE FirstIsNot
  <2>1. descr' \in [Fds -> Conns \cup {NoConn}]
    BY <1>3 DEF FirstIsNot, close, Basics, TypeOK
  <2>2. acc' \in AccRecords /\ acc'.pc = "accept"
    BY <1>0, <1>3 DEF FirstIsNot, Accepting
  <2> QED
    BY <1>3, <1>a, <2>1, <2>2 DEF FirstIsNot, Basics, TypeOK, listVars, AccRecords
<1>4. CASE HandleRegister
  <2>1. PICK ret \in {0, -1, -2} :
          /\ cl_add(acc.pkt.sender, IpOf[Peer], acc.fd, clock, ret)
          /\ acc' = [acc EXCEPT !.pc = "answer", !.rc = ret]
    BY <1>4 DEF HandleRegister
  <2>2. acc.pkt \in RequestsOf(Peer) /\ acc.fd \in Fds /\ Peer \in Conns
    BY <1>0, <1>4 DEF HandleRegister, Basics, OwnRequests
  <2>3. acc.pkt.sender \in Names \cup {""} /\ IpOf[Peer] \in Ips /\ clock \in Nat
    BY <2>2, ServerAssumption DEF RequestsOf, Basics, TypeOK
  <2>4. ListTypeOK'
    BY <1>0, <2>1, <2>2, <2>3, AddTypes
  <2>5. mutex_lista' = mutex_lista
    BY <2>1 DEF cl_add
  <2>6. acc' \in AccRecords /\ acc'.fd \in Fds
    BY <1>0, <2>1, <2>2 DEF AccRecords
  <2> QED
    BY <1>4, <1>a, <2>4, <2>5, <2>6
      DEF HandleRegister, Basics, TypeOK, ListTypeOK, AccRecords
<1>5. CASE AnswerRegister
  <2>1. acc.pkt.sender \in Names \cup {""}
    BY <1>0, <1>5, ServerAssumption DEF AnswerRegister, Basics, OwnRequests, RequestsOf
  <2>2. Greeting \in ChatPacket
    BY <2>1, AnswerTypes DEF Greeting, ServerTexts
  <2>3. delivered' \in [Conns -> Seq(ChatPacket)]
    BY <1>5, <2>2, SendTypes DEF AnswerRegister, Basics, TypeOK
  <2>4. acc' \in AccRecords /\ acc'.fd \in Fds
    BY <1>0, <1>5 DEF AnswerRegister, AccRecords
  <2> QED
    BY <1>5, <1>a, <2>3, <2>4 DEF AnswerRegister, Basics, TypeOK, listVars, AccRecords
<1>6. CASE CheckRegistered
  <2>1. acc.fd \in Fds /\ Peer \in Conns
    BY <1>0, <1>6 DEF CheckRegistered
  <2>2. descr' \in [Fds -> Conns \cup {NoConn}]
    BY <1>6 DEF CheckRegistered, close, Basics, TypeOK
  <2>3. acc' \in AccRecords /\ acc'.pc = "accept"
    BY <1>0, <1>6 DEF CheckRegistered, Accepting
  <2>4. th' \in [Conns -> Threads]
    <3> DEFINE r == [th[Peer] EXCEPT !.pc = "recv", !.sockfd = acc.fd]
    <3>1. th \in [Conns -> Threads] /\ th[Peer] \in Threads /\ "recv" \in ThreadPCs
      BY <2>1 DEF Basics, TypeOK, ThreadPCs
    <3>2. r \in Threads
      BY <2>1, <3>1 DEF Threads
    <3>3. th' = th \/ th' = [th EXCEPT ![Peer] = r]
      BY <1>6, <2>1, <3>1 DEF CheckRegistered
    <3> HIDE DEF r
    <3> QED
      BY <3>1, <3>2, <3>3
  <2> QED
    BY <1>6, <1>a, <2>2, <2>3, <2>4
      DEF CheckRegistered, Basics, TypeOK, listVars, AccRecords
<1> QED
  BY <1>1, <1>2, <1>3, <1>4, <1>5, <1>6 DEF AcceptLoop

MonRecords ==
  [pc : {"sleep", "lock", "scan", "tell"}, now : Nat, i : 0 .. MAX_CLIENTS]

\* While the monitor tells a user, the slot it is at is a slot.
MonitorAtSlot == mon.pc = "tell" => mon.i \in Slots

LEMMA IdleSlots ==
  ASSUME num_clientes \in 0 .. MAX_CLIENTS, NEW now, NEW i
  PROVE  \A rest : rest = {j \in Idle(now) : j >= i} /\ rest # {} =>
           Min(rest) \in Idle(now) /\ Min(rest) \in Active /\ Min(rest) \in Slots
<1> SUFFICES ASSUME NEW rest, rest = {j \in Idle(now) : j >= i}, rest # {}
             PROVE  Min(rest) \in Idle(now) /\ Min(rest) \in Active /\ Min(rest) \in Slots
  OBVIOUS
<1>1. rest \subseteq Active /\ Active \subseteq Slots /\ Active \in SUBSET Nat
  BY ActiveSlots DEF Idle
<1>2. Min(rest) \in rest
  BY <1>1, MinExists
<1> QED
  BY <1>1, <1>2

LEMMA MonitorTypes ==
  ASSUME Basics, MonitorAtSlot, InactivityThread
  PROVE  TypeOK' /\ MonitorAtSlot'
<1>0. mon \in MonRecords /\ clock \in Nat /\ 0 \in 0 .. MAX_CLIENTS
  BY MaxClients DEF Basics, TypeOK, MonRecords
<1>a. UNCHANGED <<descr, backlog, acc, th, clock, cli, sent, full, inq>>
  BY DEF InactivityThread, peers
<1>1. CASE MonitorWake
  <2>1. mon' \in MonRecords /\ mon'.pc = "lock"
    BY <1>0, <1>1 DEF MonitorWake, MonRecords
  <2> QED
    BY <1>1, <1>a, <2>1 DEF MonitorWake, Basics, TypeOK, listVars, MonRecords, MonitorAtSlot
<1>2. CASE MonitorLock
  <2>1. mon' \in MonRecords /\ mon'.pc = "scan"
    BY <1>0, <1>2 DEF MonitorLock, MonRecords
  <2> QED
    BY <1>2, <1>a, <2>1 DEF MonitorLock, Lock, Basics, TypeOK, MonRecords, MonitorAtSlot
<1>3. CASE MonitorMark
  <2>0. num_clientes \in 0 .. MAX_CLIENTS /\ lista \in [Slots -> Cliente]
    BY DEF Basics, TypeOK
  <2>1. PICK rest : /\ rest = {j \in Idle(mon.now) : j >= mon.i} /\ rest # {}
                    /\ mon' = [mon EXCEPT !.pc = "tell", !.i = Min(rest)]
                    /\ lista' = [lista EXCEPT ![Min(rest)].status = "INACTIVE"]
    BY <1>3 DEF MonitorMark
  <2>2. Min(rest) \in Slots
    BY <2>0, <2>1, IdleSlots
  <2>3. PICK idx \in Slots : /\ mon' = [mon EXCEPT !.pc = "tell", !.i = idx]
                             /\ lista' = [lista EXCEPT ![idx].status = "INACTIVE"]
    BY <2>1, <2>2
  <2>4. idx \in 0 .. MAX_CLIENTS
    BY MaxClients DEF Slots
  <2>5. mon' \in MonRecords /\ mon'.i \in Slots
    BY <1>0, <2>3, <2>4 DEF MonRecords
  <2>6. lista' \in [Slots -> Cliente]
    BY <2>0, <2>3 DEF Cliente, Statuses
  <2> QED
    BY <1>3, <1>a, <2>5, <2>6 DEF MonitorMark, Basics, TypeOK, MonRecords, MonitorAtSlot
<1>4. CASE MonitorTell
  <2>1. mon.i \in Slots
    BY <1>4 DEF MonitorTell, MonitorAtSlot
  <2>2. lista[mon.i].username \in Names \cup {""}
    BY <2>1 DEF Basics, TypeOK, Cliente
  <2>3. Packet("MSG", "SERVER", lista[mon.i].username, "now INACTIVE") \in ChatPacket
    BY <2>2, PacketTypes DEF Responses, ServerTexts
  <2>4. delivered' \in [Conns -> Seq(ChatPacket)]
    BY <1>4, <2>3, SendTypes DEF MonitorTell, Basics, TypeOK
  <2>5. mon.i + 1 \in 0 .. MAX_CLIENTS
    BY <2>1, MaxClients DEF Slots
  <2>6. mon' \in MonRecords /\ mon'.pc = "scan"
    BY <1>0, <1>4, <2>5 DEF MonitorTell, MonRecords
  <2> QED
    BY <1>4, <1>a, <2>4, <2>6 DEF MonitorTell, Basics, TypeOK, listVars, MonRecords, MonitorAtSlot
<1>5. CASE MonitorDone
  <2>1. mon' \in MonRecords /\ mon'.pc = "sleep"
    BY <1>0, <1>5 DEF MonitorDone, MonRecords
  <2> QED
    BY <1>5, <1>a, <2>1 DEF MonitorDone, Unlock, Basics, TypeOK, MonRecords, MonitorAtSlot
<1> QED
  BY <1>1, <1>2, <1>3, <1>4, <1>5 DEF InactivityThread

\* What a client sends are requests of its own.
LEMMA ClientRequests ==
  ASSUME NEW c \in Conns
  PROVE  /\ Register(c) \in RequestsOf(c)
         /\ Packet("LIST", NameOf[c], "", "") \in RequestsOf(c)
         /\ \A cmd \in Offers : \A to \in Targets(cmd), body \in Payloads(c, cmd) :
              Packet(cmd, NameOf[c], to, body) \in RequestsOf(c)
<1>1. NameOf[c] \in Names /\ Offers \subseteq Requests
  BY ServerAssumption
<1>2. \A cmd \in Requests, to \in Names \cup {""},
         body \in Names \cup Statuses \cup Texts \cup {""} :
        (cmd = "STATUS" => body \in Statuses)
          => Packet(cmd, NameOf[c], to, body) \in RequestsOf(c)
  BY <1>1 DEF RequestsOf, ChatPacket, Packet
<1>3. Register(c) \in RequestsOf(c) /\ Packet("LIST", NameOf[c], "", "") \in RequestsOf(c)
  BY <1>1, <1>2 DEF Register, Requests
<1>4. ASSUME NEW cmd \in Offers, NEW to \in Targets(cmd), NEW body \in Payloads(c, cmd)
      PROVE  Packet(cmd, NameOf[c], to, body) \in RequestsOf(c)
  <2>1. cmd \in Requests /\ to \in Names \cup {""}
    BY <1>1 DEF Targets
  <2>2. body \in Names \cup Statuses \cup Texts \cup {""}
        /\ (cmd = "STATUS" => body \in Statuses)
    BY <1>1 DEF Payloads
  <2> QED
    BY <1>2, <2>1, <2>2
<1> QED
  BY <1>3, <1>4

\* What a client does to the packets under way keeps them its own.
LEMMA ClientMessages ==
  ASSUME Basics, NEW c \in Conns, Client(c)
  PROVE  /\ inq' \in [Conns -> Seq(ChatPacket)]
         /\ \A d \in Conns : inq'[d] \in Seq(RequestsOf(d))
<1>0. /\ inq \in [Conns -> Seq(ChatPacket)]
      /\ \A d \in Conns : inq[d] \in Seq(RequestsOf(d))
  BY DEF Basics, TypeOK, OwnRequests
<1>1. \E q \in Seq(RequestsOf(c)) : inq' = [inq EXCEPT ![c] = q]
  <2>1. CASE inq' = inq
    BY <1>0, <2>1
  <2>2. ASSUME NEW p \in RequestsOf(c), inq' = [inq EXCEPT ![c] = <<p>>]
        PROVE  \E q \in Seq(RequestsOf(c)) : inq' = [inq EXCEPT ![c] = q]
    <3>1. <<p>> \in Seq(RequestsOf(c))
      OBVIOUS
    <3> QED
      BY <2>2, <3>1, Zenon
  <2>3. ASSUME NEW p \in RequestsOf(c), inq' = [inq EXCEPT ![c] = Append(@, p)]
        PROVE  \E q \in Seq(RequestsOf(c)) : inq' = [inq EXCEPT ![c] = q]
    <3>1. Append(inq[c], p) \in Seq(RequestsOf(c))
      BY <1>0
    <3>2. inq' = [inq EXCEPT ![c] = Append(inq[c], p)]
      BY <1>0, <2>3
    <3> QED
      BY <3>1, <3>2, Zenon
  <2>4. CASE Connect(c)
    <3>1. inq' = inq \/ inq' = [inq EXCEPT ![c] = <<Register(c)>>]
      BY <2>4 DEF Connect
    <3> QED
      BY <2>1, <2>2, <3>1, ClientRequests
  <2>5. CASE Hello(c)
    <3>1. PICK p \in {Register(c), Packet("LIST", NameOf[c], "", "")} :
            inq' = [inq EXCEPT ![c] = <<p>>]
      BY <2>5, Zenon DEF Hello
    <3>2. p \in RequestsOf(c)
      BY <3>1, ClientRequests, Zenon
    <3> QED
      BY <2>2, <3>1, <3>2
  <2>6. CASE Ask(c)
    <3>1. PICK cmd \in Offers : \E to \in Targets(cmd), body \in Payloads(c, cmd) :
            inq' = [inq EXCEPT ![c] = Append(@, Packet(cmd, NameOf[c], to, body))]
      BY <2>6, Zenon DEF Ask
    <3>2. PICK to \in Targets(cmd), body \in Payloads(c, cmd) :
            inq' = [inq EXCEPT ![c] = Append(@, Packet(cmd, NameOf[c], to, body))]
      BY <3>1, Zenon
    <3>3. Packet(cmd, NameOf[c], to, body) \in RequestsOf(c)
      BY ClientRequests
    <3> QED
      BY <2>3, <3>2, <3>3
  <2>7. CASE HangUp(c)
    <3>1. <<>> \in Seq(RequestsOf(c))
      OBVIOUS
    <3> QED
      BY <1>0, <2>7, <3>1 DEF HangUp
  <2>8. CASE StopReading(c) \/ ReadAgain(c)
    BY <2>1, <2>8 DEF StopReading, ReadAgain
  <2> QED
    BY <2>4, <2>5, <2>6, <2>7, <2>8 DEF Client
<1>2. PICK q \in Seq(RequestsOf(c)) : inq' = [inq EXCEPT ![c] = q]
  BY <1>1
<1>3. q \in Seq(ChatPacket)
  <2>1. RequestsOf(c) \subseteq ChatPacket
    BY DEF RequestsOf
  <2> QED
    BY <2>1
<1> QED
  BY <1>0, <1>2, <1>3

LEMMA ClientTypes ==
  ASSUME Basics, NEW c \in Conns, Client(c)
  PROVE  TypeOK'
<1>1. UNCHANGED <<lista, num_clientes, mutex_lista, descr, acc, th, mon, clock, delivered>>
  BY DEF Client, serverVars, listVars
<1>2. inq' \in [Conns -> Seq(ChatPacket)]
  BY ClientMessages
<1>3. cli' \in [Conns -> {"new", "up", "down"}]
  BY DEF Client, Connect, Hello, Ask, HangUp, StopReading, ReadAgain, Basics, TypeOK
<1>4. sent' \in [Conns -> Nat]
  <2>1. sent \in [Conns -> Nat] /\ Budget[c] \in Nat
    BY ServerAssumption DEF Basics, TypeOK
  <2>2. CASE Connect(c) \/ Hello(c)
    <3>1. sent' = sent \/ sent' = [sent EXCEPT ![c] = 1]
      BY <2>2 DEF Connect, Hello
    <3> QED
      BY <2>1, <3>1
  <2>3. CASE Ask(c)
    <3>1. sent' = [sent EXCEPT ![c] = Budget[c] + 1] \/ sent' = [sent EXCEPT ![c] = @ + 1]
      BY <2>3 DEF Ask
    <3> QED
      BY <2>1, <3>1
  <2>4. CASE HangUp(c) \/ StopReading(c) \/ ReadAgain(c)
    BY <2>1, <2>4 DEF HangUp, StopReading, ReadAgain
  <2> QED
    BY <2>2, <2>3, <2>4 DEF Client
<1>5. full' \subseteq Conns
  BY ServerAssumption
    DEF Client, Connect, Hello, Ask, HangUp, StopReading, ReadAgain, Basics, TypeOK
<1>6. backlog' \in Seq(Conns)
  <2>1. backlog \in Seq(Conns) /\ Append(backlog, c) \in Seq(Conns)
    BY DEF Basics, TypeOK
  <2>2. backlog' = backlog \/ backlog' = Append(backlog, c)
    BY DEF Client, Connect, Hello, Ask, HangUp, StopReading, ReadAgain
  <2> QED
    BY <2>1, <2>2
<1> QED
  BY <1>1, <1>2, <1>3, <1>4, <1>5, <1>6 DEF Basics, TypeOK

-----------------------------------------------------------------------------
\* How a client's thread moves

\* A step of one client's thread is no business of the others.
LEMMA ThreadFrame ==
  ASSUME Basics, NEW c \in Conns, ClientThread(c)
  PROVE  /\ \A d \in Conns \ {c} : th'[d] = th[d] /\ inq'[d] = inq[d]
         /\ th[c].pc \notin {"none", "done"}
<1>0. th \in [Conns -> Threads] /\ inq \in [Conns -> Seq(ChatPacket)]
  BY DEF Basics, TypeOK
<1>1. th[c].pc \notin {"none", "done"}
  BY DEF ClientThread, Recv, RecvFails, Touch, Notice, HandleBroadcast, SendNext,
    BroadcastDone, HandleDirect, DirectSend, HandleStatus, HandleList, HandleInfo,
    HandleLogout, Reply, ResolveName, Remove, Close, NotifyDisconnect, NotifyDone
<1>2. ASSUME NEW d \in Conns \ {c} PROVE th'[d] = th[d]
  BY <1>0 DEF ClientThread, Goto, Next_packet, Answer, Recv, RecvFails, Touch,
    Notice, HandleBroadcast, SendNext, BroadcastDone, HandleDirect, DirectSend,
    HandleStatus, HandleList, HandleInfo, HandleLogout, Reply, ResolveName, Remove,
    Close, NotifyDisconnect, NotifyDone
<1>3. \E q : inq' = [inq EXCEPT ![c] = q]
  <2>1. inq' = inq \/ inq' = [inq EXCEPT ![c] = Tail(@)]
    BY DEF ClientThread, Recv, RecvFails, Touch, Notice, HandleBroadcast, SendNext,
      BroadcastDone, HandleDirect, DirectSend, HandleStatus, HandleList, HandleInfo,
      HandleLogout, Reply, ResolveName, Remove, Close, NotifyDisconnect, NotifyDone
  <2>2. inq = [inq EXCEPT ![c] = inq[c]]
    BY <1>0
  <2> QED
    BY <2>1, <2>2
<1> QED
  BY <1>0, <1>1, <1>2, <1>3

\* It serves a request only after receiving it, and keeps its socket until
\* it closes it.
LEMMA ThreadSteps ==
  ASSUME Basics, NEW c \in Conns, ClientThread(c)
  PROVE  /\ th'[c].pc \in Serving => Recv(c) \/ Touch(c) \/ Notice(c)
         /\ th'[c].pc \in OpenThreads =>
              /\ th[c].pc \in OpenThreads /\ ~Close(c)
              /\ th'[c].sockfd = th[c].sockfd
         /\ th'[c].pc # "none"
<1>0. th \in [Conns -> Threads]
  BY DEF Basics, TypeOK
<1>1. CASE Recv(c)
  <2>1. th'[c].sockfd = th[c].sockfd /\ th[c].pc = "recv" /\ th'[c].pc # "none"
    BY <1>0, <1>1 DEF Recv, HandlerOf, Activity, Threads
  <2> QED
    BY <1>1, <2>1 DEF OpenThreads, ThreadPCs, Close
<1>2. CASE Touch(c) \/ Notice(c)
  <2>1. th'[c].sockfd = th[c].sockfd /\ th[c].pc \in {"touch", "notice"} /\ th'[c].pc # "none"
    BY <1>0, <1>2 DEF Touch, Notice, Goto, HandlerOf, Threads
  <2> QED
    BY <1>2, <2>1 DEF OpenThreads, ThreadPCs, Close
<1>3. CASE RecvFails(c) \/ ResolveName(c) \/ Remove(c)
  <2> DEFINE Moves == /\ th'[c].sockfd = th[c].sockfd
                      /\ th[c].pc \in {"recv", "resolve", "remove"}
                      /\ th'[c].pc \in {"resolve", "remove", "close"}
  <2>1. ASSUME RecvFails(c) PROVE Moves
    <3>1. th' = [th EXCEPT ![c].pc = "resolve"] /\ th[c].pc = "recv"
      BY <2>1 DEF RecvFails, Goto
    <3> QED
      BY <1>0, <3>1
  <2>2. ASSUME ResolveName(c) PROVE Moves
    <3>1. /\ th[c].pc = "resolve"
          /\ \/ th' = [th EXCEPT ![c].pc = "remove"]
             \/ \E u : th' = [th EXCEPT ![c].pc = "remove", ![c].username = u]
      BY <2>2 DEF ResolveName, Goto
    <3> QED
      BY <1>0, <3>1 DEF Threads
  <2>3. ASSUME Remove(c) PROVE Moves
    BY <1>0, <2>3 DEF Remove, Goto, Threads
  <2>4. Moves
    BY <1>3, <2>1, <2>2, <2>3
  <2> QED
    BY <2>4 DEF OpenThreads, ThreadPCs, Close, Serving
<1>4. CASE HandleBroadcast(c) \/ HandleDirect(c) \/ HandleStatus(c)
           \/ HandleList(c) \/ HandleInfo(c) \/ HandleLogout(c)
  <2> DEFINE Moves == /\ th'[c].sockfd = th[c].sockfd
                      /\ th[c].pc \in {"broadcast", "direct", "status", "list", "info", "logout"}
                      /\ th'[c].pc \in {"sending", "passing", "reply"}
  <2>1. ASSUME HandleBroadcast(c) PROVE Moves
    BY <1>0, <2>1 DEF HandleBroadcast, Threads
  <2>2. ASSUME HandleDirect(c) PROVE Moves
    <3>1. /\ th[c].pc = "direct"
          /\ \/ \E i, o : th' = [th EXCEPT ![c].pc = "passing", ![c].i = i, ![c].out = o]
             \/ \E o : th' = [th EXCEPT ![c].pc = "reply", ![c].out = o]
      BY <2>2 DEF HandleDirect, Answer
    <3> QED
      BY <1>0, <3>1 DEF Threads
  <2>3. ASSUME HandleStatus(c) PROVE Moves
    BY <1>0, <2>3 DEF HandleStatus, Answer, Threads
  <2>4. ASSUME HandleList(c) PROVE Moves
    BY <1>0, <2>4 DEF HandleList, Answer, Threads
  <2>5. ASSUME HandleInfo(c) PROVE Moves
    BY <1>0, <2>5 DEF HandleInfo, Answer, Threads
  <2>6. ASSUME HandleLogout(c) PROVE Moves
    BY <1>0, <2>6 DEF HandleLogout, Threads
  <2>7. Moves
    BY <1>4, <2>1, <2>2, <2>3, <2>4, <2>5, <2>6
  <2> QED
    BY <2>7 DEF OpenThreads, ThreadPCs, Close, Serving
<1>5. CASE BroadcastDone(c) \/ DirectSend(c) \/ Reply(c)
  <2> DEFINE Moves == /\ th'[c].sockfd = th[c].sockfd
                      /\ th[c].pc \in {"sending", "passing", "reply"}
                      /\ th'[c].pc \in {"recv", "resolve"}
  <2>1. ASSUME BroadcastDone(c) PROVE Moves
    BY <1>0, <2>1 DEF BroadcastDone, Next_packet, Threads
  <2>2. ASSUME DirectSend(c) PROVE Moves
    BY <1>0, <2>2 DEF DirectSend, Next_packet, Threads
  <2>3. ASSUME Reply(c) PROVE Moves
    <3>1. /\ th[c].pc = "reply"
          /\ \/ th' = [th EXCEPT ![c].pc = "resolve"]
             \/ th' = [th EXCEPT ![c].pc = "recv", ![c].pkt = NoPacket, ![c].i = 0,
                                 ![c].out = NoPacket]
      BY <2>3 DEF Reply, Goto, Next_packet
    <3>2. CASE th' = [th EXCEPT ![c].pc = "resolve"]
      <4>1. th'[c].sockfd = th[c].sockfd /\ th'[c].pc = "resolve"
        BY <1>0, <3>2 DEF Threads
      <4> QED
        BY <3>1, <4>1
    <3>3. CASE th' = [th EXCEPT ![c].pc = "recv", ![c].pkt = NoPacket, ![c].i = 0,
                               ![c].out = NoPacket]
      <4> DEFINE r == [th[c] EXCEPT !.pc = "recv", !.pkt = NoPacket, !.i = 0,
                                    !.out = NoPacket]
      <4>1. r.sockfd = th[c].sockfd /\ r.pc = "recv"
        BY <1>0 DEF Threads
      <4>2. th' = [th EXCEPT ![c] = r]
        BY <1>0, <3>3
      <4> HIDE DEF r
      <4> QED
        BY <1>0, <3>1, <4>1, <4>2
    <3> QED
      BY <3>1, <3>2, <3>3
  <2>4. Moves
    BY <1>5, <2>1, <2>2, <2>3
  <2> QED
    BY <2>4 DEF OpenThreads, ThreadPCs, Close, Serving
<1>6. CASE SendNext(c)
  <2>1. /\ th'[c].sockfd = th[c].sockfd /\ th[c].pc \in {"sending", "telling"}
        /\ th'[c].pc = th[c].pc
    BY <1>0, <1>6 DEF SendNext, Threads
  <2> QED
    BY <2>1 DEF OpenThreads, ThreadPCs, Close, Serving
<1>7. CASE Close(c)
  <2>1. th'[c].pc \in {"announce", "done"}
    BY <1>0, <1>7 DEF Close, Goto, Threads
  <2> QED
    BY <2>1 DEF OpenThreads, Serving
<1>8. CASE NotifyDisconnect(c)
  <2>1. th'[c].pc = "telling"
    BY <1>0, <1>8 DEF NotifyDisconnect, Threads
  <2> QED
    BY <2>1 DEF OpenThreads, Serving
<1>9. CASE NotifyDone(c)
  <2>1. th'[c].pc = "done"
    BY <1>0, <1>9 DEF NotifyDone, NoThread
  <2> QED
    BY <2>1 DEF OpenThreads, Serving
<1> QED
  BY <1>1, <1>2, <1>3, <1>4, <1>5, <1>6, <1>7, <1>8, <1>9 DEF ClientThread

\* What the main thread holds is not the client threads' to close.
LEMMA ThreadKeepsPeer ==
  ASSUME Basics, NEW c \in Conns, ClientThread(c)
  PROVE  /\ \A f \in Fds : descr'[f] \in {descr[f], NoConn}
         /\ \A d \in Conns \ {c} : th[d].pc \in OpenThreads =>
              descr'[th[d].sockfd] = descr[th[d].sockfd]
         /\ acc.pc # "accept" => Peer' = Peer /\ Peer # c /\ acc' = acc
<1>1. acc' = acc
  BY DEF ClientThread
<1>2. descr \in [Fds -> Conns \cup {NoConn}] /\ (acc.pc # "accept" => acc.fd \in Fds)
  BY DEF Basics, TypeOK
<1>3. CASE UNCHANGED descr
  BY <1>1, <1>3, ThreadFrame DEF Peer, Basics, DescriptorsOwned
<1>4. CASE Close(c) /\ descr' = [descr EXCEPT ![th[c].sockfd] = NoConn]
  <2>1. th[c].sockfd \in Fds /\ descr[th[c].sockfd] = c /\ th[c].pc = "close"
    BY <1>4 DEF Close, Basics, DescriptorsOwned, OpenThreads, ThreadPCs
  <2>2. \A d \in Conns \ {c} : th[d].pc \in OpenThreads =>
          th[d].sockfd \in Fds /\ th[d].sockfd # th[c].sockfd
    BY <2>1 DEF Basics, DescriptorsOwned
  <2>3. acc.pc # "accept" => acc.fd # th[c].sockfd /\ Peer # c
    BY <2>1 DEF Peer, Basics, DescriptorsOwned
  <2> QED
    BY <1>1, <1>2, <1>4, <2>1, <2>2, <2>3 DEF Peer
<1> QED
  BY <1>3, <1>4, ThreadDescr

LEMMA ThreadOwnsRequests ==
  ASSUME Basics, NEW c \in Conns, ClientThread(c)
  PROVE  OwnRequests'
<1>0. th \in [Conns -> Threads] /\ inq \in [Conns -> Seq(ChatPacket)]
  BY DEF Basics, TypeOK
<1>1. ASSUME NEW d \in Conns PROVE inq'[d] \in Seq(RequestsOf(d))
  <2>0. inq[d] \in Seq(RequestsOf(d))
    BY DEF Basics, OwnRequests
  <2>1. CASE d # c
    BY <2>0, <2>1, ThreadFrame
  <2>2. CASE d = c /\ Recv(c)
    <3>1. inq[c] # <<>> /\ inq'[c] = Tail(inq[c])
      BY <1>0, <2>2 DEF Recv
    <3>2. Tail(inq[c]) \in Seq(RequestsOf(c))
      BY <2>0, <2>2, <3>1, HeadTail
    <3> QED
      BY <2>2, <3>1, <3>2
  <2>3. CASE ~Recv(c)
    <3>1. inq' = inq
      BY <2>3 DEF ClientThread, RecvFails, Touch, Notice, HandleBroadcast, SendNext,
        BroadcastDone, HandleDirect, DirectSend, HandleStatus, HandleList, HandleInfo,
        HandleLogout, Reply, ResolveName, Remove, Close, NotifyDisconnect, NotifyDone
    <3> QED
      BY <2>0, <3>1
  <2> QED
    BY <2>1, <2>2, <2>3
<1>2. ASSUME NEW d \in Conns, th'[d].pc \in Serving
      PROVE  /\ th'[d].pkt \in RequestsOf(d)
             /\ th'[d].pc = "status" => th'[d].pkt.command = "STATUS"
             /\ th'[d].pc \in {"touch", "notice"} => th'[d].pkt.command \in Activity
  <2>1. CASE d # c
    BY <1>2, <2>1, ThreadFrame DEF Basics, OwnRequests
  <2>2. CASE d = c /\ Recv(c)
    <3>1. Head(inq[c]) \in RequestsOf(c)
      BY <2>2, HeadTail DEF Recv, Basics, OwnRequests
    <3>2. /\ th'[c].pkt = Head(inq[c])
          /\ th'[c].pc = IF Head(inq[c]).command \in Activity THEN "touch"
                         ELSE HandlerOf(Head(inq[c]).command)
      BY <1>0, <2>2 DEF Recv, Threads
    <3>3. th'[c].pc = "status" => th'[c].pkt.command = "STATUS"
      BY <3>2 DEF HandlerOf
    <3>4. th'[c].pc \in {"touch", "notice"} => th'[c].pkt.command \in Activity
      BY <3>2 DEF HandlerOf
    <3> QED
      BY <2>2, <3>1, <3>2, <3>3, <3>4
  <2>3. CASE d = c /\ (Touch(c) \/ Notice(c))
    <3>1. th[c].pc \in {"touch", "notice"}
      BY <2>3 DEF Touch, Notice
    <3>2. th[c].pkt \in RequestsOf(c) /\ th[c].pkt.command \in Activity
      BY <3>1 DEF Basics, OwnRequests, Serving
    <3>3. /\ th'[c].pkt = th[c].pkt
          /\ th'[c].pc \in {"notice", HandlerOf(th[c].pkt.command)}
      BY <1>0, <2>3 DEF Touch, Notice, Goto, Threads
    <3>4. th'[c].pc = "status" => th'[c].pkt.command = "STATUS"
      BY <3>3 DEF HandlerOf
    <3> QED
      BY <2>3, <3>2, <3>3, <3>4
  <2> QED
    BY <1>2, <2>1, <2>2, <2>3, ThreadSteps
<1>3. acc'.pc \in {"register", "answer"} => acc'.pkt \in RequestsOf(Peer')
  <2>1. acc' = acc
    BY DEF ClientThread
  <2>2. acc.pc \in {"register", "answer"} => Peer' = Peer
    BY ThreadKeepsPeer
  <2> QED
    BY <2>1, <2>2 DEF Basics, OwnRequests
<1> QED
  BY <1>1, <1>2, <1>3 DEF OwnRequests, RequestsOf

LEMMA ThreadKeepsDescriptors ==
  ASSUME Basics, NEW c \in Conns, ClientThread(c)
  PROVE  DescriptorsOwned'
<1>0. /\ descr \in [Fds -> Conns \cup {NoConn}] /\ backlog \in Seq(Conns)
      /\ UNCHANGED <<acc, backlog, cli, sent>>
      /\ NoConn \notin Conns /\ c # NoConn
  BY ServerAssumption DEF Basics, TypeOK, ClientThread, peers
<1>a. /\ \A f \in Fds : descr'[f] \in {descr[f], NoConn}
      /\ th[c].pc # "none" /\ th'[c].pc # "none"
      /\ \A d \in Conns \ {c} : th'[d] = th[d]
  BY ThreadKeepsPeer, ThreadFrame, ThreadSteps
<1>1. \A f, g \in Fds : descr'[f] = descr'[g] /\ descr'[f] # NoConn => f = g
  BY <1>a DEF Basics, DescriptorsOwned
<1>2. ASSUME NEW d \in Conns, th'[d].pc \in OpenThreads
      PROVE  th'[d].sockfd \in Fds /\ descr'[th'[d].sockfd] = d
  <2>1. CASE d = c
    <3>1. th[c].pc \in OpenThreads /\ UNCHANGED descr /\ th'[c].sockfd = th[c].sockfd
      BY <1>2, <2>1, ThreadSteps, ThreadDescr
    <3> QED
      BY <2>1, <3>1 DEF Basics, DescriptorsOwned
  <2>2. CASE d # c
    BY <1>2, <1>a, <2>2, ThreadKeepsPeer DEF Basics, DescriptorsOwned
  <2> QED
    BY <2>1, <2>2
<1>3. acc'.pc # "accept" => Peer' \in Conns /\ th'[Peer'].pc = "none"
  <2>1. acc.pc # "accept" => Peer' = Peer /\ Peer # c
    BY ThreadKeepsPeer
  <2> QED
    BY <1>0, <1>a, <2>1 DEF Basics, DescriptorsOwned
<1>4. ASSUME NEW k \in DOMAIN backlog'
      PROVE  /\ th'[backlog'[k]].pc = "none" /\ cli'[backlog'[k]] # "new"
             /\ \A f \in Fds : descr'[f] # backlog'[k]
             /\ \A l \in DOMAIN backlog' : backlog'[k] = backlog'[l] => k = l
  <2>1. k \in DOMAIN backlog /\ backlog[k] \in Conns
    BY <1>0
  <2>2. /\ th[backlog[k]].pc = "none" /\ cli[backlog[k]] # "new"
        /\ \A f \in Fds : descr[f] # backlog[k]
        /\ \A l \in DOMAIN backlog : backlog[k] = backlog[l] => k = l
    BY <2>1 DEF Basics, DescriptorsOwned
  <2>3. backlog[k] # c
    BY <1>a, <2>2
  <2>4. th'[backlog[k]].pc = "none" /\ \A f \in Fds : descr'[f] # backlog[k]
    BY <1>0, <1>a, <2>1, <2>2, <2>3
  <2> QED
    BY <1>0, <2>2, <2>4
<1>5. ASSUME NEW d \in Conns, cli'[d] = "new"
      PROVE  /\ th'[d].pc = "none" /\ sent'[d] = 0
             /\ \A f \in Fds : descr'[f] # d
  <2>1. /\ th[d].pc = "none" /\ sent[d] = 0 /\ \A f \in Fds : descr[f] # d
    BY <1>0, <1>5 DEF Basics, DescriptorsOwned
  <2> QED
    BY <1>0, <1>a, <2>1
<1> QED
  BY <1>1, <1>2, <1>3, <1>4, <1>5 DEF DescriptorsOwned

-----------------------------------------------------------------------------
\* The main thread keeps requests and descriptors apart

LEMMA AcceptOwnsRequests ==
  ASSUME Basics, AcceptLoop
  PROVE  OwnRequests'
<1>0. /\ inq \in [Conns -> Seq(ChatPacket)] /\ th \in [Conns -> Threads]
      /\ acc \in AccRecords /\ OwnRequests
      /\ acc.pc # "accept" => Peer \in Conns
  BY DEF Basics, TypeOK, AccRecords, DescriptorsOwned
<1>1. CASE FirstIsRegister
  <2>1. /\ Peer \in Conns /\ inq[Peer] # <<>>
        /\ acc' = [acc EXCEPT !.pc = "register", !.pkt = Head(inq[Peer])]
        /\ inq' = [inq EXCEPT ![Peer] = Tail(@)] /\ UNCHANGED <<descr, th>>
    BY <1>0, <1>1 DEF FirstIsRegister
  <2>2. inq[Peer] \in Seq(RequestsOf(Peer))
    BY <1>0, <2>1 DEF OwnRequests
  <2>3. Head(inq[Peer]) \in RequestsOf(Peer) /\ Tail(inq[Peer]) \in Seq(RequestsOf(Peer))
    BY <2>1, <2>2, HeadTail
  <2>4. \A d \in Conns : inq'[d] \in Seq(RequestsOf(d))
    BY <1>0, <2>1, <2>3 DEF OwnRequests
  <2>5. acc'.pkt = Head(inq[Peer]) /\ acc'.fd = acc.fd
    BY <1>0, <2>1 DEF AccRecords
  <2>6. acc'.pkt \in RequestsOf(Peer')
    BY <2>1, <2>3, <2>5 DEF Peer
  <2> QED
    BY <1>0, <2>1, <2>4, <2>6 DEF OwnRequests, RequestsOf
<1>2. CASE HandleRegister \/ AnswerRegister
  <2>1. UNCHANGED <<inq, th, descr>>
    BY <1>2 DEF HandleRegister, AnswerRegister
  <2>2. acc.pc \in {"register", "answer"} /\ acc'.pkt = acc.pkt /\ acc'.fd = acc.fd
    BY <1>0, <1>2 DEF HandleRegister, AnswerRegister, AccRecords
  <2> QED
    BY <1>0, <2>1, <2>2 DEF OwnRequests, RequestsOf, Peer
<1>3. CASE Accept \/ FirstIsNot
  <2>1. UNCHANGED <<inq, th>> /\ acc'.pc \in {"accept", "first"}
    <3>1. UNCHANGED <<inq, th>>
      BY <1>3 DEF Accept, FirstIsNot
    <3>2. acc' = Accepting \/ \E f : acc' = [acc EXCEPT !.pc = "first", !.fd = f]
      BY <1>3 DEF Accept, FirstIsNot
    <3>3. CASE acc' = Accepting
      BY <3>1, <3>3 DEF Accepting
    <3>4. ASSUME NEW f, acc' = [acc EXCEPT !.pc = "first", !.fd = f]
          PROVE  acc'.pc = "first"
      BY <1>0, <3>4 DEF AccRecords
    <3> QED
      BY <3>1, <3>2, <3>3, <3>4
  <2> QED
    BY <1>0, <2>1 DEF OwnRequests, RequestsOf
<1>4. CASE CheckRegistered
  <2>1. inq' = inq /\ acc'.pc = "accept"
    BY <1>4 DEF CheckRegistered, Accepting
  <2>2. \A d \in Conns : th'[d] = th[d] \/ th'[d].pc = "recv"
    <3>1. \/ th' = th
          \/ th' = [th EXCEPT ![Peer].pc = "recv", ![Peer].sockfd = acc.fd]
      BY <1>4 DEF CheckRegistered
    <3>2. Peer \in Conns
      BY <1>0, <1>4 DEF CheckRegistered
    <3> QED
      BY <1>0, <3>1, <3>2 DEF Threads
  <2> QED
    BY <1>0, <2>1, <2>2 DEF OwnRequests, RequestsOf, Serving
<1> QED
  BY <1>1, <1>2, <1>3, <1>4 DEF AcceptLoop

\* No thread works on what is still the main thread's.
LEMMA PeerApart ==
  ASSUME Basics, acc.pc # "accept"
  PROVE  /\ acc.fd \in Fds /\ Peer \in Conns /\ Peer = descr[acc.fd]
         /\ th[Peer].pc = "none"
         /\ \A d \in Conns : th[d].pc \in OpenThreads => th[d].sockfd # acc.fd
         /\ \A k \in DOMAIN backlog : backlog[k] # Peer
BY DEF Basics, TypeOK, DescriptorsOwned, Peer, OpenThreads

LEMMA AcceptKeepsDescriptors ==
  ASSUME Basics, AcceptLoop
  PROVE  DescriptorsOwned'
<1>0. /\ descr \in [Fds -> Conns \cup {NoConn}] /\ backlog \in Seq(Conns)
      /\ th \in [Conns -> Threads] /\ acc \in AccRecords
      /\ UNCHANGED <<cli, sent>>
      /\ NoConn \notin Conns
      /\ DescriptorsOwned
  BY ServerAssumption DEF Basics, TypeOK, AcceptLoop, peers, AccRecords
<1>1. CASE Accept
  <2> DEFINE f0 == Min(FreeFds)
             c0 == Head(backlog)
  <2>1. /\ FreeFds # {} /\ backlog # <<>> /\ backlog' = Tail(backlog)
        /\ descr' = [descr EXCEPT ![f0] = c0] /\ th' = th
        /\ acc' = [acc EXCEPT !.pc = "first", !.fd = f0]
    BY <1>1 DEF Accept
  <2>2. f0 \in Fds /\ descr[f0] = NoConn
    <3>1. FreeFds \in SUBSET Nat
      BY ListAssumption DEF FreeFds
    <3>2. f0 \in FreeFds
      BY <2>1, <3>1, MinExists
    <3> QED
      BY <3>2 DEF FreeFds
  <2>3. c0 = backlog[1] /\ 1 \in DOMAIN backlog /\ c0 \in Conns
    BY <1>0, <2>1
  <2>4. /\ DOMAIN backlog' = 1 .. Len(backlog) - 1
        /\ \A k \in DOMAIN backlog' :
             /\ backlog'[k] = backlog[k + 1] /\ k + 1 \in DOMAIN backlog
             /\ backlog'[k] \in Conns
    BY <1>0, <2>1
  <2>5. /\ th[c0].pc = "none" /\ cli[c0] # "new" /\ \A f \in Fds : descr[f] # c0
    BY <1>0, <2>3 DEF DescriptorsOwned
  <2> HIDE DEF f0, c0
  <2>6. \A f, g \in Fds : descr'[f] = descr'[g] /\ descr'[f] # NoConn => f = g
    BY <1>0, <2>1, <2>2, <2>5 DEF DescriptorsOwned
  <2>7. \A d \in Conns : th'[d].pc \in OpenThreads =>
          th'[d].sockfd \in Fds /\ descr'[th'[d].sockfd] = d
    BY <1>0, <2>1, <2>2 DEF DescriptorsOwned
  <2>8. Peer' \in Conns /\ th'[Peer'].pc = "none"
    <3>1. acc'.fd = f0
      BY <1>0, <2>1 DEF AccRecords
    <3> QED
      BY <1>0, <2>1, <2>2, <2>3, <2>5, <3>1 DEF Peer
  <2>9. ASSUME NEW k \in DOMAIN backlog'
        PROVE  /\ th'[backlog'[k]].pc = "none" /\ cli'[backlog'[k]] # "new"
               /\ \A f \in Fds : descr'[f] # backlog'[k]
               /\ \A l \in DOMAIN backlog' : backlog'[k] = backlog'[l] => k = l
    <3>1. k + 1 \in DOMAIN backlog /\ backlog'[k] = backlog[k + 1]
      BY <2>4
    <3>2. /\ th[backlog[k + 1]].pc = "none" /\ cli[backlog[k + 1]] # "new"
          /\ \A f \in Fds : descr[f] # backlog[k + 1]
          /\ \A l \in DOMAIN backlog : backlog[k + 1] = backlog[l] => k + 1 = l
      BY <1>0, <3>1 DEF DescriptorsOwned
    <3>3. k + 1 # 1 /\ k \in Int
      BY <2>4
    <3>4. backlog[k + 1] # c0
      BY <2>3, <3>2, <3>3
    <3>5. \A f \in Fds : descr'[f] # backlog'[k]
      BY <1>0, <2>1, <2>2, <3>1, <3>2, <3>4
    <3>6. \A l \in DOMAIN backlog' : backlog'[k] = backlog'[l] => k = l
      <4>1. ASSUME NEW l \in DOMAIN backlog', backlog'[k] = backlog'[l] PROVE k = l
        <5>1. l + 1 \in DOMAIN backlog /\ backlog'[l] = backlog[l + 1] /\ l \in Int
          BY <2>4
        <5>2. k + 1 = l + 1
          BY <3>1, <3>2, <4>1, <5>1
        <5> QED
          BY <3>3, <5>1, <5>2
      <4> QED
        BY <4>1
    <3> QED
      BY <1>0, <2>1, <3>1, <3>2, <3>5, <3>6
  <2>10. ASSUME NEW d \in Conns, cli'[d] = "new"
         PROVE  th'[d].pc = "none" /\ sent'[d] = 0 /\ \A f \in Fds : descr'[f] # d
    BY <1>0, <2>1, <2>2, <2>5, <2>10 DEF DescriptorsOwned
  <2> QED
    BY <2>6, <2>7, <2>8, <2>9, <2>10 DEF DescriptorsOwned
<1>2. CASE FirstIsRegister \/ HandleRegister \/ AnswerRegister
  <2>1. UNCHANGED <<descr, th, backlog>> /\ acc.pc # "accept" /\ acc'.fd = acc.fd
    BY <1>0, <1>2 DEF FirstIsRegister, HandleRegister, AnswerRegister, AccRecords
  <2>2. Peer' = Peer
    BY <2>1 DEF Peer
  <2> QED
    BY <1>0, <2>1, <2>2 DEF DescriptorsOwned
<1>3. CASE /\ acc.pc # "accept" /\ acc'.pc = "accept" /\ UNCHANGED <<th, backlog>>
           /\ descr' = [descr EXCEPT ![acc.fd] = NoConn]
  <2>1. \A f \in Fds : descr'[f] \in {descr[f], NoConn}
    BY <1>0, <1>3
  <2>2. \A f, g \in Fds : descr'[f] = descr'[g] /\ descr'[f] # NoConn => f = g
    BY <1>0, <2>1 DEF DescriptorsOwned
  <2>3. \A d \in Conns : th'[d].pc \in OpenThreads =>
          th'[d].sockfd \in Fds /\ descr'[th'[d].sockfd] = d
    BY <1>0, <1>3, PeerApart DEF DescriptorsOwned
  <2>4. \A k \in DOMAIN backlog' :
          /\ th'[backlog'[k]].pc = "none" /\ cli'[backlog'[k]] # "new"
          /\ \A f \in Fds : descr'[f] # backlog'[k]
          /\ \A l \in DOMAIN backlog' : backlog'[k] = backlog'[l] => k = l
    <3>1. \A k \in DOMAIN backlog : backlog[k] \in Conns
      BY <1>0
    <3> QED
      BY <1>0, <1>3, <2>1, <3>1 DEF DescriptorsOwned
  <2>5. \A d \in Conns : cli'[d] = "new" =>
          th'[d].pc = "none" /\ sent'[d] = 0 /\ \A f \in Fds : descr'[f] # d
    BY <1>0, <1>3, <2>1 DEF DescriptorsOwned
  <2> QED
    BY <1>3, <2>2, <2>3, <2>4, <2>5 DEF DescriptorsOwned
<1>4. CASE /\ acc.pc # "accept" /\ acc'.pc = "accept" /\ UNCHANGED <<descr, backlog>>
           /\ th' = [th EXCEPT ![Peer].pc = "recv", ![Peer].sockfd = acc.fd]
  <2>1. /\ acc.fd \in Fds /\ Peer \in Conns /\ Peer = descr[acc.fd]
        /\ \A k \in DOMAIN backlog : backlog[k] # Peer
    BY <1>4, PeerApart
  <2>2. /\ \A d \in Conns \ {Peer} : th'[d] = th[d]
        /\ th'[Peer].sockfd = acc.fd
    BY <1>0, <1>4, <2>1 DEF Threads
  <2>3. \A d \in Conns : th'[d].pc \in OpenThreads =>
          th'[d].sockfd \in Fds /\ descr'[th'[d].sockfd] = d
    BY <1>0, <1>4, <2>1, <2>2 DEF DescriptorsOwned
  <2>4. \A k \in DOMAIN backlog' :
          /\ th'[backlog'[k]].pc = "none" /\ cli'[backlog'[k]] # "new"
          /\ \A f \in Fds : descr'[f] # backlog'[k]
          /\ \A l \in DOMAIN backlog' : backlog'[k] = backlog'[l] => k = l
    <3>1. \A k \in DOMAIN backlog : backlog[k] \in Conns
      BY <1>0
    <3> QED
      BY <1>0, <1>4, <2>1, <2>2, <3>1 DEF DescriptorsOwned
  <2>5. \A d \in Conns : cli'[d] = "new" =>
          th'[d].pc = "none" /\ sent'[d] = 0 /\ \A f \in Fds : descr'[f] # d
    BY <1>0, <1>4, <2>1, <2>2 DEF DescriptorsOwned
  <2> QED
    BY <1>0, <1>4, <2>3, <2>4, <2>5 DEF DescriptorsOwned
<1>5. CASE FirstIsNot \/ CheckRegistered
  BY <1>3, <1>4, <1>5 DEF FirstIsNot, CheckRegistered, close, Accepting
<1> QED
  BY <1>1, <1>2, <1>5 DEF AcceptLoop

-----------------------------------------------------------------------------
\* The invariant

LEMMA ClientKeepsDescriptors ==
  ASSUME Basics, NEW c \in Conns, Client(c)
  PROVE  OwnRequests' /\ DescriptorsOwned'
<1>0. /\ descr \in [Fds -> Conns \cup {NoConn}] /\ backlog \in Seq(Conns)
      /\ cli \in [Conns -> {"new", "up", "down"}] /\ sent \in [Conns -> Nat]
      /\ UNCHANGED <<descr, th, acc>> /\ OwnRequests /\ DescriptorsOwned
  BY DEF Basics, TypeOK, Client, serverVars
<1>1. OwnRequests'
  BY <1>0, ClientMessages DEF OwnRequests, RequestsOf, Peer
<1>2. CASE Connect(c)
  <2>1. /\ cli[c] = "new" /\ cli' = [cli EXCEPT ![c] = "up"]
        /\ backlog' = Append(backlog, c)
        /\ \A d \in Conns \ {c} : sent'[d] = sent[d]
    BY <1>0, <1>2 DEF Connect
  <2>2. th[c].pc = "none" /\ \A f \in Fds : descr[f] # c
    BY <1>0, <2>1 DEF DescriptorsOwned
  <2>3. /\ DOMAIN backlog' = 1 .. Len(backlog) + 1 /\ Len(backlog) \in Nat
        /\ backlog'[Len(backlog) + 1] = c
        /\ \A k \in DOMAIN backlog : backlog'[k] = backlog[k] /\ backlog[k] \in Conns
        /\ DOMAIN backlog = 1 .. Len(backlog)
    BY <1>0, <2>1
  <2>4. \A k \in DOMAIN backlog : backlog[k] # c
    BY <1>0, <2>1 DEF DescriptorsOwned
  <2>5. \A k \in DOMAIN backlog' : k \in DOMAIN backlog \/ k = Len(backlog) + 1
    BY <2>3
  <2>6. ASSUME NEW k \in DOMAIN backlog'
        PROVE  /\ th'[backlog'[k]].pc = "none" /\ cli'[backlog'[k]] # "new"
               /\ \A f \in Fds : descr'[f] # backlog'[k]
               /\ \A l \in DOMAIN backlog' : backlog'[k] = backlog'[l] => k = l
    <3>1. CASE k = Len(backlog) + 1
      BY <1>0, <2>1, <2>2, <2>3, <2>4, <2>5, <3>1
    <3>2. CASE k \in DOMAIN backlog
      <4>1. /\ th[backlog[k]].pc = "none" /\ cli[backlog[k]] # "new"
            /\ \A f \in Fds : descr[f] # backlog[k]
            /\ \A l \in DOMAIN backlog : backlog[k] = backlog[l] => k = l
        BY <1>0, <3>2 DEF DescriptorsOwned
      <4> QED
        BY <1>0, <2>1, <2>3, <2>4, <2>5, <3>2, <4>1
    <3> QED
      BY <2>5, <3>1, <3>2
  <2>7. \A d \in Conns : cli'[d] = "new" =>
          th'[d].pc = "none" /\ sent'[d] = 0 /\ \A f \in Fds : descr'[f] # d
    BY <1>0, <2>1 DEF DescriptorsOwned
  <2>8. Peer' = Peer
    BY <1>0 DEF Peer
  <2> QED
    BY <1>0, <1>1, <2>6, <2>7, <2>8 DEF DescriptorsOwned
<1>3. CASE ~Connect(c)
  <2>1. /\ backlog' = backlog
        /\ \A d \in Conns : cli'[d] = "new" <=> cli[d] = "new"
        /\ \A d \in Conns : cli[d] = "new" => sent'[d] = sent[d]
    BY <1>0, <1>3 DEF Client, Hello, Ask, HangUp, StopReading, ReadAgain
  <2>2. Peer' = Peer
    BY <1>0 DEF Peer
  <2>3. \A k \in DOMAIN backlog' :
          /\ th'[backlog'[k]].pc = "none" /\ cli'[backlog'[k]] # "new"
          /\ \A f \in Fds : descr'[f] # backlog'[k]
          /\ \A l \in DOMAIN backlog' : backlog'[k] = backlog'[l] => k = l
    <3>1. \A k \in DOMAIN backlog : backlog[k] \in Conns
      BY <1>0
    <3> QED
      BY <1>0, <2>1, <3>1 DEF DescriptorsOwned
  <2>4. \A d \in Conns : cli'[d] = "new" =>
          th'[d].pc = "none" /\ sent'[d] = 0 /\ \A f \in Fds : descr'[f] # d
    BY <1>0, <2>1 DEF DescriptorsOwned
  <2> QED
    BY <1>0, <1>1, <2>2, <2>3, <2>4 DEF DescriptorsOwned
<1> QED
  BY <1>2, <1>3

\* Nothing these invariants speak of changes but the clock or the monitor.
LEMMA NothingElse ==
  ASSUME OwnRequests, DescriptorsOwned, UNCHANGED <<descr, backlog, acc, th, cli, sent, inq>>
  PROVE  OwnRequests' /\ DescriptorsOwned'
<1>1. Peer' = Peer
  BY DEF Peer
<1>2. OwnRequests'
  BY <1>1 DEF OwnRequests, RequestsOf
<1>3. DescriptorsOwned'
  BY <1>1 DEF DescriptorsOwned
<1> QED
  BY <1>2, <1>3

BasicInv == Basics /\ MonitorAtSlot

LEMMA BasicInit ==
  ASSUME Init
  PROVE  BasicInv
<1>0. NoPacket \in ChatPacket /\ 0 \in 0 .. MAX_CLIENTS
  BY PacketTypes, MaxClients
<1>1. lista \in [Slots -> Cliente] /\ num_clientes = 0 /\ mutex_lista = Unlocked
  BY DEF Init, cl_init, Cliente
<1>2. acc = Accepting /\ Accepting \in AccRecords /\ acc.pc = "accept"
  BY <1>0 DEF Init, Accepting, AccRecords
<1>3. th = [c \in Conns |-> NoThread] /\ NoThread \in Threads /\ NoThread.pc = "none"
  BY <1>0 DEF Init, NoThread, Threads, ThreadPCs
<1>4. mon \in MonRecords /\ mon.pc = "sleep"
  BY <1>0 DEF Init, MonRecords
<1>5. TypeOK
  BY <1>0, <1>1, <1>2, <1>3, <1>4 DEF Init, TypeOK, AccRecords, MonRecords
<1>6. OwnRequests
  <2>1. \A c \in Conns : <<>> \in Seq(RequestsOf(c))
    OBVIOUS
  <2> QED
    BY <1>2, <1>3, <2>1 DEF Init, OwnRequests, Serving
<1>7. DescriptorsOwned
  <2>1. \A c \in Conns : c # NoConn
    BY ServerAssumption
  <2>2. DOMAIN backlog = {}
    BY DEF Init
  <2> QED
    BY <1>2, <1>3, <2>1, <2>2 DEF Init, DescriptorsOwned, OpenThreads
<1> QED
  BY <1>4, <1>5, <1>6, <1>7 DEF BasicInv, Basics, MonitorAtSlot

LEMMA BasicStep ==
  ASSUME BasicInv, [Next]_vars
  PROVE  BasicInv'
<1>0. Basics /\ MonitorAtSlot
  BY DEF BasicInv
<1>1. CASE AcceptLoop
  <2>1. MonitorAtSlot'
    BY <1>0, <1>1 DEF AcceptLoop, MonitorAtSlot
  <2> QED
    BY <1>0, <1>1, <2>1, AcceptTypes, AcceptOwnsRequests, AcceptKeepsDescriptors
      DEF BasicInv, Basics
<1>2. ASSUME NEW c \in Conns, ClientThread(c) PROVE BasicInv'
  <2>1. MonitorAtSlot'
    BY <1>0, <1>2 DEF ClientThread, MonitorAtSlot
  <2> QED
    BY <1>0, <1>2, <2>1, ThreadTypes, ThreadOwnsRequests, ThreadKeepsDescriptors
      DEF BasicInv, Basics
<1>3. ASSUME NEW c \in Conns, Client(c) PROVE BasicInv'
  <2>1. MonitorAtSlot'
    BY <1>0, <1>3 DEF Client, serverVars, MonitorAtSlot
  <2> QED
    BY <1>0, <1>3, <2>1, ClientTypes, ClientKeepsDescriptors DEF BasicInv, Basics
<1>4. CASE InactivityThread
  <2>1. UNCHANGED <<descr, backlog, acc, th, cli, sent, inq>>
    BY <1>4 DEF InactivityThread, peers
  <2> QED
    BY <1>0, <1>4, <2>1, MonitorTypes, NothingElse DEF BasicInv, Basics
<1>5. CASE Tick
  <2>1. UNCHANGED <<lista, num_clientes, mutex_lista, descr, backlog, acc, th, mon, cli,
                    sent, full, inq, delivered>>
    BY <1>5 DEF Tick, peers, listVars
  <2>2. clock' \in Nat
    BY <1>0, <1>5 DEF Tick, Basics, TypeOK
  <2>3. TypeOK'
    BY <1>0, <2>1, <2>2 DEF Basics, TypeOK
  <2>4. OwnRequests' /\ DescriptorsOwned'
    BY <1>0, <2>1, NothingElse DEF Basics
  <2> QED
    BY <1>0, <2>1, <2>3, <2>4 DEF BasicInv, Basics, MonitorAtSlot
<1>6. CASE UNCHANGED vars
  <2>1. UNCHANGED <<lista, num_clientes, mutex_lista, descr, backlog, acc, th, mon, clock,
                    cli, sent, full, inq, delivered>>
    BY <1>6 DEF vars, serverVars, peers, listVars
  <2>2. TypeOK'
    BY <1>0, <2>1 DEF Basics, TypeOK
  <2>3. OwnRequests' /\ DescriptorsOwned'
    BY <1>0, <2>1, NothingElse DEF Basics
  <2> QED
    BY <1>0, <2>1, <2>2, <2>3 DEF BasicInv, Basics, MonitorAtSlot
<1> QED
  BY <1>1, <1>2, <1>3, <1>4, <1>5, <1>6 DEF Next, Over

LEMMA BasicInvariant == Spec => []BasicInv
<1>1. Init => BasicInv
  BY BasicInit
<1>2. BasicInv /\ [Next]_vars => BasicInv'
  BY BasicStep
<1> QED
  BY <1>1, <1>2, PTL DEF Spec

(***************************************************************************)
(* Every variable keeps its type, whatever the numbers of connections,     *)
(* slots and descriptors: no loop leaves the table, no handler writes a    *)
(* status that is none, and the threads' locals are what they should be.   *)
(***************************************************************************)
THEOREM TypeCorrect == Spec => []TypeOK
<1>1. BasicInv => TypeOK
  BY DEF BasicInv, Basics
<1> QED
  BY <1>1, BasicInvariant, PTL

(***************************************************************************)
(* Every open descriptor has one owner, and every owner one descriptor: it *)
(* is closed once, and by who owns it.                                     *)
(***************************************************************************)
THEOREM DescriptorsHaveOneOwner == Spec => []DescriptorsOwned
<1>1. BasicInv => DescriptorsOwned
  BY DEF BasicInv, Basics
<1> QED
  BY <1>1, BasicInvariant, PTL

-----------------------------------------------------------------------------
\* The monitor's time

\* The monitor judges by no time that is still to come.
MonitorBehind == mon.now <= clock

LEMMA MonitorBehindStep ==
  ASSUME BasicInv, MonitorBehind, [Next]_vars
  PROVE  MonitorBehind'
<1>0. mon \in MonRecords /\ clock \in Nat /\ mon.now \in Nat
  BY DEF BasicInv, Basics, TypeOK, MonRecords
<1>1. CASE InactivityThread
  <2>1. clock' = clock
    BY <1>1 DEF InactivityThread
  <2>2. mon'.now = mon.now \/ mon'.now = clock
    <3>1. CASE MonitorWake
      BY <1>0, <3>1 DEF MonitorWake, MonRecords
    <3>2. CASE MonitorLock \/ MonitorTell
      BY <1>0, <3>2 DEF MonitorLock, MonitorTell, MonRecords
    <3>3. CASE MonitorMark
      BY <1>0, <3>3 DEF MonitorMark, MonRecords
    <3>4. CASE MonitorDone
      BY <3>4 DEF MonitorDone
    <3> QED
      BY <1>1, <3>1, <3>2, <3>3, <3>4 DEF InactivityThread
  <2> QED
    BY <1>0, <2>1, <2>2 DEF MonitorBehind
<1>2. CASE Tick
  <2>1. mon' = mon /\ clock' = clock + 1
    BY <1>2 DEF Tick
  <2> QED
    BY <1>0, <2>1 DEF MonitorBehind
<1>3. CASE UNCHANGED <<mon, clock>>
  BY <1>3 DEF MonitorBehind
<1>4. ASSUME NEW c \in Conns, ClientThread(c) \/ Client(c) PROVE UNCHANGED <<mon, clock>>
  BY <1>4 DEF ClientThread, Client, serverVars
<1>5. CASE AcceptLoop
  BY <1>3, <1>5 DEF AcceptLoop
<1>6. CASE UNCHANGED vars
  BY <1>3, <1>6 DEF vars, serverVars
<1> QED
  BY <1>1, <1>2, <1>3, <1>4, <1>5, <1>6 DEF Next, Over

\* Whom the monitor marks has been idle for INACTIVITY_TIMEOUT by now.
LEMMA MarkedIsIdle ==
  ASSUME BasicInv, MonitorBehind, [Next]_vars, mon.pc = "scan", mon'.pc = "tell"
  PROVE  clock - lista[mon'.i].ultimo_mensaje >= INACTIVITY_TIMEOUT
<1>0. /\ mon \in MonRecords /\ clock \in Nat /\ mon.now \in Nat
      /\ lista \in [Slots -> Cliente] /\ num_clientes \in 0 .. MAX_CLIENTS
  BY DEF BasicInv, Basics, TypeOK, MonRecords
<1>1. MonitorMark
  <2>1. ASSUME NEW c \in Conns, ClientThread(c) \/ Client(c) PROVE mon' = mon
    BY <2>1 DEF ClientThread, Client, serverVars
  <2>2. AcceptLoop \/ Tick \/ Over \/ UNCHANGED vars => mon' = mon
    BY DEF AcceptLoop, Tick, Over, vars, serverVars
  <2>3. InactivityThread
    BY <2>1, <2>2 DEF Next
  <2> QED
    BY <1>0, <2>3 DEF InactivityThread, MonitorWake, MonitorLock, MonitorTell, MonitorDone,
                      MonRecords
<1>2. PICK rest : /\ rest = {j \in Idle(mon.now) : j >= mon.i} /\ rest # {}
                  /\ mon' = [mon EXCEPT !.pc = "tell", !.i = Min(rest)]
  BY <1>1 DEF MonitorMark
<1>3. Active \subseteq Slots /\ Active \in SUBSET Nat
  BY <1>0, ActiveSlots
<1>4. rest \in SUBSET Active
  BY <1>2 DEF Idle
<1>5. Min(rest) \in rest
  BY <1>2, <1>3, <1>4, MinExists
<1>6. mon'.i = Min(rest) /\ Min(rest) \in Slots /\ Min(rest) \in Idle(mon.now)
  BY <1>0, <1>2, <1>3, <1>4, <1>5 DEF MonRecords
<1>7. mon.now - lista[Min(rest)].ultimo_mensaje >= INACTIVITY_TIMEOUT
  BY <1>6 DEF Idle
<1>8. lista[Min(rest)].ultimo_mensaje \in Nat /\ INACTIVITY_TIMEOUT \in Nat
  BY <1>0, <1>6, ServerAssumption DEF Cliente
<1> QED
  BY <1>0, <1>6, <1>7, <1>8 DEF MonitorBehind

(***************************************************************************)
(* The monitor marks nobody who is not idle at that moment, however long   *)
(* it waited for the mutex after it read the clock.                        *)
(***************************************************************************)
THEOREM OnlyTheIdleAreMarked == Spec => MarksOnlyIdle
<1>1. Init => MonitorBehind
  BY DEF Init, MonitorBehind
<1>2. BasicInv /\ MonitorBehind /\ [Next]_vars => MonitorBehind'
  BY MonitorBehindStep
<1>3. BasicInv /\ MonitorBehind /\ [Next]_vars
        => [mon.pc = "scan" /\ mon'.pc = "tell"
              => clock - lista[mon'.i].ultimo_mensaje >= INACTIVITY_TIMEOUT]_vars
  BY MarkedIsIdle
<1> QED
  BY <1>1, <1>2, <1>3, BasicInvariant, PTL DEF Spec, MarksOnlyIdle
=============================================================================
