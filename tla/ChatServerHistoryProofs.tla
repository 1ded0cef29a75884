---------------------- MODULE ChatServerHistoryProofs ----------------------
(***************************************************************************)
(* What a user has been told since it came, compared with what happened    *)
(* and with what others were told, for any number of connections, slots,   *)
(* requests and ticks.                                                     *)
(***************************************************************************)
EXTENDS ChatServerPresenceProofs

-----------------------------------------------------------------------------
\* Who speaks in a step

\* A broadcast, and what is neither one nor the notice of a departure.
ForAll(p) == p.command = "MSG" /\ p.target = "ALL"
Plain(p) == p.command # "DISCONNECTED" /\ ~ForAll(p)

LEMMA ThreadSpoken ==
  ASSUME TableInv, Outs, NEW c \in Conns, ClientThread(c), ~SendNext(c)
  PROVE  UNCHANGED delivered \/ \E d \in Conns : \E p : Delivers(d, p) /\ Plain(p)
<1>0. TypeOK /\ OutOf(c)
  BY DEF TableInv, BasicInv, Basics, Outs
<1>1. CASE Notice(c)
  <2>1. PICK p : /\ p = Packet("MSG", "SERVER", "", "back to ACTIVE")
                 /\ send_packet(th[c].sockfd, p) /\ th[c].pc = "notice"
    BY <1>1 DEF Notice
  <2>2. Plain(p)
    BY <2>1 DEF Packet, Plain, ForAll
  <2> QED
    BY <2>1, <2>2, SendToOwn
<1>2. CASE Reply(c)
  <2>1. send_packet(th[c].sockfd, th[c].out) /\ th[c].pc = "reply"
    BY <1>2 DEF Reply
  <2>2. Plain(th[c].out)
    BY <1>0, <2>1 DEF OutOf, Unasked, Plain, ForAll
  <2> QED
    BY <2>1, <2>2, SendToOwn
<1>3. CASE DirectSend(c)
  <2>1. th[c].pc = "passing" /\ send_packet(lista[th[c].i].sockfd, th[c].out)
    BY <1>3 DEF DirectSend
  <2>2. PICK i \in Active : i = th[c].i /\ th[c].out.target = lista[i].username
    BY <1>0, <2>1 DEF OutOf
  <2>3. /\ UNCHANGED delivered \/ Delivers(Owner(i), th[c].out)
        /\ Owner(i) \in Conns /\ lista[i].username = Clip[NameOf[Owner(i)]]
    BY <2>1, <2>2, SendToSlot
  <2>4. lista[i].username # "ALL"
    <3>1. NameOf[Owner(i)] \in Names
      BY <2>3, ServerAssumption
    <3> QED
      BY <2>3, <3>1, NameCut
  <2>5. Plain(th[c].out)
    BY <1>0, <2>1, <2>2, <2>4 DEF OutOf, Plain, ForAll
  <2> QED
    BY <2>3, <2>5
<1>4. CASE ~(Notice(c) \/ Reply(c) \/ DirectSend(c))
  BY <1>4 DEF ClientThread, Recv, RecvFails, Touch, HandleBroadcast,
    BroadcastDone, HandleDirect, HandleStatus, HandleList, HandleInfo,
    HandleLogout, ResolveName, Remove, Close, NotifyDisconnect, NotifyDone
<1> QED
  BY <1>1, <1>2, <1>3, <1>4

LEMMA OthersSpoken ==
  ASSUME TableInv, AcceptLoop \/ InactivityThread
  PROVE  UNCHANGED delivered \/ \E d \in Conns : \E p : Delivers(d, p) /\ Plain(p)
<1>1. CASE AcceptLoop /\ AnswerRegister
  <2>0. Basics /\ acc \in AccRecords
    BY DEF TableInv, BasicInv, Basics, TypeOK, AccRecords
  <2>1. acc.pc = "answer" /\ send_packet(acc.fd, Greeting)
    BY <1>1 DEF AnswerRegister
  <2>2. PICK d \in Conns : d = Peer /\ d = descr[acc.fd] /\ acc.fd \in Fds
    BY <2>0, <2>1, PeerApart
  <2>3. Plain(Greeting)
    BY <2>0 DEF Greeting, Ok, Error, Packet, Plain, ForAll
  <2>4. UNCHANGED delivered \/ Delivers(d, Greeting)
    BY <2>0, <2>1, <2>2, SendDelivers DEF Basics
  <2> QED
    BY <2>3, <2>4
<1>2. CASE InactivityThread /\ MonitorTell
  <2>1. PICK i \in Active : i = mon.i
    BY <1>2 DEF MonitorTell, TableInv, MutexProtects
  <2>2. PICK p : /\ p = Packet("MSG", "SERVER", lista[i].username, "now INACTIVE")
                 /\ send_packet(lista[i].sockfd, p)
    BY <1>2, <2>1 DEF MonitorTell
  <2>3. /\ UNCHANGED delivered \/ Delivers(Owner(i), p)
        /\ Owner(i) \in Conns /\ lista[i].username = Clip[NameOf[Owner(i)]]
    BY <2>1, <2>2, SendToSlot
  <2>4. lista[i].username # "ALL"
    <3>1. NameOf[Owner(i)] \in Names
      BY <2>3, ServerAssumption
    <3> QED
      BY <2>3, <3>1, NameCut
  <2>5. Plain(p)
    BY <2>2, <2>4 DEF Packet, Plain, ForAll
  <2> QED
    BY <2>3, <2>5
<1>3. CASE AcceptLoop /\ ~AnswerRegister
  BY <1>3 DEF AcceptLoop, Accept, FirstIsRegister, FirstIsNot, HandleRegister,
    CheckRegistered
<1>4. CASE InactivityThread /\ ~MonitorTell
  BY <1>4 DEF InactivityThread, MonitorWake, MonitorLock, MonitorMark, MonitorDone
<1> QED
  BY <1>1, <1>2, <1>3, <1>4

\* Broadcasts and notices come from the loops of the client threads only.
LEMMA Spoken ==
  ASSUME TableOuts, [Next]_vars
  PROVE  \/ UNCHANGED delivered
         \/ \E d \in Conns : \E p : Delivers(d, p) /\ Plain(p)
         \/ \E c \in Conns : ClientThread(c) /\ SendNext(c)
<1>1. CASE \E c \in Conns : Client(c)
  BY <1>1 DEF Client, serverVars
<1>2. CASE Tick \/ UNCHANGED vars
  BY <1>2 DEF Tick, vars, serverVars
<1> QED
  BY <1>1, <1>2, ThreadSpoken, OthersSpoken DEF TableOuts, Next, Over

\* There is one thread at most in a loop of sends.
LEMMA OneLoop ==
  ASSUME TableInv, NEW c \in Conns, th[c].pc \in Holding
  PROVE  /\ mutex_lista = c /\ mutex_lista # Unlocked
         /\ \A d \in Conns : th[d].pc \in Holding => d = c
<1>1. \A d \in Conns : th[d].pc \in Holding => mutex_lista = d
  BY DEF TableInv, MutexProtects, Holding
<1>2. Unlocked \notin Conns
  BY ServerAssumption
<1> QED
  BY <1>1, <1>2

\* One round: the next slot in use is sent the packet, and is behind the loop.
LEMMA Round ==
  ASSUME TableInv, TableInv', [Next]_vars, NEW c \in Conns, ClientThread(c), SendNext(c)
  PROVE  /\ Active' = Active /\ cli' = cli /\ \A d \in Conns \ {c} : th'[d] = th[d]
         /\ \A i \in Active : Owner(i)' = Owner(i) /\ Owner(i) \in Conns
         /\ th[c].pc \in {"sending", "telling"}
         /\ th'[c].pc = th[c].pc /\ th'[c].out = th[c].out
         /\ \E j \in Active : /\ th'[c].i = j + 1 /\ j >= th[c].i
                              /\ \A i \in Active : i >= th[c].i => i >= j
                              /\ UNCHANGED delivered \/ Delivers(Owner(j), th[c].out)
                              /\ cli[Owner(j)] = "up" => Delivers(Owner(j), th[c].out)
<1>0. TypeOK /\ th \in [Conns -> Threads]
  BY DEF TableInv, BasicInv, Basics, TypeOK
<1>1. th[c].pc \in {"sending", "telling"} /\ \E i : th' = [th EXCEPT ![c].i = i]
  BY DEF SendNext
<1>2. th'[c].pc = th[c].pc /\ th'[c].out = th[c].out /\ \A d \in Conns \ {c} : th'[d] = th[d]
  BY <1>0, <1>1 DEF Threads
<1>3. mutex_lista # Unlocked
  BY <1>1, OneLoop DEF Holding
<1>4. Active' = Active /\ \A i \in Active : Owner(i)' = Owner(i) /\ Owner(i) \in Conns
  BY <1>3, HeldSlots
<1>5. cli' = cli
  BY DEF ClientThread, peers
<1> QED
  BY <1>0, <1>1, <1>2, <1>4, <1>5, SendNextSlot, SendToSlot

-----------------------------------------------------------------------------
\* The name a session leaves under

\* A thread learns its user's name from a LOGOUT or from its slot, and
\* announces the departure of a user whose name it has.
LEMMA NameLearnt ==
  ASSUME Basics, NEW c \in Conns, ClientThread(c)
  PROVE  /\ \/ th'[c].username = th[c].username
            \/ HandleLogout(c) /\ th'[c].username = Clip[th[c].pkt.sender]
            \/ /\ ResolveName(c)
               /\ \E idx \in Active : /\ lista[idx].sockfd = th[c].sockfd
                                      /\ th'[c].username = lista[idx].username
         /\ th'[c].pc = "announce" => Close(c) /\ th[c].username # ""
<1> DEFINE Same == th'[c].username = th[c].username
           Quiet == th'[c].pc # "announce"
<1>0. th \in [Conns -> Threads] /\ th[c] \in Threads /\ ListTypeOK
  BY DEF Basics, TypeOK, ListTypeOK
<1>a. \A cmd : HandlerOf(cmd) # "announce"
  BY DEF HandlerOf
<1>b. ASSUME NEW p, Goto(c, p) PROVE Same /\ th'[c].pc = p
  BY <1>0, <1>b DEF Goto, Threads
<1>c. ASSUME Next_packet(c) PROVE Same /\ Quiet
  BY <1>0, <1>c DEF Next_packet, Threads
<1>d. ASSUME NEW o, Answer(c, o) PROVE Same /\ Quiet
  <2>1. th'[c] = [th[c] EXCEPT !.pc = "reply", !.out = o]
    BY <1>0, <1>d DEF Answer
  <2> QED
    BY <1>0, <2>1 DEF Threads
<1>e. ASSUME NEW p, NEW i, NEW o, th' = [th EXCEPT ![c].pc = p, ![c].i = i, ![c].out = o]
      PROVE  Same /\ th'[c].pc = p
  <2>1. th'[c] = [th[c] EXCEPT !.pc = p, !.i = i, !.out = o]
    BY <1>0, <1>e
  <2> QED
    BY <1>0, <2>1 DEF Threads
<1>1. CASE Recv(c)
  <2>1. PICK pkt : th' = [th EXCEPT ![c].pkt = pkt, ![c].pc =
                           IF pkt.command \in Activity THEN "touch"
                           ELSE HandlerOf(pkt.command)]
    BY <1>1 DEF Recv
  <2>2. PICK p : /\ p = IF pkt.command \in Activity THEN "touch"
                        ELSE HandlerOf(pkt.command)
                 /\ p # "announce"
    BY <1>a
  <2>3. th'[c] = [th[c] EXCEPT !.pkt = pkt, !.pc = p]
    BY <1>0, <2>1, <2>2
  <2> QED
    BY <1>0, <2>2, <2>3 DEF Threads
<1>2. CASE RecvFails(c) \/ Touch(c) \/ Notice(c) \/ Remove(c)
  <2>1. PICK p \in {"resolve", "close", "notice", HandlerOf(th[c].pkt.command)} : Goto(c, p)
    BY <1>2 DEF RecvFails, Touch, Notice, Remove
  <2> QED
    BY <1>a, <1>b, <2>1
<1>3. CASE Close(c)
  <2>1. CASE th[c].username # ""
    <3>1. Goto(c, "announce")
      BY <1>3, <2>1 DEF Close
    <3> QED
      BY <1>b, <1>3, <2>1, <3>1
  <2>2. CASE ~(th[c].username # "")
    <3>1. Goto(c, "done")
      BY <1>3, <2>2 DEF Close
    <3>2. Same /\ Quiet
      BY <1>b, <3>1
    <3> QED
      BY <3>2
  <2> QED
    BY <2>1, <2>2
<1>4. CASE HandleBroadcast(c) \/ NotifyDisconnect(c)
  <2>0. PICK p \in {"sending", "telling"} : \E o :
          th' = [th EXCEPT ![c].pc = p, ![c].i = 0, ![c].out = o]
    BY <1>4 DEF HandleBroadcast, NotifyDisconnect
  <2>1. PICK o : th' = [th EXCEPT ![c].pc = p, ![c].i = 0, ![c].out = o]
    BY <2>0
  <2>2. Same /\ th'[c].pc = p
    BY <1>e, <2>1
  <2> QED
    BY <2>0, <2>2
<1>5. CASE HandleDirect(c)
  <2>1. PICK i, o, e :
          \/ th' = [th EXCEPT ![c].pc = "passing", ![c].i = i, ![c].out = o]
          \/ Answer(c, e)
    BY <1>5 DEF HandleDirect
  <2>2. Same /\ Quiet
    <3>1. CASE th' = [th EXCEPT ![c].pc = "passing", ![c].i = i, ![c].out = o]
      <4>1. Same /\ th'[c].pc = "passing"
        BY <1>e, <3>1
      <4> QED
        BY <4>1
    <3> QED
      BY <1>d, <2>1, <3>1
  <2> QED
    BY <2>2
<1>6. CASE BroadcastDone(c) \/ DirectSend(c)
  BY <1>c, <1>6 DEF BroadcastDone, DirectSend
<1>7. CASE HandleStatus(c) \/ HandleList(c) \/ HandleInfo(c)
  <2>1. PICK o : Answer(c, o)
    BY <1>7 DEF HandleStatus, HandleList, HandleInfo
  <2>2. Same /\ Quiet
    BY <1>d, <2>1
  <2> QED
    BY <2>2
<1>8. CASE Reply(c)
  <2>1. Goto(c, "resolve") \/ Next_packet(c)
    BY <1>8 DEF Reply
  <2>2. ASSUME Goto(c, "resolve") PROVE Same /\ th'[c].pc = "resolve"
    BY <1>b, <2>2
  <2>3. Same /\ Quiet
    BY <1>c, <2>1, <2>2
  <2> QED
    BY <2>3
<1>9. CASE SendNext(c)
  <2>1. PICK i : th' = [th EXCEPT ![c].i = i] /\ th[c].pc # "announce"
    BY <1>9 DEF SendNext
  <2>2. Same /\ th'[c].pc = th[c].pc
    BY <1>0, <2>1 DEF Threads
  <2> QED
    BY <2>1, <2>2
<1>10. CASE HandleLogout(c)
  <2>1. PICK u, o : /\ u = Clip[th[c].pkt.sender]
                    /\ th' = [th EXCEPT ![c].pc = "reply", ![c].username = u, ![c].out = o]
    BY <1>10 DEF HandleLogout
  <2>2. th'[c] = [th[c] EXCEPT !.pc = "reply", !.username = u, !.out = o]
    BY <1>0, <2>1
  <2>3. th'[c].username = u /\ th'[c].pc = "reply"
    BY <1>0, <2>2 DEF Threads
  <2> QED
    BY <1>10, <2>1, <2>3
<1>11. CASE ResolveName(c)
  <2>1. CASE Goto(c, "remove")
    <3>1. Same /\ th'[c].pc = "remove"
      BY <1>b, <2>1
    <3> QED
      BY <3>1
  <2>2. CASE ~Goto(c, "remove")
    <3>1. PICK idx : /\ idx = cl_find_by_fd(th[c].sockfd)
                     /\ th' = [th EXCEPT ![c].pc = "remove", ![c].username =
                                 IF idx >= 0 THEN lista[idx].username ELSE @]
      BY <1>11, <2>2 DEF ResolveName
    <3>2. /\ th'[c].pc = "remove"
          /\ th'[c].username = IF idx >= 0 THEN lista[idx].username ELSE th[c].username
      BY <1>0, <3>1 DEF Threads
    <3>3. idx >= 0 => idx \in Active /\ lista[idx].sockfd = th[c].sockfd
      BY <1>0, <3>1, Finds DEF ListTypeOK
    <3> QED
      BY <1>11, <3>2, <3>3
  <2> QED
    BY <2>1, <2>2
<1>12. CASE NotifyDone(c)
  <2>1. th'[c].username = th[c].username /\ th'[c].pc = "done"
    BY <1>0, <1>12 DEF NotifyDone, NoThread
  <2> QED
    BY <2>1
<1> QED
  BY <1>1, <1>2, <1>3, <1>4, <1>5, <1>6, <1>7, <1>8, <1>9, <1>10, <1>11, <1>12
  DEF ClientThread

(***************************************************************************)
(* The name a thread has for its user is the one its slot was given, and   *)
(* it is the one it announces the departure of.                            *)
(***************************************************************************)
Named(c) ==
  /\ th[c].username \in {"", Clip[NameOf[c]]}
  /\ th[c].pc \in {"announce", "telling"} => th[c].username = Clip[NameOf[c]]
  /\ th[c].pc = "telling" => th[c].out.payload = Clip[NameOf[c]]

AllNamed == \A c \in Conns : Named(c)

LEMMA NamedStep ==
  ASSUME TableInv, TableInv', AllNamed, [Next]_vars
  PROVE  AllNamed'
<1> SUFFICES ASSUME NEW c \in Conns PROVE Named(c)'
  BY DEF AllNamed
<1>0. Basics /\ Named(c)
  BY DEF TableInv, BasicInv, AllNamed
<1>1. CASE th'[c] = th[c]
  BY <1>0, <1>1 DEF Named
<1>2. CASE ClientThread(c)
  <2>1. th'[c].username \in {th[c].username, Clip[NameOf[c]]}
    <3>1. CASE HandleLogout(c) /\ th'[c].username = Clip[th[c].pkt.sender]
      <4>1. th[c].pkt.sender = NameOf[c]
        BY <1>0, <3>1, RequestFields DEF HandleLogout, Serving
      <4> QED
        BY <3>1, <4>1
    <3>2. ASSUME ResolveName(c), NEW idx \in Active, lista[idx].sockfd = th[c].sockfd,
                 th'[c].username = lista[idx].username
          PROVE  th'[c].username = Clip[NameOf[c]]
      <4>1. descr[th[c].sockfd] = c
        BY <1>0, <3>2 DEF ResolveName, Basics, DescriptorsOwned, OpenThreads, ThreadPCs
      <4>2. Owner(idx) = c
        BY <3>2, <4>1 DEF Owner
      <4> QED
        BY <3>2, <4>2 DEF TableInv, Entries
    <3> QED
      BY <1>0, <1>2, <3>1, <3>2, NameLearnt
  <2>2. ASSUME th'[c].pc = "announce" PROVE th'[c].username = Clip[NameOf[c]]
    <3>1. Close(c) /\ th[c].username = Clip[NameOf[c]]
      BY <1>0, <1>2, <2>2, NameLearnt DEF Named
    <3> QED
      BY <2>1, <3>1
  <2>3. ASSUME th'[c].pc = "telling"
        PROVE  /\ th[c].username = Clip[NameOf[c]]
               /\ th'[c].out.payload = Clip[NameOf[c]]
    <3>1. \/ th[c].pc = "telling" /\ th'[c].out = th[c].out
          \/ th[c].pc = "announce" /\ th'[c].out.payload = th[c].username
      BY <1>0, <1>2, <2>3, ThreadSpeaks DEF Outgoing, NotifyDisconnect
    <3> QED
      BY <1>0, <3>1 DEF Named
  <2> QED
    BY <1>0, <2>1, <2>2, <2>3 DEF Named
<1>3. CASE /\ AcceptLoop /\ acc.pc = "check" /\ Peer = c
           /\ th[c].pc = "none" /\ th'[c].pc = "recv"
  <2>1. th'[c].username = th[c].username
    <3>0. th \in [Conns -> Threads] /\ th[c] \in Threads
      BY <1>0 DEF Basics, TypeOK
    <3>1. th' = [th EXCEPT ![c].pc = "recv", ![c].sockfd = acc.fd] \/ th' = th
      BY <1>3 DEF AcceptLoop, Accept, FirstIsRegister, FirstIsNot, HandleRegister,
        AnswerRegister, CheckRegistered
    <3>2. CASE th' = [th EXCEPT ![c].pc = "recv", ![c].sockfd = acc.fd]
      <4>1. th'[c] = [th[c] EXCEPT !.pc = "recv", !.sockfd = acc.fd]
        BY <3>0, <3>2
      <4> QED
        BY <3>0, <4>1 DEF Threads
    <3> QED
      BY <3>1, <3>2
  <2> QED
    BY <1>0, <1>3, <2>1 DEF Named
<1> QED
  BY <1>1, <1>2, <1>3, ThreadsApart

-----------------------------------------------------------------------------
\* Departures and their notices

IsNotice(p, n) == p.command = "DISCONNECTED" /\ p.payload = n
Notices(c, n) == {k \in DOMAIN delivered[c] : IsNotice(delivered[c][k], n)}
Ended(n) == {d \in Conns : th[d].pc \in {"telling", "done"} /\ Clip[NameOf[d]] = n}

\* A notice of the departure of an n is on its way to c.
Owed(c, n) ==
  \E d \in Conns : /\ th[d].pc = "telling" /\ Clip[NameOf[d]] = n
                   /\ \E i \in Active : Owner(i) = c /\ i >= th[d].i

(***************************************************************************)
(* What NoticeOnce needs to be inductive: the notice a loop still has for  *)
(* somebody counts as if he had got it.                                    *)
(***************************************************************************)
Notified ==
  \A n \in Names :
    /\ IsFiniteSet(Ended(n))
    /\ \A c \in Conns : Cardinality(Notices(c, n)) + (IF Owed(c, n) THEN 1 ELSE 0)
                          <= Cardinality(Ended(n))

LEMMA NoticesFinite ==
  ASSUME TypeOK, NEW c \in Conns, NEW n
  PROVE  /\ IsFiniteSet(Notices(c, n)) /\ Cardinality(Notices(c, n)) \in Nat
         /\ Len(delivered[c]) + 1 \notin Notices(c, n)
<1>1. PICK s \in Seq(ChatPacket) : s = delivered[c]
  BY DEF TypeOK
<1>2. DOMAIN s = 1 .. Len(s) /\ Len(s) \in Nat
  BY <1>1
<1>3. Notices(c, n) \in SUBSET (1 .. Len(s))
  BY <1>1, <1>2 DEF Notices
<1>4. IsFiniteSet(1 .. Len(s))
  BY <1>2, FS_Interval
<1>5. IsFiniteSet(Notices(c, n))
  BY <1>3, <1>4, FS_Subset
<1>6. Cardinality(Notices(c, n)) \in Nat
  BY <1>5, FS_CardinalityType
<1> QED
  BY <1>1, <1>2, <1>3, <1>5, <1>6

LEMMA NoticesGrow ==
  ASSUME TypeOK, NEW d \in Conns, NEW p, Delivers(d, p), NEW c \in Conns, NEW n
  PROVE  Notices(c, n)' = IF c = d /\ IsNotice(p, n)
                          THEN Notices(c, n) \cup {Len(delivered[c]) + 1}
                          ELSE Notices(c, n)
<1>0. delivered \in [Conns -> Seq(ChatPacket)]
  BY DEF TypeOK
<1>1. CASE c # d
  <2>1. delivered'[c] = delivered[c]
    BY <1>0, <1>1, Grows
  <2> QED
    BY <1>1, <2>1 DEF Notices
<1>2. CASE c = d
  <2>1. /\ DOMAIN delivered'[c] = DOMAIN delivered[c] \cup {Len(delivered[c]) + 1}
        /\ \A k \in DOMAIN delivered[c] : delivered'[c][k] = delivered[c][k]
        /\ delivered'[c][Len(delivered[c]) + 1] = p
    BY <1>0, <1>2, Grows
  <2>2. Len(delivered[c]) + 1 \notin DOMAIN delivered[c]
    <3>1. PICK s \in Seq(ChatPacket) : s = delivered[c]
      BY <1>0
    <3> QED
      BY <3>1
  <2> QED
    BY <1>2, <2>1, <2>2 DEF Notices
<1> QED
  BY <1>1, <1>2

\* A step ends one session at most.
LEMMA EndedGrows ==
  ASSUME TableInv, [Next]_vars, NEW n
  PROVE  \/ Ended(n)' = Ended(n)
         \/ \E d \in Conns \ Ended(n) : Ended(n)' = Ended(n) \cup {d}
<1>0. Basics /\ th \in [Conns -> Threads]
  BY DEF TableInv, BasicInv, Basics, TypeOK
<1>1. ASSUME NEW c \in Conns, ClientThread(c)
      PROVE  \/ Ended(n)' = Ended(n)
             \/ \E d \in Conns \ Ended(n) : Ended(n)' = Ended(n) \cup {d}
  <2>1. \A d \in Conns \ {c} : th'[d] = th[d]
    BY <1>0, <1>1, ThreadFrame
  <2>2. ASSUME th[c].pc \in {"telling", "done"} PROVE th'[c].pc \in {"telling", "done"}
    <3>1. SendNext(c) \/ NotifyDone(c)
      BY <1>0, <1>1, <2>2 DEF ClientThread, Recv, RecvFails, Touch, Notice,
        HandleBroadcast, BroadcastDone, HandleDirect, DirectSend, HandleStatus,
        HandleList, HandleInfo, HandleLogout, Reply, ResolveName, Remove, Close,
        NotifyDisconnect
    <3>2. CASE SendNext(c)
      <4>1. PICK i : th' = [th EXCEPT ![c].i = i]
        BY <3>2 DEF SendNext
      <4>2. th'[c].pc = th[c].pc
        BY <1>0, <4>1 DEF Threads
      <4> QED
        BY <2>2, <4>2
    <3>3. CASE NotifyDone(c)
      BY <1>0, <3>3 DEF NotifyDone, NoThread
    <3> QED
      BY <3>1, <3>2, <3>3
  <2>3. CASE c \notin Ended(n) /\ c \in Ended(n)'
    BY <2>1, <2>3 DEF Ended
  <2>4. CASE c \in Ended(n) <=> c \in Ended(n)'
    BY <2>1, <2>4 DEF Ended
  <2> QED
    BY <2>2, <2>3, <2>4 DEF Ended
<1>2. ASSUME \A c \in Conns : ~ClientThread(c)
      PROVE  Ended(n)' = Ended(n)
  <2>1. \A c \in Conns : th'[c] = th[c] \/ (th[c].pc = "none" /\ th'[c].pc = "recv")
    BY <1>2, ThreadsApart
  <2> QED
    BY <2>1 DEF Ended
<1> QED
  BY <1>1, <1>2

\* A notice is on its way since its session ended.
LEMMA OwedBefore ==
  ASSUME TableInv, TableInv', [Next]_vars, NEW c \in Conns, NEW n, Owed(c, n)'
  PROVE  Owed(c, n) \/ \E d \in Conns : d \notin Ended(n) /\ d \in Ended(n)'
<1>1. PICK d \in Conns, i \in Active' :
        th'[d].pc = "telling" /\ Clip[NameOf[d]] = n /\ Owner(i)' = c /\ i >= th'[d].i
  BY DEF Owed
<1>0. /\ Basics /\ th[d] \in Threads /\ th'[d] \in Threads /\ Active \in SUBSET Nat
  BY ActiveSlots DEF TableInv, BasicInv, Basics, TypeOK
<1>2. CASE th[d].pc = "telling"
  <2>1. mutex_lista # Unlocked
    BY <1>2, OneLoop DEF Holding
  <2>2. i \in Active /\ Owner(i) = c
    BY <1>1, <2>1, HeldSlots
  <2>3. i >= th[d].i
    <3>1. CASE SendNext(d) /\ ClientThread(d)
      <4>1. PICK j \in Active : th'[d].i = j + 1 /\ j >= th[d].i
        BY <3>1, Round
      <4>2. i \in Nat /\ j \in Nat /\ th[d].i \in Nat
        BY <1>0, <2>2, LoopIndex
      <4> QED
        BY <1>1, <4>1, <4>2
    <3>2. (SendNext(d) /\ ClientThread(d)) \/ th'[d] = th[d]
      BY <1>0, <1>1, <1>2, ThreadsApart, ThreadSpeaks DEF Outgoing, NotifyDisconnect
    <3> QED
      BY <1>1, <3>1, <3>2
  <2> QED
    BY <1>1, <1>2, <2>2, <2>3 DEF Owed
<1>3. CASE th[d].pc # "telling"
  <2>1. ClientThread(d)
    BY <1>1, <1>3, ThreadsApart
  <2>2. NotifyDisconnect(d)
    BY <1>0, <1>1, <1>3, <2>1, ThreadSpeaks DEF Outgoing
  <2>3. th[d].pc = "announce"
    BY <2>2 DEF NotifyDisconnect
  <2> QED
    BY <1>1, <2>3 DEF Ended
<1> QED
  BY <1>2, <1>3

\* Only the loop of a notice gives anybody one, and he was owed it.
LEMMA NoticeGiven ==
  ASSUME TableOuts, TableOuts', AllNamed, [Next]_vars, NEW c \in Conns, NEW n
  PROVE  \/ Notices(c, n)' = Notices(c, n)
         \/ /\ Notices(c, n)' = Notices(c, n) \cup {Len(delivered[c]) + 1}
            /\ Owed(c, n) /\ ~Owed(c, n)'
<1>0. /\ TableInv /\ TableInv' /\ TypeOK /\ Outs
      /\ Active \in SUBSET Nat
  BY ActiveSlots DEF TableOuts, TableInv, BasicInv, Basics, TypeOK
<1>1. CASE UNCHANGED delivered
  BY <1>1 DEF Notices
<1>2. ASSUME NEW d \in Conns, NEW p, Delivers(d, p), Plain(p)
      PROVE  Notices(c, n)' = Notices(c, n)
  BY <1>0, <1>2, NoticesGrow DEF Plain, IsNotice
<1>3. ASSUME NEW b \in Conns, ClientThread(b), SendNext(b)
      PROVE  \/ Notices(c, n)' = Notices(c, n)
             \/ /\ Notices(c, n)' = Notices(c, n) \cup {Len(delivered[c]) + 1}
                /\ Owed(c, n) /\ ~Owed(c, n)'
  <2>1. PICK j \in Active : /\ th'[b].i = j + 1 /\ j >= th[b].i
                            /\ UNCHANGED delivered \/ Delivers(Owner(j), th[b].out)
    BY <1>0, <1>3, Round
  <2>2. /\ Active' = Active /\ \A i \in Active : Owner(i)' = Owner(i) /\ Owner(i) \in Conns
        /\ th[b].pc \in {"sending", "telling"} /\ th'[b].pc = th[b].pc
    BY <1>0, <1>3, Round
  <2>3. PICK o, p : o \in Conns /\ o = Owner(j) /\ p = th[b].out
    BY <2>2
  <2>4. CASE Delivers(o, p) /\ c = o /\ IsNotice(p, n)
    <3>1. Notices(c, n)' = Notices(c, n) \cup {Len(delivered[c]) + 1}
      BY <1>0, <2>4, NoticesGrow
    <3>2. th[b].pc = "telling" /\ Clip[NameOf[b]] = n
      BY <1>0, <2>2, <2>3, <2>4 DEF IsNotice, Outs, OutOf, AllNamed, Named
    <3>3. Owed(c, n)
      BY <2>1, <2>3, <2>4, <3>2 DEF Owed
    <3>4. ASSUME NEW d \in Conns, th'[d].pc = "telling", NEW i \in Active', Owner(i)' = c,
                 i >= th'[d].i
          PROVE  FALSE
      <4>1. th'[b].pc \in Holding /\ th'[d].pc \in Holding
        BY <2>2, <3>2, <3>4 DEF Holding
      <4>2. mutex_lista' = b /\ mutex_lista' = d
        BY <1>0, <4>1 DEF TableInv, MutexProtects, Holding
      <4>3. d = b
        BY <4>2
      <4>4. i = j
        BY <1>0, <2>2, <2>3, <2>4, <3>4, OneSlot
      <4> QED
        BY <1>0, <2>1, <3>4, <4>3, <4>4
    <3> QED
      BY <3>1, <3>3, <3>4 DEF Owed
  <2>5. CASE ~(Delivers(o, p) /\ c = o /\ IsNotice(p, n))
    BY <1>0, <1>1, <2>1, <2>3, <2>5, NoticesGrow
  <2> QED
    BY <2>4, <2>5
<1> QED
  BY <1>1, <1>2, <1>3, Spoken

LEMMA NotifiedStep ==
  ASSUME TableOuts, TableOuts', AllNamed, Notified, [Next]_vars
  PROVE  Notified'
<1>0. TableInv /\ TableInv' /\ TypeOK
  BY DEF TableOuts, TableInv, BasicInv, Basics
<1> SUFFICES ASSUME NEW n \in Names
             PROVE  /\ IsFiniteSet(Ended(n)')
                    /\ \A c \in Conns :
                         Cardinality(Notices(c, n)') + (IF Owed(c, n)' THEN 1 ELSE 0)
                           <= Cardinality(Ended(n)')
  BY DEF Notified
<1>1. IsFiniteSet(Ended(n)) /\ Cardinality(Ended(n)) \in Nat
  BY FS_CardinalityType DEF Notified
<1>2. \/ Ended(n)' = Ended(n)
      \/ /\ IsFiniteSet(Ended(n)') /\ Cardinality(Ended(n)') = Cardinality(Ended(n)) + 1
  <2>1. ASSUME NEW d \in Conns \ Ended(n), Ended(n)' = Ended(n) \cup {d}
        PROVE  IsFiniteSet(Ended(n)') /\ Cardinality(Ended(n)') = Cardinality(Ended(n)) + 1
    BY <1>1, <2>1, FS_AddElement
  <2> QED
    BY <1>0, <2>1, EndedGrows
<1>3. ASSUME NEW c \in Conns
      PROVE  Cardinality(Notices(c, n)') + (IF Owed(c, n)' THEN 1 ELSE 0)
               <= Cardinality(Ended(n)')
  <2>1. /\ Cardinality(Notices(c, n)) + (IF Owed(c, n) THEN 1 ELSE 0)
             <= Cardinality(Ended(n))
        /\ IsFiniteSet(Notices(c, n)) /\ Cardinality(Notices(c, n)) \in Nat
        /\ Len(delivered[c]) + 1 \notin Notices(c, n)
    BY <1>0, NoticesFinite DEF Notified
  <2>2. CASE Notices(c, n)' = Notices(c, n)
    <3>1. Owed(c, n)' => Owed(c, n) \/ Ended(n)' # Ended(n)
      BY <1>0, OwedBefore
    <3> QED
      BY <1>1, <1>2, <2>1, <2>2, <3>1
  <2>3. CASE /\ Notices(c, n)' = Notices(c, n) \cup {Len(delivered[c]) + 1}
             /\ Owed(c, n) /\ ~Owed(c, n)'
    <3>1. Cardinality(Notices(c, n)') = Cardinality(Notices(c, n)) + 1
      BY <2>1, <2>3, FS_AddElement
    <3> QED
      BY <1>1, <1>2, <2>1, <2>3, <3>1
  <2> QED
    BY <2>2, <2>3, NoticeGiven
<1> QED
  BY <1>1, <1>2, <1>3

LEMMA NotifiedInit ==
  ASSUME Init
  PROVE  AllNamed /\ Notified
<1>1. \A c \in Conns : th[c].pc = "none" /\ th[c].username = "" /\ delivered[c] = <<>>
  BY DEF Init, NoThread
<1>2. \A n : Ended(n) = {}
  BY <1>1 DEF Ended
<1>3. \A c \in Conns, n \in Names : Notices(c, n) = {} /\ ~Owed(c, n)
  <2>1. DOMAIN <<>> = {}
    OBVIOUS
  <2>2. \A c \in Conns : DOMAIN delivered[c] = {}
    BY <1>1, <2>1, Zenon
  <2> QED
    BY <1>1, <2>2 DEF Notices, Owed
<1>4. IsFiniteSet({}) /\ Cardinality({}) = 0
  BY FS_EmptySet
<1>5. AllNamed
  BY <1>1 DEF AllNamed, Named
<1>6. ASSUME NEW n \in Names, NEW c \in Conns
      PROVE  Cardinality(Notices(c, n)) + (IF Owed(c, n) THEN 1 ELSE 0)
               <= Cardinality(Ended(n))
  <2>1. Cardinality(Notices(c, n)) = 0 /\ Cardinality(Ended(n)) = 0 /\ ~Owed(c, n)
    BY <1>2, <1>3, <1>4
  <2> QED
    BY <2>1
<1> QED
  BY <1>2, <1>4, <1>5, <1>6 DEF Notified

(***************************************************************************)
(* Nobody is told more often that a user of some name has gone than        *)
(* sessions of that name have ended: notify_disconnect sends one notice to *)
(* a slot, with the name its own user had, and the slots do not change     *)
(* hands until it is through.                                              *)
(***************************************************************************)
THEOREM DeparturesAreToldOnce == Spec => []NoticeOnce
<1>1. Init => AllNamed /\ Notified
  BY NotifiedInit
<1>2. TableOuts /\ TableOuts' /\ AllNamed /\ Notified /\ [Next]_vars
        => AllNamed' /\ Notified'
  BY NamedStep, NotifiedStep DEF TableOuts
<1>3. TableOuts /\ Notified => NoticeOnce
  <2> SUFFICES ASSUME TableOuts, Notified, NEW c \in Conns, NEW n \in Names
               PROVE  Cardinality(Notices(c, n)) <= Cardinality(Ended(n))
    BY DEF NoticeOnce, Notices, IsNotice, Ended
  <2>1. TypeOK
    BY DEF TableOuts, TableInv, BasicInv, Basics
  <2>2. Cardinality(Notices(c, n)) \in Nat /\ Cardinality(Ended(n)) \in Nat
    BY <2>1, NoticesFinite, FS_CardinalityType DEF Notified
  <2> QED
    BY <2>2 DEF Notified
<1> QED
  BY <1>1, <1>2, <1>3, TableOutsInvariant, PTL DEF Spec

-----------------------------------------------------------------------------
\* Whose slot it is after a step

Settled == TableOuts /\ HasStatus /\ Fresh

LEMMA SettledInvariant == Spec => []Settled
<1>1. Init => HasStatus /\ Fresh
  BY PresenceInit, FreshInit
<1>2. TableOuts /\ TableOuts' /\ HasStatus /\ Fresh /\ [Next]_vars => HasStatus' /\ Fresh'
  BY HasStatusStep, FreshStep DEF TableOuts
<1> QED
  BY <1>1, <1>2, TableOutsInvariant, PTL DEF Spec, Settled

\* A slot in use was its user's before, or is that of a newcomer, who has not
\* been sent anything yet.
LEMMA WhoseSlot ==
  ASSUME Settled, Settled', [Next]_vars, NEW i \in Active'
  PROVE  /\ Owner(i)' \in Conns
         /\ \/ i \in Active /\ Owner(i)' = Owner(i)
            \/ delivered'[Owner(i)'] = <<>>
<1>0. TableInv /\ TableInv' /\ Basics /\ HasStatus /\ Fresh /\ Entries /\ Entries'
  BY DEF Settled, TableOuts, TableInv, BasicInv
<1>1. Owner(i)' \in Conns
  BY <1>0 DEF Entries
<1>2. CASE SameEntries
  <2>1. i \in Active /\ lista'[i].sockfd = lista[i].sockfd
    BY <1>2 DEF SameEntries
  <2> QED
    BY <1>0, <1>1, <2>1, OwnerKept
<1>3. CASE HandleRegister /\ acc'.rc = 0
  <2>1. PICK n : /\ Active' = Active \cup {n} /\ \A j \in Active : lista'[j] = lista[j]
                 /\ lista'[n].sockfd = acc.fd /\ acc.pc = "register" /\ descr' = descr
    BY <1>0, <1>3, RegisterAdds
  <2>2. CASE i \in Active
    BY <1>0, <1>1, <2>1, <2>2, OwnerKept
  <2>3. CASE i \notin Active
    <3>1. Owner(i)' = Peer
      BY <2>1, <2>3 DEF Owner, Peer
    <3>2. Peer \in Conns /\ th[Peer].pc = "none"
      BY <1>0, <2>1, PeerApart
    <3>3. delivered[Peer] = <<>>
      BY <1>0, <2>1, <3>2 DEF Fresh, Pending
    <3>4. delivered' = delivered
      BY <1>3 DEF HandleRegister
    <3> QED
      BY <1>1, <3>1, <3>3, <3>4
  <2> QED
    BY <2>2, <2>3
<1>4. ASSUME NEW c \in Conns, Remove(c)
      PROVE  i \in Active /\ lista'[i].sockfd = lista[i].sockfd
  <2>1. ListTypeOK
    BY <1>0 DEF Basics, TypeOK, ListTypeOK
  <2>2. Active' \subseteq Active /\ \A j \in Active' : lista'[j] = lista[j]
    BY <1>0, <1>4, <2>1, RemoveEntries DEF Remove, Entries
  <2> QED
    BY <2>2
<1>5. TableEffect => SameEntries
  BY NoChange DEF TableEffect
<1> QED
  BY <1>0, <1>1, <1>2, <1>3, <1>4, <1>5, Effects, OwnerKept

-----------------------------------------------------------------------------
\* The order of the broadcasts

\* How many broadcasts c has been sent from the k-th packet on.
Rank(c, k) == Cardinality({l \in Heard(c) : l >= k})

LEMMA AgoIsRank ==
  ASSUME NEW i, NEW c, NEW k
  PROVE  /\ Owner(i) = c => Ago(i, k) = Rank(c, k) + IF Awaits(i) THEN 1 ELSE 0
         /\ Owner(i)' = c =>
              Ago(i, k)' = Rank(c, k)' + IF Awaits(i)' THEN 1 ELSE 0
BY DEF Ago, Rank, Heard

LEMMA RankTypes ==
  ASSUME TypeOK, NEW c \in Conns, NEW k \in Heard(c)
  PROVE  /\ IsFiniteSet({l \in Heard(c) : l >= k})
         /\ Rank(c, k) \in Nat /\ Rank(c, k) >= 1
         /\ k \in Nat /\ k <= Len(delivered[c])
<1>1. PICK s \in Seq(ChatPacket) : s = delivered[c]
  BY DEF TypeOK
<1>2. DOMAIN s = 1 .. Len(s) /\ Len(s) \in Nat
  BY <1>1
<1>3. PICK S : S = {l \in Heard(c) : l >= k}
  OBVIOUS
<1>4. S \in SUBSET (1 .. Len(s)) /\ k \in S /\ k \in 1 .. Len(s)
  BY <1>1, <1>2, <1>3 DEF Heard
<1>5. IsFiniteSet(1 .. Len(s))
  BY <1>2, FS_Interval
<1>6. IsFiniteSet(S)
  BY <1>4, <1>5, FS_Subset
<1>7. Cardinality(S) \in Nat /\ Cardinality(S) # 0
  BY <1>4, <1>6, FS_CardinalityType, FS_EmptySet
<1>8. Cardinality(S) >= 1
  BY <1>7
<1>9. k \in Nat /\ k <= Len(delivered[c])
  BY <1>1, <1>2, <1>4
<1> QED
  BY <1>3, <1>6, <1>7, <1>8, <1>9 DEF Rank

\* What somebody heard, before and after.
KeepsHeard(c) ==
  /\ Heard(c)' = Heard(c)
  /\ \A k \in Heard(c) : delivered'[c][k] = delivered[c][k]

LEMMA HeardKept ==
  ASSUME TypeOK, NEW c \in Conns,
         \/ UNCHANGED delivered
         \/ \E d \in Conns : \E p : Delivers(d, p) /\ (d # c \/ ~ForAll(p))
  PROVE  KeepsHeard(c)
<1>0. delivered \in [Conns -> Seq(ChatPacket)]
  BY DEF TypeOK
<1>1. CASE UNCHANGED delivered
  BY <1>1 DEF KeepsHeard, Heard
<1>2. ASSUME NEW d \in Conns, NEW p, Delivers(d, p), d # c
      PROVE  KeepsHeard(c)
  <2>1. delivered'[c] = delivered[c]
    BY <1>0, <1>2, Grows
  <2> QED
    BY <2>1 DEF KeepsHeard, Heard
<1>3. ASSUME NEW p, Delivers(c, p), ~ForAll(p)
      PROVE  KeepsHeard(c)
  <2>1. /\ DOMAIN delivered'[c] = DOMAIN delivered[c] \cup {Len(delivered[c]) + 1}
        /\ \A k \in DOMAIN delivered[c] : delivered'[c][k] = delivered[c][k]
        /\ delivered'[c][Len(delivered[c]) + 1] = p
    BY <1>0, <1>3, Grows
  <2>2. Len(delivered[c]) + 1 \notin DOMAIN delivered[c]
    <3>1. PICK s \in Seq(ChatPacket) : s = delivered[c]
      BY <1>0
    <3> QED
      BY <3>1
  <2> QED
    BY <1>3, <2>1, <2>2 DEF KeepsHeard, Heard, ForAll
<1> QED
  BY <1>1, <1>2, <1>3

LEMMA RankKept ==
  ASSUME NEW c, KeepsHeard(c), NEW k
  PROVE  Rank(c, k)' = Rank(c, k)
BY DEF KeepsHeard, Rank

\* One more broadcast: what was heard is one further back.
LEMMA HeardMore ==
  ASSUME TypeOK, NEW c \in Conns, NEW p, Delivers(c, p), ForAll(p),
         NEW new, new = Len(delivered[c]) + 1
  PROVE  /\ Heard(c)' = Heard(c) \cup {new}
         /\ delivered'[c][new] = p /\ Rank(c, new)' = 1
         /\ \A k \in Heard(c) : /\ delivered'[c][k] = delivered[c][k]
                                /\ Rank(c, k)' = Rank(c, k) + 1
<1>0. delivered \in [Conns -> Seq(ChatPacket)]
  BY DEF TypeOK
<1>1. new \in Nat /\ Len(delivered[c]) \in Nat /\ new \notin DOMAIN delivered[c]
  <2>1. PICK s \in Seq(ChatPacket) : s = delivered[c]
    BY <1>0
  <2>2. Len(s) \in Nat /\ Len(s) + 1 \in Nat /\ Len(s) + 1 \notin DOMAIN s
    OBVIOUS
  <2> QED
    BY <2>1, <2>2
<1>2. /\ DOMAIN delivered'[c] = DOMAIN delivered[c] \cup {new}
      /\ \A k \in DOMAIN delivered[c] : delivered'[c][k] = delivered[c][k]
      /\ delivered'[c][new] = p
  BY <1>0, <1>1, Grows
<1>3. Heard(c)' = Heard(c) \cup {new} /\ new \notin Heard(c)
  BY <1>1, <1>2 DEF Heard, ForAll
<1>4. \A l \in Heard(c) : l \in Nat /\ l < new
  <2> SUFFICES ASSUME NEW l \in Heard(c) PROVE l \in Nat /\ l < new
    OBVIOUS
  <2>1. l \in Nat /\ l <= Len(delivered[c])
    BY <1>0, RankTypes
  <2> QED
    BY <1>1, <2>1
<1>5. Rank(c, new)' = 1
  <2>1. {l \in Heard(c)' : l >= new} = {new}
    BY <1>3, <1>4
  <2> QED
    BY <2>1, FS_Singleton DEF Rank
<1>6. ASSUME NEW k \in Heard(c) PROVE Rank(c, k)' = Rank(c, k) + 1
  <2>1. PICK S : S = {l \in Heard(c) : l >= k} /\ IsFiniteSet(S)
    BY RankTypes
  <2>2. {l \in Heard(c)' : l >= k} = S \cup {new} /\ new \notin S
    BY <1>3, <1>4, <1>6, <2>1
  <2>3. Cardinality(S \cup {new}) = Cardinality(S) + 1
    BY <2>1, <2>2, FS_AddElement
  <2> QED
    BY <2>1, <2>2, <2>3 DEF Rank
<1>7. \A k \in Heard(c) : delivered'[c][k] = delivered[c][k]
  BY <1>2 DEF Heard
<1> QED
  BY <1>1, <1>2, <1>3, <1>5, <1>6, <1>7

(***************************************************************************)
(* What SameOrder needs to be inductive: whoever the loop of a broadcast   *)
(* has been to heard that broadcast, and no other since.                   *)
(***************************************************************************)
Current ==
  \A b \in Conns : th[b].pc = "sending" =>
    \A i \in Active : cli[Owner(i)] = "up" /\ i < th[b].i =>
      \E k \in Heard(Owner(i)) :
        Ago(i, k) = 1 /\ delivered[Owner(i)][k] = th[b].out

InOrder == SameOrder /\ Current

\* The slot stays its user's, who is still there.
Stays(i, c) == /\ i \in Active /\ i \in Active' /\ c \in Conns
               /\ Owner(i) = c /\ Owner(i)' = c /\ cli[c] = "up" /\ cli'[c] = "up"

\* Who has a slot after a step and has heard something has had it before.
LEMMA WhoHeard ==
  ASSUME Settled, Settled', [Next]_vars, NEW i \in Active', NEW c, Owner(i)' = c,
         cli'[c] = "up", NEW k \in Heard(c)'
  PROVE  Stays(i, c)
<1>0. TableInv
  BY DEF Settled, TableOuts
<1>1. c \in Conns /\ ((i \in Active /\ Owner(i) = c) \/ delivered'[c] = <<>>)
  BY WhoseSlot
<1>2. delivered'[c] # <<>>
  <2>1. DOMAIN delivered'[c] # {}
    BY DEF Heard
  <2>2. DOMAIN <<>> = {}
    OBVIOUS
  <2> QED
    BY <2>1, <2>2, Zenon
<1>3. i \in Active /\ Owner(i) = c
  BY <1>1, <1>2
<1>4. cli'[Owner(i)] = "up"
  BY <1>3
<1>5. cli[Owner(i)] = "up"
  BY <1>0, <1>3, <1>4, WasUp
<1> QED
  BY <1>1, <1>3, <1>5 DEF Stays

\* SameOrder follows when two who stay agree on what they have heard.
LEMMA OrderOfStaying ==
  ASSUME Settled, Settled', [Next]_vars,
         \A i, j, c, d : Stays(i, c) /\ Stays(j, d) =>
           \A k \in Heard(c)', l \in Heard(d)' :
             Ago(i, k)' = Ago(j, l)' => delivered'[c][k] = delivered'[d][l]
  PROVE  SameOrder'
<1> SUFFICES ASSUME NEW i \in Active', NEW j \in Active', NEW c, NEW d,
                    Owner(i)' = c, Owner(j)' = d, cli'[c] = "up", cli'[d] = "up",
                    NEW k \in Heard(c)', NEW l \in Heard(d)', Ago(i, k)' = Ago(j, l)'
             PROVE  delivered'[c][k] = delivered'[d][l]
  BY DEF SameOrder, Heard
<1>1. Stays(i, c) /\ Stays(j, d)
  BY WhoHeard
<1> QED
  BY <1>1

LEMMA AgreeBefore ==
  ASSUME SameOrder, NEW i, NEW j, NEW c, NEW d, Stays(i, c), Stays(j, d),
         NEW k \in Heard(c), NEW l \in Heard(d), Ago(i, k) = Ago(j, l)
  PROVE  delivered[c][k] = delivered[d][l]
BY DEF SameOrder, Stays

-----------------------------------------------------------------------------
\* A broadcast's loop begins, ends, and makes a round

LEMMA BroadcastBegins ==
  ASSUME Settled, Settled', InOrder, [Next]_vars, NEW b \in Conns,
         ClientThread(b), HandleBroadcast(b)
  PROVE  InOrder'
<1>0. /\ TableInv /\ TableInv' /\ TypeOK /\ Basics /\ th \in [Conns -> Threads]
      /\ Active \in SUBSET Nat
  BY ActiveSlots DEF Settled, TableOuts, TableInv, BasicInv, Basics, TypeOK
<1>1. /\ mutex_lista = Unlocked /\ UNCHANGED <<lista, num_clientes, delivered>>
      /\ \E o : th' = [th EXCEPT ![b].pc = "sending", ![b].i = 0, ![b].out = o]
  BY DEF HandleBroadcast, Lock
<1>2. \A d \in Conns : th[d].pc # "sending"
  BY <1>0, <1>1, OneLoop DEF Holding
<1>3. th'[b].pc = "sending" /\ th'[b].i = 0 /\ \A d \in Conns \ {b} : th'[d] = th[d]
  <2>1. PICK o : th' = [th EXCEPT ![b].pc = "sending", ![b].i = 0, ![b].out = o]
    BY <1>1
  <2>2. th'[b] = [th[b] EXCEPT !.pc = "sending", !.i = 0, !.out = o]
    BY <1>0, <2>1
  <2>3. \A d \in Conns \ {b} : th'[d] = th[d]
    BY <1>0, <2>1
  <2>4. th'[b].pc = "sending" /\ th'[b].i = 0
    BY <1>0, <2>2 DEF Threads
  <2> QED
    BY <2>3, <2>4
<1>4. Active' = Active
  BY <1>1, NoChange DEF SameEntries
<1>5. ASSUME NEW i \in Active PROVE ~Awaits(i) /\ Awaits(i)'
  BY <1>0, <1>2, <1>3 DEF Awaits
<1>6. ASSUME NEW i, NEW c, Stays(i, c), NEW k \in Heard(c)
      PROVE  /\ Heard(c)' = Heard(c) /\ Ago(i, k)' = Ago(i, k) + 1 /\ Ago(i, k) \in Nat
             /\ delivered'[c][k] = delivered[c][k]
  <2>1. KeepsHeard(c) /\ Rank(c, k)' = Rank(c, k) /\ Rank(c, k) \in Nat
    BY <1>0, <1>1, <1>6, HeardKept, RankKept, RankTypes DEF Stays
  <2>2. Ago(i, k) = Rank(c, k) /\ Ago(i, k)' = Rank(c, k)' + 1
    BY <1>5, <1>6, <2>1, AgoIsRank DEF Stays
  <2> QED
    BY <2>1, <2>2 DEF KeepsHeard
<1>7. SameOrder'
  <2>1. ASSUME NEW i, NEW j, NEW c, NEW d, Stays(i, c), Stays(j, d),
               NEW k \in Heard(c)', NEW l \in Heard(d)', Ago(i, k)' = Ago(j, l)'
        PROVE  delivered'[c][k] = delivered'[d][l]
    <3>1. KeepsHeard(c) /\ KeepsHeard(d)
      BY <1>0, <1>1, <2>1, HeardKept DEF Stays
    <3>2. k \in Heard(c) /\ l \in Heard(d)
      BY <2>1, <3>1 DEF KeepsHeard
    <3>3. Ago(i, k) = Ago(j, l)
      BY <1>6, <2>1, <3>2
    <3> QED
      BY <1>6, <2>1, <3>2, <3>3, AgreeBefore DEF InOrder
  <2> QED
    BY <2>1, OrderOfStaying
<1>8. Current'
  <2> SUFFICES ASSUME NEW d \in Conns, th'[d].pc = "sending",
                      NEW i \in Active', i < th'[d].i
               PROVE  FALSE
    BY DEF Current
  <2>1. d = b
    BY <1>2, <1>3
  <2> QED
    BY <1>0, <1>3, <1>4, <2>1
<1> QED
  BY <1>7, <1>8 DEF InOrder

\* Nobody hears anything, and who awaits a broadcast still does.
LEMMA OrderUntouched ==
  ASSUME Settled, Settled', InOrder, [Next]_vars,
         \A c \in Conns : KeepsHeard(c),
         \A i \in Active : Awaits(i)' <=> Awaits(i),
         \A b \in Conns : th'[b].pc = "sending" => th'[b] = th[b]
  PROVE  InOrder'
<1>0. TableInv /\ TableInv' /\ TypeOK /\ \A c \in Conns : KeepsHeard(c)
  BY DEF Settled, TableOuts, TableInv, BasicInv, Basics
<1>1. ASSUME NEW i, NEW c, Stays(i, c), NEW k PROVE Ago(i, k)' = Ago(i, k)
  BY <1>0, <1>1, RankKept, AgoIsRank DEF Stays
<1>2. SameOrder'
  <2>1. ASSUME NEW i, NEW j, NEW c, NEW d, Stays(i, c), Stays(j, d),
               NEW k \in Heard(c)', NEW l \in Heard(d)', Ago(i, k)' = Ago(j, l)'
        PROVE  delivered'[c][k] = delivered'[d][l]
    <3>1. c \in Conns /\ d \in Conns
      BY <2>1 DEF Stays
    <3>2. /\ k \in Heard(c) /\ delivered'[c][k] = delivered[c][k]
          /\ l \in Heard(d) /\ delivered'[d][l] = delivered[d][l]
      BY <1>0, <2>1, <3>1 DEF KeepsHeard
    <3>3. Ago(i, k) = Ago(j, l)
      BY <1>1, <2>1
    <3> QED
      BY <2>1, <3>2, <3>3, AgreeBefore DEF InOrder
  <2> QED
    BY <2>1, OrderOfStaying
<1>3. Current'
  <2> SUFFICES ASSUME NEW b \in Conns, th'[b].pc = "sending", NEW i \in Active',
                      NEW c, Owner(i)' = c, cli'[c] = "up", i < th'[b].i
               PROVE  \E k \in Heard(c)' : Ago(i, k)' = 1 /\ delivered'[c][k] = th'[b].out
    BY DEF Current, Heard
  <2>1. th'[b] = th[b] /\ th[b].pc = "sending"
    OBVIOUS
  <2>2. mutex_lista # Unlocked
    BY <1>0, <2>1, OneLoop DEF Holding
  <2>3. i \in Active /\ Owner(i) = c /\ c \in Conns
    BY <1>0, <2>2, HeldSlots
  <2>4. cli'[Owner(i)] = "up"
    BY <2>3
  <2>5. cli[Owner(i)] = "up"
    BY <1>0, <2>3, <2>4, WasUp
  <2>6. Stays(i, c)
    BY <2>3, <2>5 DEF Stays
  <2>7. PICK k \in Heard(c) : Ago(i, k) = 1 /\ delivered[c][k] = th[b].out
    BY <2>1, <2>3, <2>5 DEF InOrder, Current
  <2>8. k \in Heard(c)' /\ delivered'[c][k] = delivered[c][k]
    BY <1>0, <2>3, <2>7 DEF KeepsHeard
  <2> QED
    BY <1>1, <2>1, <2>6, <2>7, <2>8
<1> QED
  BY <1>2, <1>3 DEF InOrder

LEMMA BroadcastEnds ==
  ASSUME Settled, Settled', InOrder, [Next]_vars, NEW b \in Conns,
         ClientThread(b), BroadcastDone(b)
  PROVE  InOrder'
<1>0. /\ TableInv /\ TypeOK /\ Basics /\ th \in [Conns -> Threads] /\ th[b] \in Threads
      /\ Active \in SUBSET Nat
  BY ActiveSlots DEF Settled, TableOuts, TableInv, BasicInv, Basics, TypeOK
<1>1. th[b].pc = "sending" /\ NoneLeft(th[b].i) /\ Next_packet(b) /\ UNCHANGED delivered
  BY DEF BroadcastDone
<1>2. \A d \in Conns : th[d].pc = "sending" => d = b
  BY <1>0, <1>1, OneLoop DEF Holding
<1>3. th'[b].pc = "recv" /\ \A d \in Conns \ {b} : th'[d] = th[d]
  BY <1>0, <1>1 DEF Next_packet, Threads
<1>4. \A d \in Conns : th'[d].pc # "sending"
  BY <1>2, <1>3
<1>5. \A i \in Active : ~(i >= th[b].i)
  BY <1>1 DEF NoneLeft
<1>6. ASSUME NEW i \in Active PROVE ~Awaits(i) /\ ~Awaits(i)'
  <2>1. i \in Nat /\ th[b].i \in Nat
    BY <1>0, LoopIndex
  <2>2. ~(th[b].i <= i)
    BY <1>5, <2>1
  <2> QED
    BY <1>2, <1>4, <2>2 DEF Awaits
<1>7. \A c \in Conns : KeepsHeard(c)
  BY <1>0, <1>1, HeardKept
<1> QED
  BY <1>4, <1>6, <1>7, OrderUntouched

\* The one who is sent the broadcast has heard it last; those before him have.
LEMMA BroadcastGoesOn ==
  ASSUME Settled, Settled', InOrder, [Next]_vars, NEW b \in Conns,
         ClientThread(b), SendNext(b), th[b].pc = "sending"
  PROVE  InOrder'
<1>0. /\ TableInv /\ TableInv' /\ TypeOK /\ Basics /\ th[b] \in Threads
      /\ Active \in SUBSET Nat /\ th[b].i \in Nat /\ Outs
  <2>1. TableInv /\ TableInv' /\ TypeOK /\ Basics /\ Outs
    BY DEF Settled, TableOuts, TableInv, BasicInv, Basics
  <2>2. th[b] \in Threads
    BY <2>1 DEF TypeOK
  <2> QED
    BY <2>1, <2>2, ActiveSlots, LoopIndex DEF TypeOK
<1>1. PICK j \in Active :
        /\ th'[b].i = j + 1 /\ j >= th[b].i
        /\ \A i \in Active : i >= th[b].i => i >= j
        /\ UNCHANGED delivered \/ Delivers(Owner(j), th[b].out)
        /\ cli[Owner(j)] = "up" => Delivers(Owner(j), th[b].out)
  BY <1>0, Round
<1>2. /\ Active' = Active /\ cli' = cli /\ \A d \in Conns \ {b} : th'[d] = th[d]
      /\ \A i \in Active : Owner(i)' = Owner(i) /\ Owner(i) \in Conns
      /\ th'[b].pc = "sending" /\ th'[b].out = th[b].out
  BY <1>0, Round
<1>3. \A d \in Conns : th[d].pc = "sending" => d = b
  BY <1>0, OneLoop DEF Holding
<1>4. PICK o, p : o \in Conns /\ o = Owner(j) /\ p = th[b].out
  BY <1>2
<1>5. ForAll(p)
  BY <1>0, <1>4 DEF Outs, OutOf, ForAll
<1>6. ASSUME NEW i \in Active
      PROVE  /\ Awaits(i) <=> th[b].i <= i
             /\ Awaits(i)' <=> th[b].i <= i /\ i # j
  <2>1. Awaits(i) <=> th[b].i <= i
    BY <1>3 DEF Awaits
  <2>2. Awaits(i)' <=> th'[b].i <= i
    BY <1>2, <1>3 DEF Awaits
  <2>3. i \in Nat /\ j \in Nat
    BY <1>0
  <2> QED
    BY <1>0, <1>1, <2>1, <2>2, <2>3
\* Everybody but the receiver: nothing has changed.
<1>7. ASSUME NEW i, NEW c, Stays(i, c), i # j
      PROVE  KeepsHeard(c) /\ \A k : Ago(i, k)' = Ago(i, k)
  <2>1. c # o
    BY <1>0, <1>4, <1>7, OneSlot DEF Stays
  <2>2. KeepsHeard(c)
    BY <1>0, <1>1, <1>4, <1>7, <2>1, HeardKept DEF Stays
  <2>3. Awaits(i)' <=> Awaits(i)
    BY <1>6, <1>7 DEF Stays
  <2> QED
    BY <1>7, <2>2, <2>3, RankKept, AgoIsRank DEF Stays
\* The receiver: one more, and no longer waiting.
<1>8. ASSUME NEW c, Stays(j, c), NEW new, new = Len(delivered[c]) + 1
      PROVE  /\ Heard(c)' = Heard(c) \cup {new}
             /\ delivered'[c][new] = p /\ Ago(j, new)' = 1
             /\ \A k \in Heard(c) : /\ delivered'[c][k] = delivered[c][k]
                                    /\ Ago(j, k)' = Ago(j, k) /\ Ago(j, k) # 1
  <2>1. Delivers(c, p) /\ c \in Conns /\ Owner(j) = c /\ Owner(j)' = c
    BY <1>1, <1>4, <1>8 DEF Stays
  <2>2. /\ Heard(c)' = Heard(c) \cup {new}
        /\ delivered'[c][new] = p /\ Rank(c, new)' = 1
        /\ \A k \in Heard(c) : /\ delivered'[c][k] = delivered[c][k]
                               /\ Rank(c, k)' = Rank(c, k) + 1
    BY <1>0, <1>5, <1>8, <2>1, HeardMore
  <2>3. Awaits(j) /\ ~Awaits(j)'
    BY <1>1, <1>6, <1>0
  <2>4. Ago(j, new)' = Rank(c, new)' + 0
    BY <2>1, <2>3, AgoIsRank
  <2>5. ASSUME NEW k \in Heard(c)
        PROVE  Ago(j, k)' = Ago(j, k) /\ Ago(j, k) # 1
    <3>1. Rank(c, k) \in Nat /\ Rank(c, k) >= 1
      BY <1>0, <2>1, RankTypes
    <3>2. Ago(j, k) = Rank(c, k) + 1 /\ Ago(j, k)' = Rank(c, k)' + 0
      BY <2>1, <2>3, AgoIsRank
    <3> QED
      BY <2>2, <3>1, <3>2
  <2> QED
    BY <2>2, <2>4, <2>5
\* Who heard something just now heard this broadcast.
<1>9. ASSUME NEW i, NEW c, Stays(i, c), i # j, NEW k \in Heard(c), Ago(i, k) = 1
      PROVE  delivered[c][k] = p
  <2>1. Rank(c, k) \in Nat /\ Rank(c, k) >= 1 /\ i \in Active /\ i \in Nat
    BY <1>0, <1>9, RankTypes DEF Stays
  <2>2. ~Awaits(i)
    BY <1>9, <2>1, AgoIsRank DEF Stays
  <2>3. i < th[b].i
    BY <1>0, <1>6, <2>1, <2>2
  <2>4. PICK l \in Heard(c) : Ago(i, l) = 1 /\ delivered[c][l] = p
    BY <1>4, <1>9, <2>1, <2>3 DEF Stays, InOrder, Current
  <2> QED
    BY <1>9, <2>4, AgreeBefore DEF InOrder
<1>10. SameOrder'
  <2>1. ASSUME NEW i, NEW c, Stays(i, c), NEW d, Stays(j, d), i # j,
               NEW k \in Heard(c)', NEW l \in Heard(d)', Ago(i, k)' = Ago(j, l)'
        PROVE  delivered'[c][k] = delivered'[d][l]
    <3>1. /\ k \in Heard(c) /\ delivered'[c][k] = delivered[c][k]
          /\ Ago(i, k)' = Ago(i, k)
      BY <1>7, <2>1 DEF KeepsHeard
    <3>2. PICK new : new = Len(delivered[d]) + 1
      OBVIOUS
    <3>3. CASE l \in Heard(d)
      <4>1. delivered'[d][l] = delivered[d][l] /\ Ago(j, l)' = Ago(j, l)
        BY <1>8, <2>1, <3>2, <3>3
      <4>2. Ago(i, k) = Ago(j, l)
        BY <2>1, <3>1, <4>1
      <4> QED
        BY <2>1, <3>1, <3>3, <4>1, <4>2, AgreeBefore DEF InOrder
    <3>4. CASE l = new
      <4>1. delivered'[d][l] = p /\ Ago(j, l)' = 1
        BY <1>8, <2>1, <3>2, <3>4
      <4>2. Ago(i, k) = 1
        BY <2>1, <3>1, <4>1
      <4> QED
        BY <1>9, <2>1, <3>1, <4>1, <4>2
    <3>5. l \in Heard(d) \/ l = new
      BY <1>8, <2>1, <3>2
    <3> QED
      BY <3>3, <3>4, <3>5
  <2>2. ASSUME NEW c, Stays(j, c), NEW k \in Heard(c)', NEW l \in Heard(c)',
               Ago(j, k)' = Ago(j, l)'
        PROVE  delivered'[c][k] = delivered'[c][l]
    <3>1. PICK new : new = Len(delivered[c]) + 1
      OBVIOUS
    <3>2. (k \in Heard(c) \/ k = new) /\ (l \in Heard(c) \/ l = new)
      BY <1>8, <2>2, <3>1
    <3>3. CASE k \in Heard(c) /\ l \in Heard(c)
      <4>1. /\ delivered'[c][k] = delivered[c][k] /\ Ago(j, k)' = Ago(j, k)
            /\ delivered'[c][l] = delivered[c][l] /\ Ago(j, l)' = Ago(j, l)
        BY <1>8, <2>2, <3>1, <3>3
      <4>2. Ago(j, k) = Ago(j, l)
        BY <2>2, <4>1
      <4> QED
        BY <2>2, <3>3, <4>1, <4>2, AgreeBefore DEF InOrder
    <3>4. ASSUME NEW m \in Heard(c) PROVE Ago(j, m)' # Ago(j, new)'
      <4>1. Ago(j, m)' = Ago(j, m) /\ Ago(j, m) # 1 /\ Ago(j, new)' = 1
        BY <1>8, <2>2, <3>1, <3>4
      <4> QED
        BY <4>1
    <3>5. CASE k = new /\ l \in Heard(c)
      BY <2>2, <3>4, <3>5
    <3>6. CASE k \in Heard(c) /\ l = new
      BY <2>2, <3>4, <3>6
    <3> QED
      BY <3>2, <3>3, <3>5, <3>6
  <2>3. ASSUME NEW i, NEW h, NEW c, NEW d, Stays(i, c), Stays(h, d), i # j, h # j,
               NEW k \in Heard(c)', NEW l \in Heard(d)', Ago(i, k)' = Ago(h, l)'
        PROVE  delivered'[c][k] = delivered'[d][l]
    <3>1. /\ k \in Heard(c) /\ delivered'[c][k] = delivered[c][k] /\ Ago(i, k)' = Ago(i, k)
          /\ l \in Heard(d) /\ delivered'[d][l] = delivered[d][l] /\ Ago(h, l)' = Ago(h, l)
      BY <1>7, <2>3 DEF KeepsHeard
    <3>2. Ago(i, k) = Ago(h, l)
      BY <2>3, <3>1
    <3> QED
      BY <2>3, <3>1, <3>2, AgreeBefore DEF InOrder
  <2>4. ASSUME NEW i, NEW h, NEW c, NEW d, Stays(i, c), Stays(h, d),
               NEW k \in Heard(c)', NEW l \in Heard(d)', Ago(i, k)' = Ago(h, l)'
        PROVE  delivered'[c][k] = delivered'[d][l]
    <3>1. CASE i = j /\ h = j
      <4>1. c = d
        BY <2>4, <3>1 DEF Stays
      <4> QED
        BY <2>2, <2>4, <3>1, <4>1
    <3>2. CASE i = j /\ h # j
      BY <2>1, <2>4, <3>2
    <3>3. CASE i # j /\ h = j
      BY <2>1, <2>4, <3>3
    <3>4. CASE i # j /\ h # j
      BY <2>3, <2>4, <3>4
    <3> QED
      BY <3>1, <3>2, <3>3, <3>4
  <2> QED
    BY <2>4, OrderOfStaying
<1>11. Current'
  <2> SUFFICES ASSUME NEW d \in Conns, th'[d].pc = "sending", NEW i \in Active',
                      NEW c, Owner(i)' = c, cli'[c] = "up", i < th'[d].i
               PROVE  \E k \in Heard(c)' : Ago(i, k)' = 1 /\ delivered'[c][k] = th'[d].out
    BY DEF Current, Heard
  <2>1. d = b /\ th'[d].out = p
    BY <1>2, <1>3, <1>4
  <2>2. Stays(i, c)
    BY <1>2 DEF Stays
  <2>3. CASE i = j
    <3>1. PICK new : new = Len(delivered[c]) + 1
      OBVIOUS
    <3> QED
      BY <1>8, <2>1, <2>2, <2>3, <3>1
  <2>4. CASE i # j
    <3>1. i < th[b].i
      <4>1. i \in Nat /\ j \in Nat /\ i < j + 1
        BY <1>0, <1>1, <1>2, <2>1
      <4> QED
        BY <1>0, <1>1, <1>2, <2>4, <4>1
    <3>2. PICK k \in Heard(c) : Ago(i, k) = 1 /\ delivered[c][k] = p
      BY <1>4, <2>2, <3>1 DEF Stays, InOrder, Current
    <3> QED
      BY <1>7, <2>1, <2>2, <2>4, <3>2 DEF KeepsHeard
  <2> QED
    BY <2>3, <2>4
<1> QED
  BY <1>10, <1>11 DEF InOrder

LEMMA OrderStep ==
  ASSUME Settled, Settled', InOrder, [Next]_vars
  PROVE  InOrder'
<1>0. TableOuts /\ TableInv /\ TypeOK /\ Outs /\ Basics
  BY DEF Settled, TableOuts, TableInv, BasicInv, Basics
<1>1. CASE \E b \in Conns : ClientThread(b) /\ HandleBroadcast(b)
  BY <1>1, BroadcastBegins
<1>2. CASE \E b \in Conns : ClientThread(b) /\ BroadcastDone(b)
  BY <1>2, BroadcastEnds
<1>3. CASE \E b \in Conns : ClientThread(b) /\ SendNext(b) /\ th[b].pc = "sending"
  BY <1>3, BroadcastGoesOn
<1>4. ASSUME \A b \in Conns : ClientThread(b) =>
               /\ ~HandleBroadcast(b) /\ ~BroadcastDone(b)
               /\ SendNext(b) => th[b].pc = "telling"
      PROVE  InOrder'
  <2>1. ASSUME NEW c \in Conns PROVE KeepsHeard(c)
    <3>1. ASSUME NEW d \in Conns, NEW p, Delivers(d, p), Plain(p) PROVE KeepsHeard(c)
      BY <1>0, <3>1, HeardKept DEF Plain
    <3>2. ASSUME NEW b \in Conns, ClientThread(b), SendNext(b) PROVE KeepsHeard(c)
      <4>1. th[b].pc = "telling"
        BY <1>4, <3>2
      <4>2. ~ForAll(th[b].out)
        BY <1>0, <4>1 DEF Outs, OutOf, ForAll
      <4>3. PICK j : /\ send_packet(lista[j].sockfd, th[b].out) /\ j \in Active
        BY <1>0, <3>2, SendNextSlot
      <4>4. PICK d \in Conns : UNCHANGED delivered \/ Delivers(d, th[b].out)
        BY <1>0, <4>3, SendToSlot
      <4> QED
        BY <1>0, <4>2, <4>4, HeardKept
    <3>3. CASE UNCHANGED delivered
      BY <1>0, <3>3, HeardKept
    <3> QED
      BY <1>0, <3>1, <3>2, <3>3, Spoken
  <2>2. ASSUME NEW b \in Conns
        PROVE  th[b].pc = "sending" \/ th'[b].pc = "sending" => th'[b] = th[b]
    <3>1. ASSUME ClientThread(b), th'[b].pc = "sending" PROVE FALSE
      BY <1>0, <1>4, <3>1, ThreadSpeaks DEF Outgoing
    <3>2. ASSUME ClientThread(b), th[b].pc = "sending" PROVE FALSE
      BY <1>4, <3>2 DEF ClientThread, Recv, RecvFails, Touch, Notice,
        HandleDirect, DirectSend, HandleStatus, HandleList, HandleInfo,
        HandleLogout, Reply, ResolveName, Remove, Close, NotifyDisconnect, NotifyDone
    <3> QED
      BY <1>0, <3>1, <3>2, ThreadsApart
  <2>3. \A i \in Active : Awaits(i)' <=> Awaits(i)
    BY <2>2 DEF Awaits
  <2> QED
    BY <2>1, <2>2, <2>3, OrderUntouched
<1>5. \A b \in Conns : ClientThread(b) /\ SendNext(b) => th[b].pc \in {"sending", "telling"}
  BY DEF SendNext
<1> QED
  BY <1>1, <1>2, <1>3, <1>4, <1>5

(***************************************************************************)
(* All users hear the same broadcasts in the same order, back to when the  *)
(* later one registered: handle_broadcast holds the mutex for its whole    *)
(* loop, so the loops do not overlap and nobody joins in the middle of one.*)
(***************************************************************************)
THEOREM BroadcastsInOneOrder == Spec => []SameOrder
<1>1. Init => InOrder
  <2> SUFFICES ASSUME Init PROVE InOrder
    OBVIOUS
  <2>1. Active = {}
    <3>1. num_clientes = 0
      BY DEF Init, cl_init
    <3>2. Used = {}
      BY <3>1 DEF Used
    <3> QED
      BY <3>2 DEF Active
  <2> QED
    BY <2>1 DEF InOrder, SameOrder, Current
<1>2. Settled /\ Settled' /\ InOrder /\ [Next]_vars => InOrder'
  BY OrderStep
<1>3. InOrder => SameOrder
  BY DEF InOrder
<1> QED
  BY <1>1, <1>2, <1>3, SettledInvariant, PTL DEF Spec

-----------------------------------------------------------------------------
\* The news of a user's own status

\* The last of some positions.
LEMMA MaxExists ==
  ASSUME NEW n \in Nat, NEW S \in SUBSET (1 .. n), S # {}
  PROVE  Max(S) \in S /\ \A y \in S : Max(S) >= y
<1>1. PICK T : T = {n - x : x \in S}
  OBVIOUS
<1>2. T \in SUBSET Nat /\ T # {}
  <2>1. \A x \in 1 .. n : n - x \in Nat
    OBVIOUS
  <2> QED
    BY <1>1, <2>1
<1>3. Min(T) \in T /\ \A y \in T : Min(T) <= y
  BY <1>2, MinExists
<1>4. PICK x \in S : Min(T) = n - x
  BY <1>1, <1>3
<1>5. ASSUME NEW y \in S PROVE x >= y
  <2>1. n - y \in T
    BY <1>1
  <2>2. n - x <= n - y
    BY <1>3, <1>4, <2>1
  <2>3. x \in Int /\ y \in Int
    OBVIOUS
  <2> QED
    BY <2>2, <2>3
<1> QED
  BY <1>5 DEF Max

LEMMA LastNewsGiven ==
  ASSUME TypeOK, NEW c \in Conns, NEW p, Delivers(c, p)
  PROVE  LastNews(delivered'[c]) = IF News(p) = "" THEN LastNews(delivered[c]) ELSE News(p)
<1>1. PICK s \in Seq(ChatPacket) : s = delivered[c]
  BY DEF TypeOK
<1>2. PICK n \in Nat : n = Len(s) + 1 /\ DOMAIN s = 1 .. Len(s) /\ Len(s) \in Nat
  BY <1>1
<1>3. PICK t : /\ t = delivered'[c] /\ DOMAIN t = DOMAIN s \cup {n}
               /\ (\A k \in DOMAIN s : t[k] = s[k]) /\ t[n] = p
  <2>1. /\ DOMAIN delivered'[c] = DOMAIN s \cup {n}
        /\ \A k \in DOMAIN s : delivered'[c][k] = s[k]
        /\ delivered'[c][n] = p
    BY <1>1, <1>2, Grows DEF TypeOK
  <2> QED
    BY <2>1
<1>4. PICK A, B : /\ A = {k \in DOMAIN s : News(s[k]) # ""}
                  /\ B = {k \in DOMAIN t : News(t[k]) # ""}
  OBVIOUS
<1>5. /\ LastNews(s) = IF A = {} THEN "" ELSE News(s[Max(A)])
      /\ LastNews(t) = IF B = {} THEN "" ELSE News(t[Max(B)])
  BY <1>4 DEF LastNews
<1>6. n \notin DOMAIN s /\ A \in SUBSET (1 .. n) /\ B \in SUBSET (1 .. n)
  <2>1. n \notin 1 .. Len(s) /\ 1 .. Len(s) \subseteq 1 .. n /\ n \in 1 .. n
    BY <1>2
  <2> QED
    BY <1>2, <1>3, <1>4, <2>1
<1>7. CASE News(p) = ""
  <2>1. B = A
    BY <1>3, <1>4, <1>6, <1>7
  <2>2. A # {} => t[Max(A)] = s[Max(A)]
    BY <1>3, <1>4, <1>6, MaxExists
  <2> QED
    BY <1>1, <1>3, <1>5, <1>7, <2>1, <2>2
<1>8. CASE News(p) # ""
  <2>1. n \in B
    BY <1>3, <1>4, <1>8
  <2>2. Max(B) \in B /\ Max(B) >= n /\ Max(B) \in 1 .. n
    BY <1>6, <2>1, MaxExists
  <2>3. Max(B) = n
    BY <2>2
  <2> QED
    BY <1>3, <1>5, <1>8, <2>1, <2>3
<1> QED
  BY <1>7, <1>8

\* What a client is told does not concern its status.
NoNews(c) ==
  \/ UNCHANGED delivered
  \/ \E d \in Conns : \E p : Delivers(d, p) /\ (d # c \/ News(p) = "")

LEMMA LastNewsKept ==
  ASSUME TypeOK, NEW c \in Conns, NoNews(c)
  PROVE  LastNews(delivered'[c]) = LastNews(delivered[c])
<1>1. ASSUME NEW d \in Conns, NEW p, Delivers(d, p), d # c
      PROVE  delivered'[c] = delivered[c]
  BY <1>1, Grows DEF TypeOK
<1>2. ASSUME NEW p, Delivers(c, p), News(p) = ""
      PROVE  LastNews(delivered'[c]) = LastNews(delivered[c])
  BY <1>2, LastNewsGiven
<1> QED
  BY <1>1, <1>2 DEF NoNews

(***************************************************************************)
(* The news on its way to the user c of slot i, and which of it says that  *)
(* he was active just now.                                                 *)
(***************************************************************************)
Greeted(c) == acc.pc = "answer" /\ Peer = c
Answering(c) == th[c].pc = "reply" /\ News(th[c].out) # ""
Marked(i) == mon.pc = "tell" /\ mon.i = i

Coming(i, c) ==
  IF Greeted(c) \/ th[c].pc = "notice" THEN "ACTIVE"
  ELSE IF Answering(c) THEN News(th[c].out)
  ELSE IF Marked(i) THEN "INACTIVE" ELSE ""

Lately(c) == Greeted(c) \/ th[c].pc \in {"notice", "status"} \/ Answering(c)

\* The slot has the status its user is about to be told, or was told last.
Held(i, c) ==
  /\ Lately(c) => lista[i].ultimo_mensaje = clock
  /\ Coming(i, c) # "" => lista[i].status = Coming(i, c)
  /\ Coming(i, c) = "" /\ cli[c] = "up" => LastNews(delivered[c]) = lista[i].status

(***************************************************************************)
(* What StatusToldIsStatusHeld needs to be inductive: who was active just  *)
(* now is not the monitor's prey, so no two pieces of news are on their    *)
(* way to one user.                                                        *)
(***************************************************************************)
StatusHeld ==
  /\ mon.now <= clock /\ (mon.pc = "tell" => lista[mon.i].ultimo_mensaje < clock)
  /\ \A i \in Active, c \in Conns : Owner(i) = c => Held(i, c)

Silent(c) == th[c].pc \notin {"notice", "status"} /\ ~Answering(c)

LEMMA SameVoice ==
  ASSUME NEW i, NEW c, Greeted(c)' <=> Greeted(c), Marked(i)' <=> Marked(i),
         th'[c] = th[c] \/ (Silent(c) /\ Silent(c)')
  PROVE  Coming(i, c)' = Coming(i, c) /\ (Lately(c)' <=> Lately(c))
BY DEF Coming, Lately, Silent, Answering

LEMMA HeldOn ==
  ASSUME NEW i, NEW c, Held(i, c), clock' = clock,
         lista'[i].status = lista[i].status,
         lista'[i].ultimo_mensaje = lista[i].ultimo_mensaje,
         cli'[c] = "up" => cli[c] = "up",
         LastNews(delivered'[c]) = LastNews(delivered[c]),
         Coming(i, c)' = Coming(i, c), Lately(c)' <=> Lately(c)
  PROVE  Held(i, c)'
BY DEF Held

\* Who was active just now is not being marked.
LEMMA LatelyNotMarked ==
  ASSUME TypeOK, StatusHeld, NEW i \in Active, NEW c \in Conns, Owner(i) = c, Lately(c)
  PROVE  ~Marked(i)
<1>1. lista[i].ultimo_mensaje = clock /\ clock \in Nat
  BY DEF StatusHeld, Held, TypeOK
<1> QED
  BY <1>1 DEF StatusHeld, Marked

-----------------------------------------------------------------------------
\* What a client's thread has to say of the status

LEMMA ThreadVoice ==
  ASSUME Basics, NEW c \in Conns, ClientThread(c), ~Touch(c), ~Notice(c),
         ~HandleStatus(c), ~Reply(c)
  PROVE  Silent(c) /\ Silent(c)'
<1>0. th \in [Conns -> Threads] /\ th[c] \in Threads
  BY DEF Basics, TypeOK
<1>1. th[c].pc \notin {"notice", "status", "reply"}
  BY DEF ClientThread, Recv, RecvFails, HandleBroadcast, SendNext, BroadcastDone,
    HandleDirect, DirectSend, HandleList, HandleInfo, HandleLogout, ResolveName,
    Remove, Close, NotifyDisconnect, NotifyDone
<1>2. th'[c].pc \notin {"notice", "status"}
  <2>1. ASSUME Recv(c) PROVE th'[c].pc \notin {"notice", "status"}
    <3>1. PICK pkt : th' = [th EXCEPT ![c].pkt = pkt, ![c].pc =
                              IF pkt.command \in Activity THEN "touch"
                              ELSE HandlerOf(pkt.command)]
      BY <2>1 DEF Recv
    <3>2. th'[c].pc = IF pkt.command \in Activity THEN "touch" ELSE HandlerOf(pkt.command)
      BY <1>0, <3>1 DEF Threads
    <3> QED
      BY <3>2 DEF Activity, HandlerOf
  <2> QED
    BY <2>1, ThreadSteps DEF Serving
<1>3. ASSUME th'[c].pc = "reply" PROVE News(th'[c].out) = ""
  <2>1. ASSUME NEW o, Answer(c, o), News(o) = "" PROVE News(th'[c].out) = ""
    <3>1. th'[c] = [th[c] EXCEPT !.pc = "reply", !.out = o]
      BY <1>0, <2>1 DEF Answer
    <3>2. th'[c].out = o
      BY <1>0, <3>1 DEF Threads
    <3> QED
      BY <2>1, <3>2
  <2>2. /\ \A n : News(Error(n, "not connected")) = ""
        /\ \A n : News(Packet("USER_LIST", "SERVER", Clip[n], "roster")) = ""
        /\ \A n : News(Packet("USER_INFO", "SERVER", Clip[n], "info")) = ""
        /\ \A n : News(Ok(n, "bye")) = ""
    BY DEF News, Error, Ok, Packet, Statuses
  <2>3. CASE HandleDirect(c)
    <3>1. CASE Answer(c, Error(th[c].pkt.sender, "not connected"))
      BY <2>1, <2>2, <3>1
    <3>2. CASE ~Answer(c, Error(th[c].pkt.sender, "not connected"))
      <4>1. PICK i, o : th' = [th EXCEPT ![c].pc = "passing", ![c].i = i, ![c].out = o]
        BY <2>3, <3>2 DEF HandleDirect
      <4>2. th'[c] = [th[c] EXCEPT !.pc = "passing", !.i = i, !.out = o]
        BY <1>0, <4>1
      <4>3. th'[c].pc = "passing"
        BY <1>0, <4>2 DEF Threads
      <4> QED
        BY <1>3, <4>3
    <3> QED
      BY <3>1, <3>2
  <2>4. CASE HandleList(c)
    BY <2>1, <2>2, <2>4 DEF HandleList
  <2>5. CASE HandleInfo(c)
    <3>1. PICK o : /\ Answer(c, o)
                   /\ \/ o = Packet("USER_INFO", "SERVER", Clip[th[c].pkt.sender], "info")
                      \/ o = Error(th[c].pkt.sender, "not connected")
      BY <2>5 DEF HandleInfo
    <3> QED
      BY <2>1, <2>2, <3>1
  <2>6. CASE HandleLogout(c)
    <3>1. PICK u, o : /\ o = Ok(th[c].pkt.sender, "bye")
                      /\ th' = [th EXCEPT ![c].pc = "reply", ![c].username = u, ![c].out = o]
      BY <2>6 DEF HandleLogout
    <3>2. th'[c] = [th[c] EXCEPT !.pc = "reply", !.username = u, !.out = o]
      BY <1>0, <3>1
    <3>3. th'[c].out = o
      BY <1>0, <3>2 DEF Threads
    <3> QED
      BY <2>2, <3>1, <3>3
  <2>7. CASE ~(HandleDirect(c) \/ HandleList(c) \/ HandleInfo(c) \/ HandleLogout(c))
    <3>0. SUFFICES th'[c].pc # "reply"
      BY <1>3
    <3>1. ASSUME NEW p, Goto(c, p) PROVE th'[c].pc = p
      BY <1>0, <3>1 DEF Goto, Threads
    <3>2. CASE Recv(c)
      <4>1. PICK pkt : th' = [th EXCEPT ![c].pkt = pkt, ![c].pc =
                                IF pkt.command \in Activity THEN "touch"
                                ELSE HandlerOf(pkt.command)]
        BY <3>2 DEF Recv
      <4>2. th'[c].pc = IF pkt.command \in Activity THEN "touch" ELSE HandlerOf(pkt.command)
        BY <1>0, <4>1 DEF Threads
      <4> QED
        BY <4>2 DEF HandlerOf
    <3>3. CASE SendNext(c)
      <4>1. PICK i : th' = [th EXCEPT ![c].i = i]
        BY <3>3 DEF SendNext
      <4>2. th'[c].pc = th[c].pc
        BY <1>0, <4>1 DEF Threads
      <4> QED
        BY <1>1, <4>2
    <3>4. CASE RecvFails(c) \/ Remove(c) \/ Close(c)
      <4>1. PICK p \in {"resolve", "close", "announce", "done"} : Goto(c, p)
        BY <3>4 DEF RecvFails, Remove, Close
      <4> QED
        BY <3>1, <4>1
    <3>5. CASE HandleBroadcast(c) \/ NotifyDisconnect(c)
      <4>1. PICK p \in {"sending", "telling"} : \E o :
              th' = [th EXCEPT ![c].pc = p, ![c].i = 0, ![c].out = o]
        BY <3>5 DEF HandleBroadcast, NotifyDisconnect
      <4>2. PICK o : th'[c] = [th[c] EXCEPT !.pc = p, !.i = 0, !.out = o]
        BY <1>0, <4>1
      <4>3. th'[c].pc = p
        BY <1>0, <4>2 DEF Threads
      <4> QED
        BY <4>3
    <3>6. CASE BroadcastDone(c) \/ DirectSend(c)
      <4>1. Next_packet(c)
        BY <3>6 DEF BroadcastDone, DirectSend
      <4>2. th'[c].pc = "recv"
        BY <1>0, <4>1 DEF Next_packet, Threads
      <4> QED
        BY <4>2
    <3>7. CASE ResolveName(c)
      <4>1. PICK u : \/ Goto(c, "remove")
                     \/ th' = [th EXCEPT ![c].pc = "remove", ![c].username = u]
        BY <3>7 DEF ResolveName
      <4>2. th'[c].pc = "remove"
        BY <1>0, <3>1, <4>1 DEF Threads
      <4> QED
        BY <4>2
    <3>8. CASE NotifyDone(c)
      <4>1. th'[c].pc = "done"
        BY <1>0, <3>8 DEF NotifyDone, NoThread
      <4> QED
        BY <4>1
    <3> QED
      BY <2>7, <3>2, <3>3, <3>4, <3>5, <3>6, <3>7, <3>8 DEF ClientThread
  <2> QED
    BY <2>3, <2>4, <2>5, <2>6, <2>7
<1> QED
  BY <1>1, <1>2, <1>3 DEF Silent, Answering

\* A thread's own slot.
LEMMA OwnSlot ==
  ASSUME TableInv, NEW c \in Conns, th[c].pc \in {"touch", "notice", "status", "reply"}
  PROVE  \E s \in Active : /\ Owner(s) = c /\ s \in Slots
                           /\ lista[s].sockfd = th[c].sockfd
                           /\ lista[s].username = Clip[NameOf[c]]
<1>0. /\ Basics /\ NoConn \notin Conns /\ Active \subseteq Slots
      /\ th[c].sockfd \in Fds /\ descr[th[c].sockfd] = c
  BY ServerAssumption, ActiveSlots
  DEF TableInv, BasicInv, Basics, TypeOK, DescriptorsOwned, OpenThreads, ThreadPCs
<1>1. Registered(c)
  BY DEF Registered
<1>2. PICK s \in Active : /\ Owner(s) = c /\ lista[s].sockfd \in Fds
                          /\ lista[s].username = Clip[NameOf[c]]
  BY <1>1 DEF TableInv, Entries
<1>3. lista[s].sockfd = th[c].sockfd
  BY <1>0, <1>2 DEF Basics, DescriptorsOwned, Owner
<1> QED
  BY <1>0, <1>2, <1>3

\* cl_touch on the thread's own slot.
LEMMA TouchOwn ==
  ASSUME TableInv, NEW c \in Conns, Touch(c), NEW s \in Active, Owner(s) = c
  PROVE  /\ \A i \in Active \ {s} : lista'[i] = lista[i]
         /\ lista'[s].ultimo_mensaje = clock
         /\ IF lista[s].status = "INACTIVE"
            THEN lista'[s].status = "ACTIVE" /\ th'[c].pc = "notice"
            ELSE lista'[s].status = lista[s].status /\ th'[c].pc = HandlerOf(th[c].pkt.command)
<1>0. /\ Basics /\ th \in [Conns -> Threads] /\ ListTypeOK /\ Active \subseteq Slots
      /\ th[c].pc = "touch" /\ s \in Slots
  BY ActiveSlots DEF TableInv, BasicInv, Basics, TypeOK, ListTypeOK, Touch
<1>1. lista[s].sockfd = th[c].sockfd
  BY <1>0, OwnSlot, OneSlot
<1>2. PICK idx : idx = cl_find_by_fd(th[c].sockfd)
  OBVIOUS
<1>3. idx = s /\ idx >= 0 /\ ~(idx < 0)
  <2>1. idx \in Int /\ ~(idx < 0)
    BY <1>0, <1>1, <1>2, Finds DEF ListTypeOK
  <2>2. idx >= 0
    BY <2>1
  <2>3. idx \in Active /\ lista[idx].sockfd = th[c].sockfd
    BY <1>0, <1>2, <2>2, Finds DEF ListTypeOK
  <2>4. idx = s
    BY <1>1, <2>3 DEF TableInv, Entries
  <2> QED
    BY <2>1, <2>2, <2>4
<1>4. PICK re \in BOOLEAN :
        /\ re = (lista[s].status = "INACTIVE")
        /\ lista' = [lista EXCEPT ![s].ultimo_mensaje = clock,
                                  ![s].status = IF re THEN "ACTIVE" ELSE @]
        /\ Goto(c, IF re THEN "notice" ELSE HandlerOf(th[c].pkt.command))
  BY <1>2, <1>3 DEF Touch, cl_touch
<1>5. \A p : Goto(c, p) => th'[c].pc = p
  BY <1>0 DEF Goto, Threads
<1>6. PICK st : /\ st = IF re THEN "ACTIVE" ELSE lista[s].status
                /\ lista' = [lista EXCEPT ![s].ultimo_mensaje = clock, ![s].status = st]
  <2>1. CASE re
    BY <1>4, <2>1
  <2>2. CASE ~re
    <3>1. lista' = [lista EXCEPT ![s].ultimo_mensaje = clock, ![s].status = lista[s].status]
      BY <1>0, <1>4, <2>2 DEF ListTypeOK
    <3> QED
      BY <2>2, <3>1
  <2> QED
    BY <2>1, <2>2
<1>7. /\ lista'[s].ultimo_mensaje = clock /\ lista'[s].status = st
      /\ \A i \in Active \ {s} : lista'[i] = lista[i]
  BY <1>0, <1>6 DEF ListTypeOK, Cliente
<1>8. CASE re
  <2>1. th'[c].pc = "notice"
    BY <1>4, <1>5, <1>8
  <2> QED
    BY <1>4, <1>6, <1>7, <1>8, <2>1
<1>9. CASE ~re
  <2>1. th'[c].pc = HandlerOf(th[c].pkt.command)
    BY <1>4, <1>5, <1>9
  <2> QED
    BY <1>4, <1>6, <1>7, <1>9, <2>1
<1> QED
  BY <1>8, <1>9

\* cl_set_status finds the thread's own slot, by the name.
LEMMA SetOwnStatus ==
  ASSUME TableInv, NamesFit, NEW c \in Conns, HandleStatus(c), NEW s \in Active,
         Owner(s) = c
  PROVE  /\ \A i \in Active \ {s} : lista'[i] = lista[i]
         /\ lista'[s].ultimo_mensaje = lista[s].ultimo_mensaje
         /\ lista'[s].status = th[c].pkt.payload /\ th[c].pkt.payload # ""
         /\ th'[c].pc = "reply" /\ News(th'[c].out) = th[c].pkt.payload
<1>0. /\ Basics /\ th \in [Conns -> Threads] /\ ListTypeOK /\ Active \subseteq Slots
      /\ th[c].pc = "status" /\ s \in Slots
  BY ActiveSlots DEF TableInv, BasicInv, Basics, TypeOK, ListTypeOK, HandleStatus
<1>1. th[c].pkt.sender = NameOf[c] /\ th[c].pkt.payload \in Statuses /\ NameOf[c] \in Names
  BY <1>0, RequestFields DEF Serving
<1>2. lista[s].username = th[c].pkt.sender
  BY <1>0, <1>1, OwnSlot, OneSlot DEF NamesFit
<1>3. PICK idx : idx = cl_find_by_name(th[c].pkt.sender)
  OBVIOUS
<1>4. idx = s /\ idx >= 0
  <2>1. idx \in Int /\ ~(idx < 0)
    BY <1>0, <1>2, <1>3, Finds DEF ListTypeOK
  <2>2. idx >= 0
    BY <2>1
  <2>3. idx \in Active /\ lista[idx].username = th[c].pkt.sender
    BY <1>0, <1>3, <2>2, Finds DEF ListTypeOK
  <2> QED
    BY <1>2, <2>2, <2>3 DEF TableInv, Distinct
<1>5. PICK o : /\ lista' = [lista EXCEPT ![s].status = th[c].pkt.payload]
               /\ Answer(c, o) /\ o = Ok(th[c].pkt.sender, th[c].pkt.payload)
  BY <1>3, <1>4 DEF HandleStatus, cl_set_status
<1>6. /\ \A i \in Active \ {s} : lista'[i] = lista[i]
      /\ lista'[s].ultimo_mensaje = lista[s].ultimo_mensaje
      /\ lista'[s].status = th[c].pkt.payload
  BY <1>0, <1>5 DEF ListTypeOK, Cliente
<1>7. th'[c].pc = "reply" /\ th'[c].out = o
  <2>1. th'[c] = [th[c] EXCEPT !.pc = "reply", !.out = o]
    BY <1>0, <1>5 DEF Answer
  <2> QED
    BY <1>0, <2>1 DEF Threads
<1>8. News(o) = th[c].pkt.payload /\ th[c].pkt.payload # ""
  <2>1. o.command = "OK" /\ o.payload = th[c].pkt.payload
    BY <1>5 DEF Ok, Packet
  <2> QED
    BY <1>1, <2>1 DEF News, Statuses
<1> QED
  BY <1>6, <1>7, <1>8

-----------------------------------------------------------------------------
\* A thread's step leaves StatusHeld true

\* It takes a slot from its user, if it takes one, and leaves the rest.
LEMMA WhatThreadLeaves ==
  ASSUME TableInv, NEW b \in Conns, ClientThread(b)
  PROVE  /\ UNCHANGED <<mon, clock, cli>>
         /\ \A c : Greeted(c)' <=> Greeted(c)
         /\ \A i : Marked(i)' <=> Marked(i)
         /\ \A i \in Active', c \in Conns : Owner(i)' = c => i \in Active /\ Owner(i) = c
         /\ \A c \in Conns \ {b} : th'[c] = th[c]
<1>0. Basics /\ ListTypeOK /\ NoConn \notin Conns
  BY ServerAssumption DEF TableInv, BasicInv, Basics, TypeOK, ListTypeOK
<1>1. UNCHANGED <<acc, mon, clock, cli>>
  BY DEF ClientThread, peers
<1>2. ASSUME NEW c PROVE Greeted(c)' <=> Greeted(c)
  BY <1>0, <1>1, ThreadKeepsPeer DEF Greeted
<1>3. ASSUME NEW i \in Active', NEW c \in Conns, Owner(i)' = c
      PROVE  i \in Active /\ Owner(i) = c
  <2>1. i \in Active /\ lista'[i].sockfd = lista[i].sockfd
    <3>1. CASE Remove(b)
      BY <1>0, <1>3, <3>1, RemoveEntries DEF Remove, TableInv, Entries
    <3>2. CASE ~Remove(b)
      BY <1>0, <1>3, <3>2, ThreadEntries DEF SameEntries
    <3> QED
      BY <3>1, <3>2
  <2>2. lista[i].sockfd \in Fds
    BY <2>1 DEF TableInv, Entries
  <2> QED
    BY <1>0, <1>3, <2>1, <2>2, ThreadKeepsPeer DEF Owner
<1> QED
  BY <1>0, <1>1, <1>2, <1>3, ThreadFrame DEF Marked

\* While the monitor sends with the mutex held no thread changes the table.
LEMMA TableWaits ==
  ASSUME TableInv, NEW b \in Conns, ClientThread(b), mutex_lista # Unlocked
  PROVE  lista' = lista
<1>1. ~Touch(b)
  BY Zenon DEF Touch, cl_touch
<1>2. ~HandleStatus(b)
  BY Zenon DEF HandleStatus, cl_set_status
<1>3. ~Remove(b)
  BY Zenon DEF Remove, cl_remove
<1> QED
  BY <1>1, <1>2, <1>3 DEF ClientThread, listVars, Recv, RecvFails, Notice, HandleBroadcast,
    SendNext, BroadcastDone, HandleDirect, DirectSend, HandleList, HandleInfo,
    HandleLogout, Reply, ResolveName, Close, NotifyDisconnect, NotifyDone, cl_read

LEMMA ThreadHolds ==
  ASSUME TableInv, StatusHeld, NEW b \in Conns, ClientThread(b),
         \A i \in Active', c \in Conns : Owner(i)' = c => Held(i, c)'
  PROVE  StatusHeld'
<1>0. UNCHANGED <<mon, clock>>
  BY WhatThreadLeaves
<1>1. ASSUME mon'.pc = "tell" PROVE lista'[mon'.i].ultimo_mensaje < clock'
  <2>1. mutex_lista # Unlocked
    BY <1>0, <1>1, ServerAssumption DEF TableInv, MutexProtects, Monitor, Unlocked
  <2> QED
    BY <1>0, <1>1, <2>1, TableWaits DEF StatusHeld
<1> QED
  BY <1>0, <1>1 DEF StatusHeld

\* A slot whose user the step does not concern.
LEMMA OthersHold ==
  ASSUME TableInv, NEW b \in Conns, ClientThread(b), NEW i \in Active',
         NEW c \in Conns, Held(i, c), NoNews(c),
         lista'[i].status = lista[i].status,
         lista'[i].ultimo_mensaje = lista[i].ultimo_mensaje,
         th'[c] = th[c] \/ (Silent(c) /\ Silent(c)')
  PROVE  Held(i, c)'
<1>1. /\ clock' = clock /\ cli' = cli
      /\ Greeted(c)' <=> Greeted(c)
      /\ Marked(i)' <=> Marked(i)
  BY WhatThreadLeaves
<1>2. LastNews(delivered'[c]) = LastNews(delivered[c])
  BY LastNewsKept DEF TableInv, BasicInv, Basics
<1>3. Coming(i, c)' = Coming(i, c) /\ (Lately(c)' <=> Lately(c))
  BY <1>1, SameVoice
<1> QED
  BY <1>1, <1>2, <1>3, HeldOn

\* What the loops and a direct message send does not concern the status.
LEMMA SilentSends ==
  ASSUME TableOuts, NEW b \in Conns, ClientThread(b), ~Notice(b), ~Reply(b),
         NEW c \in Conns
  PROVE  NoNews(c)
<1>0. TableInv /\ TypeOK /\ OutOf(b)
  BY DEF TableOuts, Outs, TableInv, BasicInv, Basics
<1>1. ASSUME th[b].pc \in {"sending", "telling", "passing"} PROVE News(th[b].out) = ""
  BY <1>0, <1>1 DEF OutOf, News
<1>2. CASE SendNext(b) \/ DirectSend(b)
  <2>1. PICK j \in Active : send_packet(lista[j].sockfd, th[b].out)
    <3>1. CASE SendNext(b)
      BY <1>0, <3>1, SendNextSlot
    <3>2. CASE DirectSend(b)
      BY <1>0, <3>2 DEF DirectSend, OutOf
    <3> QED
      BY <1>2, <3>1, <3>2
  <2>2. PICK d \in Conns : d = Owner(j)
    BY <1>0, <2>1, SendToSlot
  <2>3. UNCHANGED delivered \/ Delivers(d, th[b].out)
    BY <1>0, <2>1, <2>2, SendToSlot
  <2>4. News(th[b].out) = ""
    BY <1>1, <1>2 DEF SendNext, DirectSend
  <2> QED
    BY <2>3, <2>4 DEF NoNews
<1>3. CASE ~(SendNext(b) \/ DirectSend(b))
  <2>1. UNCHANGED delivered
    BY <1>3 DEF ClientThread, Recv, RecvFails, Touch, HandleBroadcast,
      BroadcastDone, HandleDirect, HandleStatus, HandleList, HandleInfo,
      HandleLogout, ResolveName, Remove, Close, NotifyDisconnect, NotifyDone
  <2> QED
    BY <2>1 DEF NoNews
<1> QED
  BY <1>2, <1>3

\* A step that neither changes a status nor tells one.
LEMMA QuietThread ==
  ASSUME TableOuts, StatusHeld, NEW b \in Conns, ClientThread(b), ~Touch(b),
         ~Notice(b), ~HandleStatus(b), ~Reply(b)
  PROVE  StatusHeld'
<1>0. TableInv /\ Basics /\ ListTypeOK
  BY DEF TableOuts, TableInv, BasicInv, Basics, TypeOK, ListTypeOK
<1> SUFFICES ASSUME NEW i \in Active', NEW c \in Conns, Owner(i)' = c
             PROVE  Held(i, c)'
  BY <1>0, ThreadHolds
<1>1. i \in Active /\ Owner(i) = c /\ Held(i, c)
  BY <1>0, WhatThreadLeaves DEF StatusHeld
<1>2. lista'[i] = lista[i]
  <2>1. CASE Remove(b)
    BY <1>0, <2>1, RemoveEntries DEF Remove, TableInv, Entries
  <2>2. CASE ~Remove(b)
    BY <2>2 DEF ClientThread, listVars, Recv, RecvFails, HandleBroadcast, SendNext,
      BroadcastDone, HandleDirect, DirectSend, HandleList, HandleInfo, HandleLogout,
      ResolveName, Close, NotifyDisconnect, NotifyDone, cl_read
  <2> QED
    BY <2>1, <2>2
<1>3. th'[c] = th[c] \/ (Silent(c) /\ Silent(c)')
  <2>1. CASE c = b
    BY <1>0, <2>1, ThreadVoice
  <2>2. CASE c # b
    BY <1>0, <2>2, WhatThreadLeaves
  <2> QED
    BY <2>1, <2>2
<1> QED
  BY <1>0, <1>1, <1>2, <1>3, SilentSends, OthersHold

\* A user at work is not the main thread's peer.
LEMMA NotGreeted ==
  ASSUME TableInv, NEW c \in Conns, th[c].pc # "none"
  PROVE  ~Greeted(c)
BY PeerApart DEF TableInv, BasicInv, Greeted

LEMMA TouchHolds ==
  ASSUME TableOuts, StatusHeld, NEW b \in Conns, ClientThread(b), Touch(b)
  PROVE  StatusHeld'
<1>0. TableInv /\ Basics /\ th[b].pc = "touch" /\ UNCHANGED delivered
  BY DEF TableOuts, TableInv, BasicInv, Touch
<1>u. mutex_lista = Unlocked
  BY Zenon DEF Touch, cl_touch
<1>t. UNCHANGED <<mon, clock, cli>> /\ ~Greeted(b) /\ ~Greeted(b)'
  BY <1>0, NotGreeted, WhatThreadLeaves
<1> SUFFICES ASSUME NEW i \in Active', NEW c \in Conns, Owner(i)' = c
             PROVE  Held(i, c)'
  BY <1>0, ThreadHolds
<1>1. i \in Active /\ Owner(i) = c /\ Held(i, c)
  BY <1>0, WhatThreadLeaves DEF StatusHeld
<1>2. PICK s \in Active : Owner(s) = b
  BY <1>0, OwnSlot
<1>3. CASE c # b
  <2>1. i # s /\ th'[c] = th[c]
    BY <1>0, <1>1, <1>2, <1>3, WhatThreadLeaves
  <2>2. lista'[i] = lista[i]
    BY <1>0, <1>1, <1>2, <2>1, TouchOwn
  <2> QED
    BY <1>0, <1>1, <2>1, <2>2, OthersHold DEF NoNews
<1>4. CASE c = b
  <2>1. i = s
    BY <1>0, <1>1, <1>2, <1>4, OneSlot
  <2>2. mon.pc # "tell" /\ ~Marked(i) /\ ~Marked(i)'
    <3>1. mon.pc # "tell"
      BY <1>0, <1>u DEF TableInv, MutexProtects, Monitor, Unlocked
    <3> QED
      BY <1>t, <3>1 DEF Marked
  <2>3. Coming(i, b) = "" /\ (cli[b] = "up" => LastNews(delivered[b]) = lista[i].status)
    <3>1. Coming(i, b) = ""
      BY <1>0, <1>t, <2>2 DEF Coming, Answering
    <3> QED
      BY <1>1, <1>4, <3>1 DEF Held
  <2>4. lista'[i].ultimo_mensaje = clock'
    BY <1>0, <1>t, <1>2, <2>1, TouchOwn
  <2>5. CASE lista[i].status = "INACTIVE"
    <3>1. lista'[i].status = "ACTIVE" /\ th'[b].pc = "notice"
      BY <1>0, <1>2, <2>1, <2>5, TouchOwn
    <3>2. Coming(i, b)' = "ACTIVE"
      BY <3>1 DEF Coming
    <3> QED
      BY <1>4, <2>4, <3>1, <3>2 DEF Held
  <2>6. CASE lista[i].status # "INACTIVE"
    <3>1. lista'[i].status = lista[i].status /\ th'[b].pc = HandlerOf(th[b].pkt.command)
      BY <1>0, <1>2, <2>1, <2>6, TouchOwn
    <3>2. th'[b].pc \notin {"notice", "reply"}
      BY <3>1 DEF HandlerOf
    <3>3. Coming(i, b)' = ""
      BY <1>t, <2>2, <3>2 DEF Coming, Answering
    <3> QED
      BY <1>0, <1>t, <1>4, <2>3, <2>4, <3>1, <3>3 DEF Held
  <2> QED
    BY <2>5, <2>6
<1> QED
  BY <1>3, <1>4

\* The notice "back to ACTIVE" is what its user is told last.
LEMMA NoticeHolds ==
  ASSUME TableOuts, StatusHeld, NEW b \in Conns, ClientThread(b), Notice(b)
  PROVE  StatusHeld'
<1>0. /\ TableInv /\ TypeOK /\ th \in [Conns -> Threads] /\ th[b].pc = "notice"
      /\ UNCHANGED lista
  BY DEF TableOuts, TableInv, BasicInv, Basics, TypeOK, Notice, listVars
<1>t. UNCHANGED <<mon, clock, cli>> /\ ~Greeted(b) /\ ~Greeted(b)'
  BY <1>0, NotGreeted, WhatThreadLeaves
<1>p. PICK p : /\ p = Packet("MSG", "SERVER", "", "back to ACTIVE")
               /\ send_packet(th[b].sockfd, p)
  BY DEF Notice
<1>n. News(p) = "ACTIVE"
  <2>1. p.command = "MSG" /\ p.sender = "SERVER" /\ p.payload = "back to ACTIVE"
    BY <1>p DEF Packet
  <2> QED
    BY <2>1 DEF News, Statuses
<1>s. /\ UNCHANGED delivered \/ Delivers(b, p)
      /\ cli[b] = "up" => Delivers(b, p)
  <2>1. th[b].sockfd \in Fds /\ descr[th[b].sockfd] = b
    BY <1>0 DEF TableInv, BasicInv, Basics, DescriptorsOwned, OpenThreads, ThreadPCs
  <2> QED
    BY <1>0, <1>p, <2>1, SendDelivers
<1> SUFFICES ASSUME NEW i \in Active', NEW c \in Conns, Owner(i)' = c
             PROVE  Held(i, c)'
  BY <1>0, ThreadHolds
<1>1. i \in Active /\ Owner(i) = c /\ Held(i, c)
  BY <1>0, WhatThreadLeaves DEF StatusHeld
<1>2. CASE c # b
  <2>1. th'[c] = th[c] /\ NoNews(c)
    BY <1>0, <1>2, <1>s, WhatThreadLeaves DEF NoNews
  <2> QED
    BY <1>0, <1>1, <2>1, OthersHold
<1>3. CASE c = b
  <2>1. Lately(b) /\ Coming(i, b) = "ACTIVE"
    BY <1>0 DEF Lately, Coming
  <2>2. lista[i].ultimo_mensaje = clock /\ lista[i].status = "ACTIVE" /\ ~Marked(i)
    BY <1>0, <1>1, <1>3, <2>1, LatelyNotMarked DEF Held
  <2>3. th'[b].pc \notin {"notice", "reply"}
    <3>1. Goto(b, HandlerOf(th[b].pkt.command))
      BY DEF Notice
    <3>2. th'[b].pc = HandlerOf(th[b].pkt.command)
      BY <1>0, <3>1 DEF Goto, Threads
    <3> QED
      BY <3>2 DEF HandlerOf
  <2>4. Coming(i, b)' = ""
    BY <1>t, <2>2, <2>3 DEF Coming, Answering, Marked
  <2>5. cli[b] = "up" => LastNews(delivered'[b]) = "ACTIVE"
    BY <1>0, <1>n, <1>s, LastNewsGiven
  <2> QED
    BY <1>0, <1>3, <1>t, <2>2, <2>4, <2>5 DEF Held
<1> QED
  BY <1>2, <1>3

\* The status a user asked for is on its way to him as the answer.
LEMMA StatusSetHolds ==
  ASSUME TableOuts, NamesFit, StatusHeld, NEW b \in Conns, ClientThread(b),
         HandleStatus(b)
  PROVE  StatusHeld'
<1>0. TableInv /\ th[b].pc = "status" /\ UNCHANGED delivered
  BY DEF TableOuts, HandleStatus
<1>t. UNCHANGED <<mon, clock, cli>> /\ ~Greeted(b) /\ ~Greeted(b)'
  BY <1>0, NotGreeted, WhatThreadLeaves
<1> SUFFICES ASSUME NEW i \in Active', NEW c \in Conns, Owner(i)' = c
             PROVE  Held(i, c)'
  BY <1>0, ThreadHolds
<1>1. i \in Active /\ Owner(i) = c /\ Held(i, c)
  BY <1>0, WhatThreadLeaves DEF StatusHeld
<1>2. PICK s \in Active : Owner(s) = b
  BY <1>0, OwnSlot
<1>3. CASE c # b
  <2>1. i # s /\ th'[c] = th[c]
    BY <1>0, <1>1, <1>2, <1>3, WhatThreadLeaves
  <2>2. lista'[i] = lista[i]
    BY <1>0, <1>1, <1>2, <2>1, SetOwnStatus
  <2> QED
    BY <1>0, <1>1, <2>1, <2>2, OthersHold DEF NoNews
<1>4. CASE c = b
  <2>1. i = s
    BY <1>0, <1>1, <1>2, <1>4, OneSlot
  <2>2. Lately(b)
    BY <1>0 DEF Lately
  <2>3. lista'[i].ultimo_mensaje = clock'
    BY <1>0, <1>1, <1>2, <1>4, <1>t, <2>1, <2>2, SetOwnStatus DEF Held
  <2>4. PICK n : n = th[b].pkt.payload
    OBVIOUS
  <2>5. lista'[i].status = n /\ n # "" /\ th'[b].pc = "reply" /\ News(th'[b].out) = n
    BY <1>0, <1>2, <2>1, <2>4, SetOwnStatus
  <2>6. Coming(i, b)' = n
    BY <1>t, <2>5 DEF Coming, Answering
  <2> QED
    BY <1>4, <2>3, <2>5, <2>6 DEF Held
<1> QED
  BY <1>3, <1>4

\* The answer to a STATUS is what its user is told last.
LEMMA ReplyHolds ==
  ASSUME TableOuts, StatusHeld, NEW b \in Conns, ClientThread(b), Reply(b)
  PROVE  StatusHeld'
<1>0. /\ TableInv /\ TypeOK /\ th \in [Conns -> Threads] /\ th[b].pc = "reply"
      /\ UNCHANGED lista
  BY DEF TableOuts, TableInv, BasicInv, Basics, TypeOK, Reply, listVars
<1>t. UNCHANGED <<mon, clock, cli>> /\ ~Greeted(b) /\ ~Greeted(b)'
  BY <1>0, NotGreeted, WhatThreadLeaves
<1>p. PICK p : p = th[b].out /\ send_packet(th[b].sockfd, p)
  BY DEF Reply
<1>s. /\ UNCHANGED delivered \/ Delivers(b, p)
      /\ cli[b] = "up" => Delivers(b, p)
  <2>1. th[b].sockfd \in Fds /\ descr[th[b].sockfd] = b
    BY <1>0 DEF TableInv, BasicInv, Basics, DescriptorsOwned, OpenThreads, ThreadPCs
  <2> QED
    BY <1>0, <1>p, <2>1, SendDelivers
<1>g. th'[b].pc \in {"resolve", "recv"}
  <2>1. Goto(b, "resolve") \/ Next_packet(b)
    BY DEF Reply
  <2> QED
    BY <1>0, <2>1 DEF Goto, Next_packet, Threads
<1> SUFFICES ASSUME NEW i \in Active', NEW c \in Conns, Owner(i)' = c
             PROVE  Held(i, c)'
  BY <1>0, ThreadHolds
<1>1. i \in Active /\ Owner(i) = c /\ Held(i, c)
  BY <1>0, WhatThreadLeaves DEF StatusHeld
<1>2. CASE c # b
  <2>1. th'[c] = th[c] /\ NoNews(c)
    BY <1>0, <1>2, <1>s, WhatThreadLeaves DEF NoNews
  <2> QED
    BY <1>0, <1>1, <2>1, OthersHold
<1>3. CASE c = b /\ News(p) = ""
  <2>1. NoNews(b)
    BY <1>3, <1>s DEF NoNews
  <2>2. Silent(b) /\ Silent(b)'
    BY <1>0, <1>3, <1>p, <1>g DEF Silent, Answering
  <2> QED
    BY <1>0, <1>1, <1>3, <2>1, <2>2, OthersHold
<1>4. CASE c = b /\ News(p) # ""
  <2>1. Answering(b) /\ Lately(b) /\ Coming(i, b) = News(p)
    BY <1>0, <1>4, <1>p, <1>t DEF Answering, Lately, Coming
  <2>2. lista[i].status = News(p) /\ ~Marked(i)
    BY <1>0, <1>1, <1>4, <2>1, LatelyNotMarked DEF Held
  <2>3. Coming(i, b)' = "" /\ ~Lately(b)'
    BY <1>g, <1>t, <2>2 DEF Coming, Lately, Answering, Marked
  <2>4. cli[b] = "up" => LastNews(delivered'[b]) = News(p)
    BY <1>0, <1>4, <1>s, LastNewsGiven
  <2> QED
    BY <1>0, <1>4, <1>t, <2>2, <2>3, <2>4 DEF Held
<1> QED
  BY <1>2, <1>3, <1>4

LEMMA ThreadStatusStep ==
  ASSUME TableOuts, NamesFit, StatusHeld, NEW b \in Conns, ClientThread(b)
  PROVE  StatusHeld'
BY QuietThread, TouchHolds, NoticeHolds, StatusSetHolds, ReplyHolds

-----------------------------------------------------------------------------
\* So do the main thread's, the monitor's and the rest

\* A step that changes no slot in use keeps the monitor's part of StatusHeld.
LEMMA RestHolds ==
  ASSUME TableInv, StatusHeld, UNCHANGED <<mon, clock>>,
         \A i \in Active : lista'[i] = lista[i],
         \A i \in Active', c \in Conns : Owner(i)' = c => Held(i, c)'
  PROVE  StatusHeld'
<1>1. mon.pc = "tell" => mon.i \in Active
  BY DEF TableInv, MutexProtects
<1> QED
  BY <1>1 DEF StatusHeld

\* A slot whose user is neither served nor greeted in the step.
LEMMA StillHolds ==
  ASSUME TableInv, UNCHANGED <<mon, clock>>, NEW i, NEW c \in Conns, Held(i, c),
         lista'[i] = lista[i], cli'[c] = "up" => cli[c] = "up", NoNews(c),
         Greeted(c)' <=> Greeted(c), th'[c] = th[c] \/ (Silent(c) /\ Silent(c)')
  PROVE  Held(i, c)'
<1>1. LastNews(delivered'[c]) = LastNews(delivered[c])
  BY LastNewsKept DEF TableInv, BasicInv, Basics
<1>2. Marked(i)' <=> Marked(i)
  BY DEF Marked
<1>3. Coming(i, c)' = Coming(i, c) /\ (Lately(c)' <=> Lately(c))
  BY <1>2, SameVoice
<1> QED
  BY <1>1, <1>3, HeldOn

\* A newcomer's slot has what it is about to be greeted with.
LEMMA RegisterHolds ==
  ASSUME TableInv, StatusHeld, AcceptLoop, HandleRegister, acc'.rc = 0
  PROVE  StatusHeld'
<1>0. /\ Basics /\ acc \in AccRecords /\ NoConn \notin Conns
      /\ UNCHANGED <<mon, clock, cli, delivered, th, descr>> /\ acc.pc = "register"
      /\ Entries
  BY ServerAssumption DEF TableInv, BasicInv, Basics, TypeOK, AccRecords, AcceptLoop,
    HandleRegister, peers
<1>1. acc'.pc = "answer" /\ acc'.fd = acc.fd
  <2>1. PICK ret : acc' = [acc EXCEPT !.pc = "answer", !.rc = ret]
    BY DEF HandleRegister
  <2> QED
    BY <1>0, <2>1 DEF AccRecords
<1>2. Peer' = Peer /\ Peer = descr[acc.fd]
  BY <1>0, <1>1 DEF Peer
<1>3. PICK n : /\ Active' = Active \cup {n}
               /\ \A i \in Active : lista'[i] = lista[i]
               /\ lista'[n].sockfd = acc.fd /\ lista'[n].status = "ACTIVE"
               /\ lista'[n].ultimo_mensaje = clock
  BY <1>0, RegisterAdds
<1> SUFFICES ASSUME NEW i \in Active', NEW c \in Conns, Owner(i)' = c
             PROVE  Held(i, c)'
  BY <1>0, <1>3, RestHolds
<1>4. CASE i \in Active
  <2>1. Owner(i) = c /\ lista'[i] = lista[i] /\ Held(i, c)
    BY <1>0, <1>3, <1>4 DEF Owner, StatusHeld
  <2>2. c # Peer
    <3>1. ~Registered(Peer)
      BY <1>0, PeerSlot
    <3> QED
      BY <1>4, <2>1, <3>1 DEF TableInv, Entries
  <2>3. Greeted(c)' <=> Greeted(c)
    BY <1>2, <2>2 DEF Greeted
  <2> QED
    BY <1>0, <2>1, <2>3, StillHolds DEF NoNews
<1>5. CASE i = n
  <2>1. c = Peer
    BY <1>0, <1>2, <1>3, <1>5 DEF Owner
  <2>2. Greeted(c)'
    BY <1>1, <1>2, <2>1 DEF Greeted
  <2>3. Coming(i, c)' = "ACTIVE"
    BY <2>2 DEF Coming
  <2> QED
    BY <1>0, <1>3, <1>5, <2>3 DEF Held
<1> QED
  BY <1>3, <1>4, <1>5

\* The main thread's other steps change no slot.
LEMMA AcceptLeaves ==
  ASSUME TableInv, TableInv', AcceptLoop, ~(HandleRegister /\ acc'.rc = 0)
  PROVE  /\ UNCHANGED <<lista, num_clientes, mon, clock, cli>>
         /\ \A i \in Active', c \in Conns : Owner(i)' = c => i \in Active /\ Owner(i) = c
<1>0. acc \in AccRecords /\ UNCHANGED <<mon, clock, cli>>
  BY DEF TableInv, BasicInv, Basics, TypeOK, AccRecords, AcceptLoop, peers
<1>1. UNCHANGED <<lista, num_clientes>>
  <2>1. CASE HandleRegister
    <3>1. PICK ret : /\ cl_add(acc.pkt.sender, IpOf[Peer], acc.fd, clock, ret)
                     /\ acc' = [acc EXCEPT !.pc = "answer", !.rc = ret]
      BY <2>1 DEF HandleRegister
    <3>2. ret # 0
      BY <1>0, <2>1, <3>1 DEF AccRecords
    <3> QED
      BY <3>1, <3>2 DEF cl_add
  <2>2. CASE ~HandleRegister
    BY <2>2 DEF AcceptLoop, listVars, Accept, FirstIsRegister, FirstIsNot,
      AnswerRegister, CheckRegistered
  <2> QED
    BY <2>1, <2>2
<1>2. SameEntries
  BY <1>1, NoChange
<1>3. ASSUME NEW i \in Active', NEW c \in Conns, Owner(i)' = c
      PROVE  i \in Active /\ Owner(i) = c
  BY <1>2, <1>3, OwnerKept DEF SameEntries, Next
<1> QED
  BY <1>0, <1>1, <1>3

\* The welcome tells a user what his slot has.
LEMMA GreetingHolds ==
  ASSUME TableInv, TableInv', StatusHeld, AcceptLoop, AnswerRegister
  PROVE  StatusHeld'
<1>0. /\ TypeOK /\ Basics /\ acc \in AccRecords /\ acc.pc = "answer" /\ th' = th
      /\ Entries /\ send_packet(acc.fd, Greeting)
  BY DEF TableInv, BasicInv, Basics, TypeOK, AccRecords, AnswerRegister
<1>1. /\ UNCHANGED <<lista, num_clientes, mon, clock, cli>>
      /\ \A i \in Active', c \in Conns : Owner(i)' = c => i \in Active /\ Owner(i) = c
  <2>1. ~HandleRegister
    BY <1>0 DEF HandleRegister
  <2> QED
    BY <2>1, AcceptLeaves
<1>2. PICK d \in Conns : d = Peer /\ d = descr[acc.fd] /\ acc.fd \in Fds /\ th[d].pc = "none"
  BY <1>0, PeerApart
<1>3. PICK p : p = Greeting
  OBVIOUS
<1>4. /\ UNCHANGED delivered \/ Delivers(d, p)
      /\ cli[d] = "up" => Delivers(d, p)
  BY <1>0, <1>2, <1>3, SendDelivers
<1>5. acc'.pc = "check"
  BY <1>0 DEF AnswerRegister, AccRecords
<1> SUFFICES ASSUME NEW i \in Active', NEW c \in Conns, Owner(i)' = c
             PROVE  Held(i, c)'
  BY <1>1, RestHolds
<1>6. i \in Active /\ Owner(i) = c /\ Held(i, c)
  BY <1>1 DEF StatusHeld
<1>7. CASE c # d
  <2>1. NoNews(c)
    BY <1>2, <1>4, <1>7 DEF NoNews
  <2>2. Greeted(c)' <=> Greeted(c)
    BY <1>2, <1>5, <1>7 DEF Greeted
  <2> QED
    BY <1>0, <1>1, <1>6, <2>1, <2>2, StillHolds
<1>8. CASE c = d
  <2>1. acc.rc = 0
    <3>1. Registered(Peer)
      BY <1>2, <1>6, <1>8 DEF TableInv, Entries
    <3> QED
      BY <1>0, <3>1, PeerSlot
  <2>2. News(p) = "ACTIVE"
    <3>1. p = Ok(acc.pkt.sender, "welcome")
      BY <1>3, <2>1 DEF Greeting
    <3>2. p.command = "OK" /\ p.payload = "welcome"
      BY <3>1 DEF Ok, Packet
    <3> QED
      BY <3>2 DEF News, Statuses
  <2>3. Greeted(c) /\ Lately(c) /\ Coming(i, c) = "ACTIVE"
    BY <1>0, <1>2, <1>8 DEF Greeted, Lately, Coming
  <2>4. lista[i].status = "ACTIVE" /\ ~Marked(i) /\ lista[i].ultimo_mensaje = clock
    BY <1>0, <1>6, <2>3, LatelyNotMarked DEF Held
  <2>5. Coming(i, c)' = ""
    BY <1>0, <1>1, <1>2, <1>5, <1>8, <2>4 DEF Coming, Greeted, Answering, Marked
  <2>6. cli[c] = "up" => LastNews(delivered'[c]) = "ACTIVE"
    BY <1>0, <1>4, <1>8, <2>2, LastNewsGiven
  <2> QED
    BY <1>1, <2>4, <2>5, <2>6 DEF Held
<1> QED
  BY <1>7, <1>8

LEMMA AcceptStatusStep ==
  ASSUME TableInv, TableInv', StatusHeld, AcceptLoop
  PROVE  StatusHeld'
<1>1. CASE HandleRegister /\ acc'.rc = 0
  BY <1>1, RegisterHolds
<1>2. CASE AnswerRegister
  BY <1>2, GreetingHolds
<1>3. CASE ~(HandleRegister /\ acc'.rc = 0) /\ ~AnswerRegister
  <2>0. /\ Basics /\ acc \in AccRecords /\ th \in [Conns -> Threads]
        /\ Entries /\ UNCHANGED delivered
    BY <1>3 DEF TableInv, BasicInv, Basics, TypeOK, AccRecords, AcceptLoop, Accept,
      FirstIsRegister, FirstIsNot, HandleRegister, CheckRegistered
  <2>1. /\ UNCHANGED <<lista, num_clientes, mon, clock, cli>>
        /\ \A i \in Active', c \in Conns : Owner(i)' = c => i \in Active /\ Owner(i) = c
    BY <1>3, AcceptLeaves
  <2> SUFFICES ASSUME NEW i \in Active', NEW c \in Conns, Owner(i)' = c
               PROVE  Held(i, c)'
    BY <2>1, RestHolds
  <2>2. i \in Active /\ Owner(i) = c /\ Held(i, c)
    BY <2>1 DEF StatusHeld
  <2>3. ~Greeted(c) /\ ~Greeted(c)'
    <3>1. CASE HandleRegister
      <4>1. acc.pc = "register" /\ acc'.fd = acc.fd /\ descr' = descr
        BY <2>0, <3>1 DEF HandleRegister, AccRecords
      <4>2. c # Peer
        BY <2>0, <2>2, <4>1, PeerSlot DEF Entries
      <4> QED
        BY <4>1, <4>2 DEF Greeted, Peer
    <3>2. CASE ~HandleRegister
      <4>1. CASE Accept \/ FirstIsRegister
        BY <2>0, <4>1 DEF Accept, FirstIsRegister, AccRecords, Greeted
      <4>2. CASE FirstIsNot \/ CheckRegistered
        BY <4>2 DEF FirstIsNot, CheckRegistered, Accepting, Greeted
      <4> QED
        BY <1>3, <3>2, <4>1, <4>2 DEF AcceptLoop
    <3> QED
      BY <3>1, <3>2
  <2>4. th'[c] = th[c] \/ (Silent(c) /\ Silent(c)')
    <3>1. CASE th[c].pc = "none" /\ th'[c].pc = "recv"
      BY <3>1 DEF Silent, Answering
    <3>2. CASE th'[c] # th[c]
      <4>1. acc.pc = "check" /\ th' = [th EXCEPT ![Peer].pc = "recv", ![Peer].sockfd = acc.fd]
        BY <3>2 DEF AcceptLoop, Accept, FirstIsRegister, FirstIsNot, HandleRegister,
          AnswerRegister, CheckRegistered
      <4>2. Peer \in Conns /\ th[Peer].pc = "none"
        BY <2>0, <4>1, PeerApart
      <4>3. c = Peer
        BY <2>0, <3>2, <4>1, <4>2
      <4>4. th'[c].pc = "recv"
        BY <2>0, <4>1, <4>3 DEF Threads
      <4> QED
        BY <3>1, <4>2, <4>3, <4>4
    <3> QED
      BY <3>2
  <2> QED
    BY <2>0, <2>1, <2>2, <2>3, <2>4, StillHolds DEF NoNews
<1> QED
  BY <1>1, <1>2, <1>3

\* Who is marked has been idle for a tick at least, so nothing else is on its
\* way to him.
LEMMA MarkHolds ==
  ASSUME TableInv, TableInv', StatusHeld, InactivityThread, MonitorMark
  PROVE  StatusHeld'
<1>0. /\ Basics /\ ListTypeOK /\ mon \in MonRecords /\ clock \in Nat
      /\ UNCHANGED <<acc, th, descr, clock, cli, delivered>>
      /\ mon.pc = "scan" /\ mon.now <= clock
  BY DEF TableInv, BasicInv, Basics, TypeOK, ListTypeOK, MonRecords, InactivityThread,
    MonitorMark, peers, StatusHeld
<1>1. PICK rest : /\ rest = {j \in Idle(mon.now) : j >= mon.i} /\ rest # {}
                  /\ lista' = [lista EXCEPT ![Min(rest)].status = "INACTIVE"]
                  /\ mon' = [mon EXCEPT !.pc = "tell", !.i = Min(rest)]
  BY DEF MonitorMark
<1>2. PICK s \in Active : s = Min(rest) /\ s \in Idle(mon.now) /\ s \in Slots
  BY <1>0, <1>1, IdleSlots DEF ListTypeOK
<1>3. lista[s].ultimo_mensaje < clock /\ lista[s].ultimo_mensaje # clock
  <2>1. lista[s] \in Cliente
    BY <1>0, <1>2 DEF ListTypeOK
  <2>2. lista[s].ultimo_mensaje \in Nat /\ mon.now \in Nat
    BY <1>0, <2>1 DEF Cliente, MonRecords
  <2>3. INACTIVITY_TIMEOUT \in Nat /\ INACTIVITY_TIMEOUT > 0
    BY ServerAssumption
  <2>4. mon.now - lista[s].ultimo_mensaje >= INACTIVITY_TIMEOUT
    BY <1>2 DEF Idle
  <2> QED
    BY <1>0, <2>2, <2>3, <2>4
<1>4. /\ lista'[s].status = "INACTIVE"
      /\ lista'[s].ultimo_mensaje = lista[s].ultimo_mensaje
      /\ \A i \in Slots \ {s} : lista'[i] = lista[i]
  BY <1>0, <1>1, <1>2 DEF ListTypeOK, Cliente
<1>5. mon'.pc = "tell" /\ mon'.i = s /\ mon'.now = mon.now
  BY <1>0, <1>1, <1>2 DEF MonRecords
<1>6. SameEntries /\ Active \subseteq Slots
  BY <1>0, MonitorEntries, ActiveSlots DEF TableInv, ListTypeOK
<1>7. ASSUME NEW i \in Active', NEW c \in Conns, Owner(i)' = c
      PROVE  Held(i, c)'
  <2>1. i \in Active /\ Owner(i) = c /\ i \in Slots
    BY <1>6, <1>7, OwnerKept DEF SameEntries, Next
  <2>2. Held(i, c)
    BY <2>1 DEF StatusHeld
  <2>3. Greeted(c)' <=> Greeted(c)
    BY <1>0 DEF Greeted, Peer
  <2>4. CASE i # s
    <3>1. Marked(i)' <=> Marked(i)
      BY <1>0, <1>5, <2>4 DEF Marked
    <3>2. Coming(i, c)' = Coming(i, c) /\ (Lately(c)' <=> Lately(c))
      BY <1>0, <2>3, <3>1, SameVoice
    <3>3. lista'[i] = lista[i]
      BY <1>4, <2>1, <2>4
    <3> QED
      BY <1>0, <2>2, <3>2, <3>3, HeldOn
  <2>5. CASE i = s
    <3>1. ~Lately(c)
      BY <1>3, <2>2, <2>5 DEF Held
    <3>2. ~Lately(c)'
      BY <1>0, <2>3, <3>1 DEF Lately, Answering
    <3>3. Coming(i, c)' = "INACTIVE"
      BY <1>5, <2>5, <3>2 DEF Coming, Lately, Marked
    <3> QED
      BY <1>4, <2>5, <3>2, <3>3 DEF Held
  <2> QED
    BY <2>4, <2>5
<1> QED
  BY <1>0, <1>3, <1>4, <1>5, <1>7 DEF StatusHeld

\* "now INACTIVE" is what the user of the marked slot is told last.
LEMMA TellHolds ==
  ASSUME TableInv, TableInv', StatusHeld, InactivityThread, MonitorTell
  PROVE  StatusHeld'
<1>0. /\ TypeOK /\ mon \in MonRecords /\ mon.pc = "tell"
      /\ UNCHANGED <<lista, num_clientes, acc, th, descr, clock, cli>>
  BY DEF TableInv, BasicInv, Basics, TypeOK, MonRecords, InactivityThread, MonitorTell,
    peers, listVars
<1>1. PICK s \in Active : s = mon.i
  BY <1>0 DEF TableInv, MutexProtects
<1>2. mon'.pc = "scan" /\ mon'.now = mon.now
  BY <1>0 DEF MonitorTell, MonRecords
<1>3. PICK p : /\ p = Packet("MSG", "SERVER", lista[s].username, "now INACTIVE")
               /\ send_packet(lista[s].sockfd, p)
  BY <1>1 DEF MonitorTell
<1>4. News(p) = "INACTIVE"
  <2>1. p.command = "MSG" /\ p.sender = "SERVER" /\ p.payload = "now INACTIVE"
    BY <1>3 DEF Packet
  <2> QED
    BY <2>1 DEF News, Statuses
<1>5. PICK d \in Conns : /\ d = Owner(s)
                         /\ UNCHANGED delivered \/ Delivers(d, p)
                         /\ cli[d] = "up" => Delivers(d, p)
  BY <1>3, SendToSlot
<1>6. ASSUME NEW i \in Active', NEW c \in Conns, Owner(i)' = c
      PROVE  Held(i, c)'
  <2>1. i \in Active /\ Owner(i) = c
    BY <1>0, <1>6 DEF Active, Used, Owner
  <2>2. Held(i, c)
    BY <2>1 DEF StatusHeld
  <2>3. Greeted(c)' <=> Greeted(c)
    BY <1>0 DEF Greeted, Peer
  <2>4. ~Marked(i)'
    BY <1>2 DEF Marked
  <2>5. CASE i # s
    <3>1. c # d
      BY <1>5, <2>1, <2>5, OneSlot
    <3>2. ~Marked(i)
      BY <1>1, <2>5 DEF Marked
    <3>3. Coming(i, c)' = Coming(i, c) /\ (Lately(c)' <=> Lately(c))
      BY <1>0, <2>3, <2>4, <3>2, SameVoice
    <3>4. LastNews(delivered'[c]) = LastNews(delivered[c])
      BY <1>0, <1>5, <3>1, LastNewsKept DEF NoNews
    <3> QED
      BY <1>0, <2>2, <3>3, <3>4, HeldOn
  <2>6. CASE i = s
    <3>1. Marked(i) /\ c = d
      BY <1>0, <1>1, <1>5, <2>1, <2>6 DEF Marked
    <3>2. ~Lately(c)
      BY <1>0, <2>1, <3>1, LatelyNotMarked
    <3>3. lista[i].status = "INACTIVE"
      <4>1. Coming(i, c) = "INACTIVE"
        BY <3>1, <3>2 DEF Coming, Lately
      <4> QED
        BY <2>2, <4>1 DEF Held
    <3>4. ~Lately(c)' /\ Coming(i, c)' = ""
      <4>1. ~Lately(c)'
        BY <1>0, <2>3, <3>2 DEF Lately, Answering
      <4> QED
        BY <2>4, <4>1 DEF Coming, Lately
    <3>5. cli[c] = "up" => LastNews(delivered'[c]) = "INACTIVE"
      BY <1>0, <1>4, <1>5, <3>1, LastNewsGiven
    <3> QED
      BY <1>0, <3>3, <3>4, <3>5 DEF Held
  <2> QED
    BY <2>5, <2>6
<1> QED
  BY <1>0, <1>2, <1>6 DEF StatusHeld

\* Its other steps, and the clients', change neither a slot nor what is said.
LEMMA AroundHolds ==
  ASSUME TableInv, StatusHeld, [Next]_vars,
         UNCHANGED <<lista, num_clientes, acc, th, descr, clock, delivered>>,
         \/ mon' = mon
         \/ /\ mon.pc # "tell" /\ mon'.pc # "tell"
            /\ mon'.now = mon.now \/ mon'.now = clock
  PROVE  StatusHeld'
<1>0. TypeOK /\ clock \in Nat
  BY DEF TableInv, BasicInv, Basics, TypeOK
<1>1. ASSUME NEW i \in Active', NEW c \in Conns, Owner(i)' = c
      PROVE  Held(i, c)'
  <2>1. i \in Active /\ Owner(i) = c
    BY <1>1 DEF Active, Used, Owner
  <2>2. Held(i, c)
    BY <2>1 DEF StatusHeld
  <2>3. cli'[c] = "up" => cli[c] = "up"
    BY <2>1, WasUp
  <2>4. Greeted(c)' <=> Greeted(c)
    BY DEF Greeted, Peer
  <2>5. Marked(i)' <=> Marked(i)
    BY DEF Marked
  <2>6. Coming(i, c)' = Coming(i, c) /\ (Lately(c)' <=> Lately(c))
    BY <2>4, <2>5, SameVoice
  <2> QED
    BY <2>2, <2>3, <2>6, HeldOn
<1> QED
  BY <1>0, <1>1 DEF StatusHeld

LEMMA MonitorStatusStep ==
  ASSUME TableInv, TableInv', StatusHeld, InactivityThread
  PROVE  StatusHeld'
<1>1. CASE MonitorMark \/ MonitorTell
  BY <1>1, MarkHolds, TellHolds
<1>2. CASE ~(MonitorMark \/ MonitorTell)
  <2>0. mon \in MonRecords
    BY DEF TableInv, BasicInv, Basics, TypeOK, MonRecords
  <2>1. UNCHANGED <<lista, num_clientes, acc, th, descr, clock, delivered>>
    BY <1>2 DEF InactivityThread, MonitorWake, MonitorLock, MonitorDone, listVars
  <2>2. mon.pc # "tell" /\ mon'.pc # "tell" /\ (mon'.now = mon.now \/ mon'.now = clock)
    <3>1. CASE MonitorWake
      BY <2>0, <3>1 DEF MonitorWake, MonRecords
    <3>2. CASE MonitorLock
      BY <2>0, <3>2 DEF MonitorLock, MonRecords
    <3>3. CASE MonitorDone
      <4>1. mon.pc = "scan" /\ mon' = [pc |-> "sleep", now |-> clock, i |-> 0]
        BY <3>3 DEF MonitorDone
      <4> QED
        BY <4>1
    <3> QED
      BY <1>2, <3>1, <3>2, <3>3 DEF InactivityThread
  <2>3. [Next]_vars
    BY DEF Next
  <2> QED
    BY <2>1, <2>2, <2>3, AroundHolds
<1> QED
  BY <1>1, <1>2

\* When no handler outlasts a tick, nobody was active just now when one passes.
LEMMA TickHolds ==
  ASSUME TableInv, Punctual, StatusHeld, Tick
  PROVE  StatusHeld'
<1>0. /\ TypeOK /\ clock \in Nat /\ mon.now \in Nat /\ clock' = clock + 1 /\ AtRest
      /\ UNCHANGED <<lista, num_clientes, acc, th, descr, mon, cli, delivered>>
  BY DEF TableInv, BasicInv, Basics, TypeOK, Tick, listVars, peers
<1>1. mon.now <= clock' /\ (mon.pc = "tell" => lista[mon.i].ultimo_mensaje < clock')
  <2>1. ASSUME mon.pc = "tell" PROVE lista[mon.i].ultimo_mensaje \in Nat
    <3>1. mon.i \in Slots
      BY <2>1 DEF TableInv, BasicInv, MonitorAtSlot
    <3> QED
      BY <3>1 DEF TableInv, BasicInv, Basics, TypeOK, Cliente
  <2> QED
    BY <1>0, <2>1 DEF StatusHeld
<1>2. ASSUME NEW i \in Active', NEW c \in Conns, Owner(i)' = c
      PROVE  Held(i, c)'
  <2>1. i \in Active /\ Owner(i) = c
    BY <1>0, <1>2 DEF Active, Used, Owner
  <2>2. Held(i, c)
    BY <2>1 DEF StatusHeld
  <2>3. ~Lately(c) /\ ~Lately(c)'
    BY <1>0 DEF AtRest, Lately, Greeted, Answering
  <2>4. Coming(i, c)' = Coming(i, c)
    BY <1>0, <2>3 DEF Coming, Lately, Marked
  <2> QED
    BY <1>0, <2>2, <2>3, <2>4 DEF Held
<1> QED
  BY <1>0, <1>1, <1>2 DEF StatusHeld

LEMMA StatusStep ==
  ASSUME Settled, Settled', Punctual, NamesFit, StatusHeld, [Next]_vars
  PROVE  StatusHeld'
<1>0. TableInv /\ TableInv' /\ TableOuts
  BY DEF Settled, TableOuts
<1>1. ASSUME NEW c \in Conns, Client(c) PROVE StatusHeld'
  <2>1. UNCHANGED <<lista, num_clientes, acc, th, descr, clock, delivered, mon>>
    BY <1>1 DEF Client, serverVars, listVars
  <2> QED
    BY <1>0, <2>1, AroundHolds
<1>2. CASE UNCHANGED vars
  <2>1. UNCHANGED <<lista, num_clientes, acc, th, descr, clock, delivered, mon>>
    BY <1>2 DEF vars, serverVars, listVars
  <2> QED
    BY <1>0, <2>1, AroundHolds
<1> QED
  BY <1>0, <1>1, <1>2, ThreadStatusStep, AcceptStatusStep, MonitorStatusStep, TickHolds
  DEF Next, Over

(***************************************************************************)
(* If no handler outlasts a tick of the clock and no name is too long for  *)
(* a slot, a user between its requests was last told the status its slot   *)
(* has.  The handlers of a status and the monitor both change it under the *)
(* mutex and tell it to the user after, or while still holding it; what    *)
(* keeps the two from crossing is only that the monitor wants a slot to be *)
(* idle for INACTIVITY_TIMEOUT, and cl_touch has just set its time.        *)
(***************************************************************************)
THEOREM StatusToldIsHeld ==
  Spec => [](Punctual /\ NamesFit => StatusToldIsStatusHeld)
<1>1. Init => (Punctual /\ NamesFit => StatusHeld)
  <2> SUFFICES ASSUME Init PROVE StatusHeld
    OBVIOUS
  <2>1. Active = {}
    <3>1. num_clientes = 0
      BY DEF Init, cl_init
    <3>2. Used = {}
      BY <3>1 DEF Used
    <3> QED
      BY <3>2 DEF Active
  <2>2. mon.pc = "sleep" /\ mon.now = 0 /\ clock = 0
    BY DEF Init
  <2> QED
    BY <2>1, <2>2 DEF StatusHeld
<1>2. /\ Settled /\ Settled' /\ [Next]_vars
      /\ (Punctual /\ NamesFit => StatusHeld)
      => (Punctual /\ NamesFit => StatusHeld)'
  BY StatusStep DEF NamesFit
<1>3. Settled /\ (Punctual /\ NamesFit => StatusHeld)
        => (Punctual /\ NamesFit => StatusToldIsStatusHeld)
  <2> SUFFICES ASSUME Settled, StatusHeld, NEW i \in Active, NEW c, c = Owner(i),
                      th[c].pc = "recv", cli[c] = "up", ~(mon.pc = "tell" /\ mon.i = i)
               PROVE  LastNews(delivered[c]) = lista[i].status
    BY DEF StatusToldIsStatusHeld
  <2>0. TableInv /\ c \in Conns
    BY DEF Settled, TableOuts, TableInv, Entries
  <2>1. ~Greeted(c)
    BY <2>0, NotGreeted
  <2>2. Coming(i, c) = ""
    BY <2>1 DEF Coming, Answering, Marked
  <2> QED
    BY <2>0, <2>2 DEF StatusHeld, Held
<1> QED
  BY <1>1, <1>2, <1>3, SettledInvariant, PTL DEF Spec
=============================================================================
