----------------------------- MODULE ChatServer -----------------------------
(***************************************************************************)
(* The chat server: servidor.c and server_handlers.c over the table of     *)
(* ClientList.                                                             *)
(*                                                                         *)
(* Three kinds of thread share the table.  The main thread accepts a       *)
(* connection, reads its first packet and registers it; a detached thread  *)
(* per registered client reads its requests; the monitor marks idle users  *)
(* INACTIVE.  Sends block while the peer does not read, and some are made  *)
(* with the mutex held, so a critical section with a send is several       *)
(* steps; one without is a single step.                                    *)
(*                                                                         *)
(* Around the server: the descriptor table of its process, the listen      *)
(* queue, and the clients, which connect, register, ask and hang up when   *)
(* they like.                                                              *)
(***************************************************************************)
EXTENDS ClientList, Sequences

CONSTANTS
  Conns,               \* TCP connections, each of them made at most once
  NameOf, IpOf,        \* the user behind a connection, the address it has
  Strangers,           \* connections that need not begin with REGISTER
  Offers,              \* the requests clients make in this instance
  Budget,              \* bound: how many requests a connection makes
  Leavers,             \* bound: connections whose client may hang up
  Stallable,           \* connections whose peer may stop reading
  INACTIVITY_TIMEOUT,  \* in ticks; a tick is the monitor's sleep(10)
  MaxTime,             \* bound: the last tick
  Punctual             \* no handler outlasts a tick

NoConn == "nobody"
Monitor == "monitor"

ASSUME ServerAssumption ==
  /\ NameOf \in [Conns -> Names] /\ IpOf \in [Conns -> Ips]
  /\ {NoConn, Monitor, Unlocked} \cap Conns = {}
  /\ Strangers \subseteq Conns /\ Stallable \subseteq Conns
  /\ Offers \subseteq Requests
  /\ Budget \in [Conns -> Nat] /\ Leavers \subseteq Conns
  /\ MaxTime \in Nat
  /\ INACTIVITY_TIMEOUT \in Nat \ {0}
  /\ Punctual \in BOOLEAN

VARIABLES
  descr,      \* the process's descriptors: which connection each one is
  backlog,    \* connections waiting to be accepted
  acc,        \* the main thread
  th,         \* the client threads, by connection
  mon,        \* the inactivity thread
  clock,      \* time(NULL), in ticks
  cli,        \* what the peer did: "new", "up" (connected), "down" (closed)
  sent,       \* packets the peer has sent, the first one included
  full,       \* connections whose buffers are full: a send to them waits
  inq,        \* packets on their way to the server
  delivered   \* packets the server wrote to each connection, in order

peers == <<cli, sent, full>>
serverVars == <<listVars, descr, acc, th, mon, clock, delivered>>
vars == <<serverVars, backlog, peers, inq>>

NoThread == [pc |-> "none", sockfd |-> 0, pkt |-> NoPacket, username |-> "",
             i |-> 0, out |-> NoPacket]
Accepting == [pc |-> "accept", fd |-> 0, pkt |-> NoPacket, rc |-> 0]

Init ==
  /\ cl_init
  /\ descr = [f \in Fds |-> NoConn]
  /\ backlog = <<>>
  /\ acc = Accepting
  /\ th = [c \in Conns |-> NoThread]
  /\ mon = [pc |-> "sleep", now |-> 0, i |-> 0]
  /\ clock = 0
  /\ cli = [c \in Conns |-> "new"]
  /\ sent = [c \in Conns |-> 0]
  /\ full = {}
  /\ inq = [c \in Conns |-> <<>>]
  /\ delivered = [c \in Conns |-> <<>>]

-----------------------------------------------------------------------------
\* Sockets and the mutex

Lock(owner) == mutex_lista = Unlocked /\ mutex_lista' = owner
Unlock == mutex_lista' = Unlocked

Ok(to, body) == Packet("OK", "SERVER", Clip[to], body)
Error(to, body) == Packet("ERROR", "SERVER", Clip[to], body)

Blocked(fd) == descr[fd] \in full

(***************************************************************************)
(* Waits for room in the peer's buffers.  What is written to a connection  *)
(* the peer has closed is lost: SIGPIPE is ignored and so is the result.   *)
(***************************************************************************)
send_packet(fd, pkt) ==
  /\ ~Blocked(fd)
  /\ delivered' =
       IF descr[fd] # NoConn /\ cli[descr[fd]] = "up"
       THEN [delivered EXCEPT ![descr[fd]] = Append(@, pkt)]
       ELSE delivered

close(fd) == descr' = [descr EXCEPT ![fd] = NoConn]

FreeFds == {f \in Fds : descr[f] = NoConn}

\* One round of the loop "for every active slot from i on, send".
SendToNext(i, pkt) ==
  LET rest == {j \in Active : j >= i}
  IN  rest # {} /\ send_packet(lista[Min(rest)].sockfd, pkt)

\* Mutants: the loop skips a slot; it forgets to advance.
After_Skips(i) == Min({j \in Active : j >= i}) + 2
After_Stays(i) == Min({j \in Active : j >= i})

NoneLeft(i) == {j \in Active : j >= i} = {}
After(i) == Min({j \in Active : j >= i}) + 1

-----------------------------------------------------------------------------
\* The main thread

Peer == descr[acc.fd]

\* accept gives the lowest free descriptor; with none left it fails and the
\* loop tries again.
Accept ==
  /\ acc.pc = "accept"
  /\ backlog # <<>> /\ FreeFds # {}
  /\ backlog' = Tail(backlog)
  /\ descr' = [descr EXCEPT ![Min(FreeFds)] = Head(backlog)]
  /\ acc' = [acc EXCEPT !.pc = "first", !.fd = Min(FreeFds)]
  /\ UNCHANGED <<listVars, th, inq, delivered>>

FirstIsRegister ==
  /\ acc.pc = "first"
  /\ inq[Peer] # <<>> /\ Head(inq[Peer]).command = "REGISTER"
  /\ acc' = [acc EXCEPT !.pc = "register", !.pkt = Head(inq[Peer])]
  /\ inq' = [inq EXCEPT ![Peer] = Tail(@)]
  /\ UNCHANGED <<listVars, descr, backlog, th, delivered>>

\* Mutant: the end of the stream is taken for "nothing yet".
FirstIsNot_Waits ==
  /\ acc.pc = "first"
  /\ IF inq[Peer] = <<>> THEN cli[Peer] = "down" /\ UNCHANGED <<descr, acc>>
     ELSE /\ Head(inq[Peer]).command # "REGISTER"
          /\ close(acc.fd) /\ acc' = Accepting
  /\ UNCHANGED <<listVars, backlog, th, inq, delivered>>

FirstIsNot ==
  /\ acc.pc = "first"
  /\ IF inq[Peer] = <<>> THEN cli[Peer] = "down"
                         ELSE Head(inq[Peer]).command # "REGISTER"
  /\ close(acc.fd)
  /\ acc' = Accepting
  /\ UNCHANGED <<listVars, backlog, th, inq, delivered>>

HandleRegister ==
  /\ acc.pc = "register"
  /\ \E ret \in {0, -1, -2} :
       /\ cl_add(acc.pkt.sender, IpOf[Peer], acc.fd, clock, ret)
       /\ acc' = [acc EXCEPT !.pc = "answer", !.rc = ret]
  /\ UNCHANGED <<descr, backlog, th, inq, delivered>>

Greeting ==
  CASE acc.rc = 0  -> Ok(acc.pkt.sender, "welcome")
    [] acc.rc = -1 -> Error(acc.pkt.sender, "name taken")
    [] OTHER       -> Error(acc.pkt.sender, "server full")

AnswerRegister ==
  /\ acc.pc = "answer"
  /\ send_packet(acc.fd, Greeting)
  /\ acc' = [acc EXCEPT !.pc = "check"]
  /\ UNCHANGED <<listVars, descr, backlog, th, inq>>

\* Mutant: the refused connection is closed, but given a thread all the same.
CheckRegistered_GoesOn ==
  /\ acc.pc = "check" /\ mutex_lista = Unlocked
  /\ IF cl_find_by_fd(acc.fd) < 0 THEN close(acc.fd) ELSE UNCHANGED descr
  /\ th' = [th EXCEPT ![Peer].pc = "recv", ![Peer].sockfd = acc.fd]
  /\ acc' = Accepting
  /\ UNCHANGED <<listVars, backlog, inq, delivered>>

CheckRegistered ==
  /\ acc.pc = "check" /\ mutex_lista = Unlocked
  /\ IF cl_find_by_fd(acc.fd) < 0
     THEN close(acc.fd) /\ UNCHANGED th
     ELSE /\ th' = [th EXCEPT ![Peer].pc = "recv", ![Peer].sockfd = acc.fd]
          /\ UNCHANGED descr
  /\ acc' = Accepting
  /\ UNCHANGED <<listVars, backlog, inq, delivered>>

AcceptLoop ==
  /\ \/ Accept \/ FirstIsRegister \/ FirstIsNot
     \/ HandleRegister \/ AnswerRegister \/ CheckRegistered
  /\ UNCHANGED <<mon, clock, peers>>

-----------------------------------------------------------------------------
\* A client's thread

Goto(c, pc) == th' = [th EXCEPT ![c].pc = pc]

\* Back to recv_packet; what the handlers left in their locals is dead.
Next_packet(c) ==
  th' = [th EXCEPT ![c].pc = "recv", ![c].pkt = NoPacket, ![c].i = 0,
                   ![c].out = NoPacket]

\* The thread goes on to send this packet on its own socket.
Answer(c, pkt) == th' = [th EXCEPT ![c].pc = "reply", ![c].out = pkt]

\* Which command counts as activity; the others are not touched.
Activity == {"BROADCAST", "DIRECT", "STATUS"}

\* Mutant: the case for REGISTER runs into the next one, and there into its else.
HandlerOf_NoBreak(command) ==
  CASE command = "BROADCAST" -> "broadcast"
    [] command = "DIRECT"    -> "direct"
    [] command \in {"REGISTER", "STATUS"} -> "status"
    [] command = "LIST"      -> "list"
    [] command = "INFO"      -> "info"
    [] command = "LOGOUT"    -> "logout"
    [] OTHER                 -> "recv"

\* A second REGISTER is dropped like an unknown command.
HandlerOf(command) ==
  CASE command = "BROADCAST" -> "broadcast"
    [] command = "DIRECT"    -> "direct"
    [] command = "STATUS"    -> "status"
    [] command = "LIST"      -> "list"
    [] command = "INFO"      -> "info"
    [] command = "LOGOUT"    -> "logout"
    [] OTHER                 -> "recv"

Recv(c) ==
  /\ th[c].pc = "recv" /\ inq[c] # <<>>
  /\ LET pkt == Head(inq[c])
     IN  th' = [th EXCEPT ![c].pkt = pkt,
                          ![c].pc = IF pkt.command \in Activity THEN "touch"
                                    ELSE HandlerOf(pkt.command)]
  /\ inq' = [inq EXCEPT ![c] = Tail(@)]
  /\ UNCHANGED <<listVars, descr, delivered>>

\* Mutant: a lost connection is closed and its slot forgotten.
RecvFails_Returns(c) ==
  /\ th[c].pc = "recv" /\ inq[c] = <<>> /\ cli[c] = "down"
  /\ Goto(c, "close")
  /\ UNCHANGED <<listVars, descr, inq, delivered>>

RecvFails(c) ==
  /\ th[c].pc = "recv" /\ inq[c] = <<>> /\ cli[c] = "down"
  /\ Goto(c, "resolve")
  /\ UNCHANGED <<listVars, descr, inq, delivered>>

Touch(c) ==
  /\ th[c].pc = "touch"
  /\ \E reactivated \in BOOLEAN :
       /\ cl_touch(th[c].sockfd, clock, reactivated)
       /\ Goto(c, IF reactivated THEN "notice" ELSE HandlerOf(th[c].pkt.command))
  /\ UNCHANGED <<descr, inq, delivered>>

Notice(c) ==
  /\ th[c].pc = "notice"
  /\ send_packet(th[c].sockfd, Packet("MSG", "SERVER", "", "back to ACTIVE"))
  /\ Goto(c, HandlerOf(th[c].pkt.command))
  /\ UNCHANGED <<listVars, descr, inq>>

\* Mutant: the loop runs without the mutex.
HandleBroadcast_Unlocked(c) ==
  /\ th[c].pc = "broadcast"
  /\ th' = [th EXCEPT ![c].pc = "sending", ![c].i = 0,
              ![c].out = Packet("MSG", Clip[th[c].pkt.sender], "ALL",
                                th[c].pkt.payload)]
  /\ UNCHANGED <<listVars, descr, inq, delivered>>

HandleBroadcast(c) ==
  /\ th[c].pc = "broadcast"
  /\ Lock(c)
  /\ th' = [th EXCEPT ![c].pc = "sending", ![c].i = 0,
              ![c].out = Packet("MSG", Clip[th[c].pkt.sender], "ALL",
                                th[c].pkt.payload)]
  /\ UNCHANGED <<lista, num_clientes, descr, inq, delivered>>

\* The loop of handle_broadcast and of notify_disconnect.
SendNext(c) ==
  /\ th[c].pc \in {"sending", "telling"}
  /\ SendToNext(th[c].i, th[c].out)
  /\ th' = [th EXCEPT ![c].i = After(th[c].i)]
  /\ UNCHANGED <<listVars, descr, inq>>

BroadcastDone(c) ==
  /\ th[c].pc = "sending" /\ NoneLeft(th[c].i)
  /\ Unlock
  /\ Next_packet(c)
  /\ UNCHANGED <<lista, num_clientes, descr, inq, delivered>>

\* Mutant: the mutex is released before the send.
HandleDirect_Unlocked(c) ==
  /\ th[c].pc = "direct" /\ mutex_lista = Unlocked
  /\ LET idx == cl_find_by_name(th[c].pkt.target)
         msg == Packet("MSG", Clip[th[c].pkt.sender], Clip[th[c].pkt.target],
                       th[c].pkt.payload)
     IN  IF idx >= 0
         THEN th' = [th EXCEPT ![c].pc = "passing", ![c].i = idx, ![c].out = msg]
         ELSE Answer(c, Error(th[c].pkt.sender, "not connected"))
  /\ UNCHANGED <<listVars, descr, inq, delivered>>

HandleDirect(c) ==
  /\ th[c].pc = "direct"
  /\ LET idx == cl_find_by_name(th[c].pkt.target)
         msg == Packet("MSG", Clip[th[c].pkt.sender], Clip[th[c].pkt.target],
                       th[c].pkt.payload)
     IN  IF idx >= 0
         THEN /\ Lock(c)
              /\ th' = [th EXCEPT ![c].pc = "passing", ![c].i = idx,
                                  ![c].out = msg]
         ELSE /\ mutex_lista = Unlocked /\ UNCHANGED mutex_lista
              /\ Answer(c, Error(th[c].pkt.sender, "not connected"))
  /\ UNCHANGED <<lista, num_clientes, descr, inq, delivered>>

DirectSend(c) ==
  /\ th[c].pc = "passing"
  /\ send_packet(lista[th[c].i].sockfd, th[c].out)
  /\ Unlock
  /\ Next_packet(c)
  /\ UNCHANGED <<lista, num_clientes, descr, inq>>

HandleStatus(c) ==
  /\ th[c].pc = "status"
  /\ \E ret \in {0, -1} :
       /\ cl_set_status(th[c].pkt.sender, th[c].pkt.payload, ret)
       /\ Answer(c, IF ret = 0
                    THEN Ok(th[c].pkt.sender, th[c].pkt.payload)
                    ELSE Error(th[c].pkt.sender, "status refused"))
  /\ UNCHANGED <<descr, inq, delivered>>

HandleList(c) ==
  /\ th[c].pc = "list"
  /\ cl_read
  /\ Answer(c, Packet("USER_LIST", "SERVER", Clip[th[c].pkt.sender], "roster"))
  /\ UNCHANGED <<descr, inq, delivered>>

HandleInfo(c) ==
  /\ th[c].pc = "info"
  /\ cl_read
  /\ Answer(c, IF cl_find_by_name(th[c].pkt.target) >= 0
               THEN Packet("USER_INFO", "SERVER", Clip[th[c].pkt.sender], "info")
               ELSE Error(th[c].pkt.sender, "not connected"))
  /\ UNCHANGED <<descr, inq, delivered>>

HandleLogout(c) ==
  /\ th[c].pc = "logout"
  /\ th' = [th EXCEPT ![c].pc = "reply",
                      ![c].username = Clip[th[c].pkt.sender],
                      ![c].out = Ok(th[c].pkt.sender, "bye")]
  /\ UNCHANGED <<listVars, descr, inq, delivered>>

\* Every handler's last send; a LOGOUT leaves the loop.
Reply(c) ==
  /\ th[c].pc = "reply"
  /\ send_packet(th[c].sockfd, th[c].out)
  /\ IF th[c].pkt.command = "LOGOUT" THEN Goto(c, "resolve") ELSE Next_packet(c)
  /\ UNCHANGED <<listVars, descr, inq>>

-----------------------------------------------------------------------------
\* Its cleanup

\* Mutant: only a LOGOUT has a name to announce.
ResolveName_Logout(c) ==
  /\ th[c].pc = "resolve"
  /\ Goto(c, "remove")
  /\ UNCHANGED <<listVars, descr, inq, delivered>>

\* A LOGOUT has left the name in username; else the slot has it.
ResolveName(c) ==
  /\ th[c].pc = "resolve"
  /\ IF th[c].username # "" THEN Goto(c, "remove")
     ELSE LET idx == cl_find_by_fd(th[c].sockfd)
          IN  /\ mutex_lista = Unlocked
              /\ th' = [th EXCEPT ![c].pc = "remove", ![c].username =
                                    IF idx >= 0 THEN lista[idx].username ELSE @]
  /\ UNCHANGED <<listVars, descr, inq, delivered>>

Remove(c) ==
  /\ th[c].pc = "remove"
  /\ cl_remove(th[c].sockfd)
  /\ Goto(c, "close")
  /\ UNCHANGED <<descr, inq, delivered>>

Close(c) ==
  /\ th[c].pc = "close"
  /\ close(th[c].sockfd)
  /\ Goto(c, IF th[c].username # "" THEN "announce" ELSE "done")
  /\ UNCHANGED <<listVars, inq, delivered>>

\* Mutant: the notice is sent without the mutex.
NotifyDisconnect_Unlocked(c) ==
  /\ th[c].pc = "announce"
  /\ th' = [th EXCEPT ![c].pc = "telling", ![c].i = 0,
              ![c].out = Packet("DISCONNECTED", "SERVER", "ALL", th[c].username)]
  /\ UNCHANGED <<listVars, descr, inq, delivered>>

NotifyDisconnect(c) ==
  /\ th[c].pc = "announce"
  /\ Lock(c)
  /\ th' = [th EXCEPT ![c].pc = "telling", ![c].i = 0,
              ![c].out = Packet("DISCONNECTED", "SERVER", "ALL", th[c].username)]
  /\ UNCHANGED <<lista, num_clientes, descr, inq, delivered>>

NotifyDone(c) ==
  /\ th[c].pc = "telling" /\ NoneLeft(th[c].i)
  /\ Unlock
  /\ th' = [th EXCEPT ![c] = [NoThread EXCEPT !.pc = "done",
                                              !.username = th[c].username]]
  /\ UNCHANGED <<lista, num_clientes, descr, inq, delivered>>

ClientThread(c) ==
  /\ \/ Recv(c) \/ RecvFails(c) \/ Touch(c) \/ Notice(c)
     \/ HandleBroadcast(c) \/ SendNext(c) \/ BroadcastDone(c)
     \/ HandleDirect(c) \/ DirectSend(c)
     \/ HandleStatus(c) \/ HandleList(c) \/ HandleInfo(c) \/ HandleLogout(c)
     \/ Reply(c)
     \/ ResolveName(c) \/ Remove(c) \/ Close(c)
     \/ NotifyDisconnect(c) \/ NotifyDone(c)
  /\ UNCHANGED <<backlog, acc, mon, clock, peers>>

-----------------------------------------------------------------------------
\* The inactivity thread.  While it sleeps, mon.now is when it went to sleep.

\* Mutant: times are unsigned, and a difference below zero is a large one.
Idle_Unsigned(now) ==
  {j \in Active : /\ lista[j].status # "INACTIVE"
                  /\ \/ now - lista[j].ultimo_mensaje >= INACTIVITY_TIMEOUT
                     \/ now < lista[j].ultimo_mensaje}

\* Mutant: > for >=.
Idle_Late(now) ==
  {j \in Active : /\ lista[j].status # "INACTIVE"
                  /\ now - lista[j].ultimo_mensaje > INACTIVITY_TIMEOUT}

Idle(now) ==
  {j \in Active : /\ lista[j].status # "INACTIVE"
                  /\ now - lista[j].ultimo_mensaje >= INACTIVITY_TIMEOUT}

\* At the clock's bound the last tick stands for all that follow.
MonitorWake ==
  /\ mon.pc = "sleep"
  /\ \/ clock > mon.now
     \/ clock = MaxTime /\ Idle(clock) # {}
  /\ mon' = [mon EXCEPT !.pc = "lock", !.now = clock]
  /\ UNCHANGED <<listVars, delivered>>

MonitorLock ==
  /\ mon.pc = "lock"
  /\ Lock(Monitor)
  /\ mon' = [mon EXCEPT !.pc = "scan", !.i = 0]
  /\ UNCHANGED <<lista, num_clientes, delivered>>

MonitorMark ==
  /\ mon.pc = "scan"
  /\ LET rest == {j \in Idle(mon.now) : j >= mon.i}
     IN  /\ rest # {}
         /\ lista' = [lista EXCEPT ![Min(rest)].status = "INACTIVE"]
         /\ mon' = [mon EXCEPT !.pc = "tell", !.i = Min(rest)]
  /\ UNCHANGED <<num_clientes, mutex_lista, delivered>>

MonitorTell ==
  /\ mon.pc = "tell"
  /\ send_packet(lista[mon.i].sockfd,
                 Packet("MSG", "SERVER", lista[mon.i].username, "now INACTIVE"))
  /\ mon' = [mon EXCEPT !.pc = "scan", !.i = mon.i + 1]
  /\ UNCHANGED listVars

MonitorDone ==
  /\ mon.pc = "scan" /\ {j \in Idle(mon.now) : j >= mon.i} = {}
  /\ Unlock
  /\ mon' = [pc |-> "sleep", now |-> clock, i |-> 0]
  /\ UNCHANGED <<lista, num_clientes, delivered>>

InactivityThread ==
  /\ MonitorWake \/ MonitorLock \/ MonitorMark \/ MonitorTell \/ MonitorDone
  /\ UNCHANGED <<descr, backlog, acc, th, clock, peers, inq>>

-----------------------------------------------------------------------------
\* The clients and the time

(***************************************************************************)
(* Both clients of the repository register as soon as they are connected.  *)
(* A stranger may take its time, and may begin with another packet.        *)
(***************************************************************************)
Register(c) == Packet("REGISTER", NameOf[c], "", NameOf[c])

Connect(c) ==
  /\ cli[c] = "new"
  /\ cli' = [cli EXCEPT ![c] = "up"]
  /\ backlog' = Append(backlog, c)
  /\ IF c \in Strangers THEN UNCHANGED <<sent, inq>>
     ELSE /\ inq' = [inq EXCEPT ![c] = <<Register(c)>>]
          /\ sent' = [sent EXCEPT ![c] = 1]
  /\ UNCHANGED full

Hello(c) ==
  /\ cli[c] = "up" /\ sent[c] = 0
  /\ \E p \in {Register(c), Packet("LIST", NameOf[c], "", "")} :
       inq' = [inq EXCEPT ![c] = <<p>>]
  /\ sent' = [sent EXCEPT ![c] = 1]
  /\ UNCHANGED <<cli, full, backlog>>

\* A client goes on once it was answered, and not with an error.
Welcomed(c) == delivered[c] # <<>> /\ Head(delivered[c]).command # "ERROR"

Targets(cmd) == IF cmd \in {"DIRECT", "INFO"} THEN Names ELSE {""}
Payloads(c, cmd) ==
  CASE cmd \in {"BROADCAST", "DIRECT"} -> Texts
    [] cmd = "STATUS"                  -> Statuses
    [] cmd = "REGISTER"                -> {NameOf[c]}
    [] OTHER                           -> {""}

(***************************************************************************)
(* Both clients of the repository write the name they registered with into *)
(* every request.  The server never compares the two: the model is of      *)
(* clients that keep to this, and shows nothing about others.              *)
(***************************************************************************)
Ask(c) ==
  /\ cli[c] = "up" /\ sent[c] \in 1 .. Budget[c] /\ Welcomed(c)
  /\ \E cmd \in Offers : \E to \in Targets(cmd), body \in Payloads(c, cmd) :
       /\ inq' = [inq EXCEPT ![c] = Append(@, Packet(cmd, NameOf[c], to, body))]
       /\ sent' = [sent EXCEPT ![c] = IF cmd = "LOGOUT" THEN Budget[c] + 1
                                                      ELSE @ + 1]
  /\ UNCHANGED <<cli, full, backlog>>

\* A reset also throws away what the server has not read yet.
HangUp(c) ==
  /\ c \in Leavers /\ cli[c] = "up"
  /\ cli' = [cli EXCEPT ![c] = "down"]
  /\ full' = full \ {c}
  /\ \E left \in {inq[c], <<>>} : inq' = [inq EXCEPT ![c] = left]
  /\ UNCHANGED <<sent, backlog>>

StopReading(c) ==
  /\ c \in Stallable \ full /\ cli[c] = "up"
  /\ full' = full \cup {c}
  /\ UNCHANGED <<cli, sent, inq, backlog>>

ReadAgain(c) ==
  /\ c \in full
  /\ full' = full \ {c}
  /\ UNCHANGED <<cli, sent, inq, backlog>>

Client(c) ==
  /\ \/ Connect(c) \/ Hello(c) \/ Ask(c) \/ HangUp(c)
     \/ StopReading(c) \/ ReadAgain(c)
  /\ UNCHANGED serverVars

\* The handlers have nothing to do before a client moves.
AtRest ==
  /\ \A c \in Conns : \/ th[c].pc \in {"none", "done"}
                      \/ th[c].pc = "recv" /\ inq[c] = <<>> /\ cli[c] = "up"
  /\ acc.pc \in {"accept", "first"}

Tick ==
  /\ clock < MaxTime
  /\ Punctual => AtRest
  /\ clock' = clock + 1
  /\ UNCHANGED <<listVars, descr, backlog, acc, th, mon, peers, inq, delivered>>

\* The clients are done, the server waits for more and no time is left.
Over ==
  /\ \A c \in Conns :
       /\ cli[c] = IF c \in Leavers THEN "down" ELSE "up"
       /\ cli[c] = "up" /\ Welcomed(c) => sent[c] > Budget[c]
  /\ acc.pc = "accept" /\ (backlog = <<>> \/ FreeFds = {})
  /\ AtRest /\ clock = MaxTime /\ mutex_lista = Unlocked
  /\ mon.pc = "sleep" /\ mon.now = clock
  /\ UNCHANGED vars

Next ==
  \/ AcceptLoop
  \/ \E c \in Conns : ClientThread(c) \/ Client(c)
  \/ InactivityThread
  \/ Tick
  \/ Over

Spec == Init /\ [][Next]_vars

(***************************************************************************)
(* Every thread of the server that can go on does: the scheduler starves   *)
(* none, and the mutex is contended only while there is traffic, which in  *)
(* an instance is finite.  Nothing makes a client speak, read or hang up.  *)
(***************************************************************************)
Fairness ==
  /\ WF_vars(AcceptLoop) /\ WF_vars(InactivityThread)
  /\ \A c \in Conns : WF_vars(ClientThread(c))

FairSpec == Spec /\ Fairness
=============================================================================
