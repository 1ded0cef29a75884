--------------------------- MODULE ChatServerProps ---------------------------
(***************************************************************************)
(* What the server should guarantee.                                       *)
(***************************************************************************)
EXTENDS ChatServer

(***************************************************************************)
(* Types.                                                                  *)
(***************************************************************************)
ThreadPCs ==
  {"none", "recv", "touch", "notice", "broadcast", "sending", "direct",
   "passing", "status", "list", "info", "logout", "reply", "resolve",
   "remove", "close", "announce", "telling", "done"}

Threads ==
  [pc : ThreadPCs, sockfd : Fds \cup {0}, pkt : ChatPacket,
   username : Names \cup {""}, i : 0 .. MAX_CLIENTS, out : ChatPacket]

TypeOK ==
  /\ lista \in [Slots -> Cliente]
  /\ num_clientes \in 0 .. MAX_CLIENTS
  /\ mutex_lista \in Conns \cup {Unlocked, Monitor}
  /\ descr \in [Fds -> Conns \cup {NoConn}]
  /\ backlog \in Seq(Conns)
  /\ acc \in [pc : {"accept", "first", "register", "answer", "check"},
              fd : Fds \cup {0}, pkt : ChatPacket, rc : {0, -1, -2}]
  /\ acc.pc # "accept" => acc.fd \in Fds
  /\ th \in [Conns -> Threads]
  /\ mon \in [pc : {"sleep", "lock", "scan", "tell"}, now : Nat,
              i : 0 .. MAX_CLIENTS]
  /\ clock \in Nat
  /\ cli \in [Conns -> {"new", "up", "down"}]
  /\ sent \in [Conns -> Nat]
  /\ full \subseteq Conns
  /\ inq \in [Conns -> Seq(ChatPacket)]
  /\ delivered \in [Conns -> Seq(ChatPacket)]

-----------------------------------------------------------------------------
\* Who is who

Owner(i) == descr[lista[i].sockfd]

\* From cl_add to cl_remove: the part of a connection's life with a slot.
Registered(c) ==
  \/ acc.pc \in {"answer", "check"} /\ acc.rc = 0 /\ Peer = c
  \/ th[c].pc \notin {"none", "close", "announce", "telling", "done"}

(***************************************************************************)
(* Every open descriptor has one owner and every owner one descriptor: a   *)
(* client thread works on its own socket until it has closed it, the main  *)
(* thread on one that is no client thread's, and a connection still in the *)
(* listen queue has none.                                                  *)
(***************************************************************************)
OpenThreads == ThreadPCs \ {"none", "announce", "telling", "done"}

DescriptorsOwned ==
  /\ \A f, g \in Fds : descr[f] = descr[g] /\ descr[f] # NoConn => f = g
  /\ \A c \in Conns : th[c].pc \in OpenThreads =>
       th[c].sockfd \in Fds /\ descr[th[c].sockfd] = c
  /\ acc.pc # "accept" => Peer \in Conns /\ th[Peer].pc = "none"
  /\ \A k \in DOMAIN backlog :
       /\ th[backlog[k]].pc = "none" /\ cli[backlog[k]] # "new"
       /\ \A f \in Fds : descr[f] # backlog[k]
       /\ \A l \in DOMAIN backlog : backlog[k] = backlog[l] => k = l
  /\ \A c \in Conns : cli[c] = "new" =>
       /\ th[c].pc = "none" /\ sent[c] = 0
       /\ \A f \in Fds : descr[f] # c

(***************************************************************************)
(* No two active slots have a name, an address or a descriptor in common,  *)
(* whatever order registrations, departures and descriptor reuse come in.  *)
(***************************************************************************)
UniqueMembers ==
  \A i, j \in Active : i # j =>
    /\ lista[i].username # lista[j].username
    /\ lista[i].ip # lista[j].ip
    /\ lista[i].sockfd # lista[j].sockfd

(***************************************************************************)
(* An active slot's descriptor is open and is the socket of the very user  *)
(* the slot names: it was not closed, and not given to a newcomer.         *)
(***************************************************************************)
EntryOwnsSocket ==
  \A i \in Active :
    /\ Owner(i) \in Conns
    /\ lista[i].username = Clip[NameOf[Owner(i)]]
    /\ lista[i].ip = IpOf[Owner(i)]

(***************************************************************************)
(* Sessions and slots correspond: a connection has an active slot exactly  *)
(* from its registration to its removal.  A slot without a session would   *)
(* keep its name taken for ever; a session without a slot hears nothing.   *)
(***************************************************************************)
SessionHasEntry ==
  \A c \in Conns : Registered(c) <=> \E i \in Active : Owner(i) = c

(***************************************************************************)
(* The mutex is held by the thread that is inside a critical section and   *)
(* by no other, and the slot it is sending to is still active.             *)
(***************************************************************************)
MutexProtects ==
  /\ \A c \in Conns :
       (mutex_lista = c) <=> (th[c].pc \in {"sending", "passing", "telling"})
  /\ (mutex_lista = Monitor) <=> (mon.pc \in {"scan", "tell"})
  /\ \A c \in Conns : th[c].pc = "passing" => th[c].i \in Active
  /\ mon.pc = "tell" => mon.i \in Active

-----------------------------------------------------------------------------
\* What the clients get

\* A direct message reaches nobody but the user it is addressed to.
DirectReachesTarget ==
  \A c \in Conns : \A k \in DOMAIN delivered[c] :
    LET p == delivered[c][k]
    IN  p.command = "MSG" /\ p.sender # "SERVER" /\ p.target # "ALL"
          => p.target = Clip[NameOf[c]]

(***************************************************************************)
(* Who is not or not yet registered gets nothing but the one answer to the *)
(* REGISTER: no message meant for the user who had the descriptor before.  *)
(***************************************************************************)
RefusedGetOnlyError ==
  \A c \in Conns :
    th[c].pc = "none" /\ ~Registered(c)
      => \/ delivered[c] = <<>>
         \/ Len(delivered[c]) = 1 /\ Head(delivered[c]).command = "ERROR"

\* Where in what a user was sent the broadcasts are.
Heard(c) ==
  {k \in DOMAIN delivered[c] :
     delivered[c][k].command = "MSG" /\ delivered[c][k].target = "ALL"}

\* The loop of a broadcast has not come to this slot yet.
Awaits(i) == \E b \in Conns : th[b].pc = "sending" /\ th[b].i <= i

\* How many broadcasts ago the user of slot i was sent the k-th packet; the one
\* on its way to him counts.
Ago(i, k) ==
  Cardinality({l \in Heard(Owner(i)) : l >= k}) + IF Awaits(i) THEN 1 ELSE 0

(***************************************************************************)
(* All users hear the same broadcasts in the same order: what two of them  *)
(* heard the same number of broadcasts ago is the same, back to when the   *)
(* later one registered.  Each broadcast is a loop of sends of another     *)
(* thread, and users come and go meanwhile.                                *)
(***************************************************************************)
SameOrder ==
  \A i, j \in Active :
    cli[Owner(i)] = "up" /\ cli[Owner(j)] = "up" =>
      \A k \in Heard(Owner(i)), l \in Heard(Owner(j)) :
        Ago(i, k) = Ago(j, l) => delivered[Owner(i)][k] = delivered[Owner(j)][l]

(***************************************************************************)
(* A broadcast or a departure notice has been sent to every registered     *)
(* user who is still there when its loop ends: nobody who joins, leaves or *)
(* moves into a hole of the table meanwhile makes it skip a user.          *)
(***************************************************************************)
Holds(s, p) == \E k \in DOMAIN s : s[k] = p

NobodySkipped ==
  [][ \A c \in Conns :
        th[c].pc \in {"sending", "telling"} /\ th'[c].pc # th[c].pc
          => \A i \in Active :
               cli[Owner(i)] = "up" => Holds(delivered[Owner(i)], th[c].out)
    ]_vars

(***************************************************************************)
(* Nobody is told more often that a user of some name has gone than        *)
(* sessions of that name have ended.                                       *)
(***************************************************************************)
NoticeOnce ==
  \A c \in Conns, n \in Names :
    Cardinality({k \in DOMAIN delivered[c] :
                   /\ delivered[c][k].command = "DISCONNECTED"
                   /\ delivered[c][k].payload = n})
      <= Cardinality({d \in Conns : /\ th[d].pc \in {"telling", "done"}
                                    /\ Clip[NameOf[d]] = n})

(***************************************************************************)
(* A registered user's own STATUS is never refused: handle_status looks    *)
(* for the name in the packet, and the user it was registered for is still *)
(* in the table while its thread serves it.                                *)
(***************************************************************************)
OwnStatusAccepted ==
  \A c \in Conns : \A k \in DOMAIN delivered[c] :
    delivered[c][k].payload # "status refused"

\* The status a packet tells its receiver it has now, or "".
News(p) ==
  LET notice == p.command = "MSG" /\ p.sender = "SERVER"
  IN  CASE p.command = "OK" /\ p.payload = "welcome"  -> "ACTIVE"
        [] p.command = "OK" /\ p.payload \in Statuses -> p.payload
        [] notice /\ p.payload = "now INACTIVE"       -> "INACTIVE"
        [] notice /\ p.payload = "back to ACTIVE"     -> "ACTIVE"
        [] OTHER -> ""

LastNews(s) ==
  LET told == {k \in DOMAIN s : News(s[k]) # ""}
  IN  IF told = {} THEN "" ELSE News(s[Max(told)])

(***************************************************************************)
(* Between its requests a user has last been told the status the table     *)
(* holds for it, though its own thread and the monitor both change and     *)
(* announce it without excluding each other.  Holds when no handler is so  *)
(* late that the monitor comes between the change and its announcement.    *)
(***************************************************************************)
StatusToldIsStatusHeld ==
  \A i \in Active :
    LET c == Owner(i)
    IN  th[c].pc = "recv" /\ cli[c] = "up" /\ ~(mon.pc = "tell" /\ mon.i = i)
          => LastNews(delivered[c]) = lista[i].status

(***************************************************************************)
(* The monitor marks nobody who is not idle at that moment.  It judges by  *)
(* the time it read before it waited for the mutex; whoever registered or  *)
(* was touched meanwhile has a later time in its slot than the monitor's.  *)
(***************************************************************************)
MarksOnlyIdle ==
  [][ mon.pc = "scan" /\ mon'.pc = "tell"
        => clock - lista[mon'.i].ultimo_mensaje >= INACTIVITY_TIMEOUT ]_vars

-----------------------------------------------------------------------------
\* What must eventually happen

(***************************************************************************)
(* What a peer can hold the server up with: it says nothing while the main *)
(* thread waits for its first packet, or it does not read what the main    *)
(* thread or the holder of the mutex sends to it.                          *)
(***************************************************************************)
NextToTell(i) == lista[Min({j \in Active : j >= i})].sockfd

HeldUp ==
  \/ acc.pc = "first" /\ inq[Peer] = <<>> /\ cli[Peer] = "up"
  \/ acc.pc = "answer" /\ Blocked(acc.fd)
  \/ mon.pc = "tell" /\ Blocked(lista[mon.i].sockfd)
  \/ \E c \in Conns :
       \/ th[c].pc = "passing" /\ Blocked(lista[th[c].i].sockfd)
       \/ /\ th[c].pc \in {"sending", "telling"} /\ ~NoneLeft(th[c].i)
          /\ Blocked(NextToTell(th[c].i))

\* From some moment on no peer holds the server up.
Runs == <>[]~HeldUp

(***************************************************************************)
(* Nothing but its peers holds the server up: a client that registers is   *)
(* answered, unless it hangs up.  A silent connection before it, once it   *)
(* speaks or goes, and a peer that stopped reading in the middle of a      *)
(* loop, once it reads or goes, leave neither main nor the mutex stuck.    *)
(***************************************************************************)
EveryClientAnswered ==
  Runs => \A c \in Conns \ Strangers :
    cli[c] = "up" ~> (cli[c] = "down" \/ delivered[c] # <<>>)

\* Who has gone: it has hung up, or was answered its LOGOUT.
Departed(c) == cli[c] = "down" \/ Holds(delivered[c], Ok(NameOf[c], "bye"))

(***************************************************************************)
(* When a user has gone, its name is freed: no slot keeps it, but for one  *)
(* of another connection of the same name.                                 *)
(***************************************************************************)
DepartureFreesName ==
  Runs => \A c \in Conns :
    (Departed(c) /\ Registered(c))
      ~> \A i \in Active : lista[i].username = Clip[NameOf[c]] =>
           \E d \in Conns \ {c} : Owner(i) = d /\ NameOf[d] = NameOf[c]

(***************************************************************************)
(* Who is registered when another user's slot is freed is told that he has *)
(* gone, or goes itself: whether he said LOGOUT, whose cleanup takes the   *)
(* name from the packet, or not, when it must be found in the table.       *)
(***************************************************************************)
EveryoneTold ==
  Runs => \A c, d \in Conns :
    (th[c].pc = "close" /\ Registered(d))
      ~> \/ Departed(d)
         \/ Holds(delivered[d], Packet("DISCONNECTED", "SERVER", "ALL",
                                       Clip[NameOf[c]]))

(***************************************************************************)
(* Who does nothing for INACTIVITY_TIMEOUT is marked INACTIVE, or acts or  *)
(* leaves before.                                                          *)
(***************************************************************************)
Overdue(i) ==
  /\ i \in Active /\ lista[i].status # "INACTIVE"
  /\ clock - lista[i].ultimo_mensaje >= INACTIVITY_TIMEOUT

IdleBecomesInactive == \A i \in Slots : Overdue(i) ~> ~Overdue(i)

-----------------------------------------------------------------------------
(***************************************************************************)
(* The server keeps the promise of Presence: a connection is a member      *)
(* while an active slot is its own, with that slot's status.               *)
(***************************************************************************)
member ==
  [c \in Conns |->
     IF \E i \in Active : Owner(i) = c
     THEN lista[CHOOSE i \in Active : Owner(i) = c].status
     ELSE IF th[c].pc \in {"close", "announce", "telling", "done"}
          THEN "left" ELSE "out"]

Abstract ==
  INSTANCE Presence WITH Users <- Conns, Status <- Statuses,
    Name <- [c \in Conns |-> Clip[NameOf[c]]], Address <- IpOf,
    Capacity <- MAX_CLIENTS

ImplementsPresence == Abstract!Spec
=============================================================================
