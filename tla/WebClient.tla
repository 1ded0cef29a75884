----------------------------- MODULE WebClient -----------------------------
(***************************************************************************)
(* useChat.js: the state and the sockets of one page of the web client.    *)
(*                                                                         *)
(* The page runs one callback at a time: what the user does, an event of a *)
(* WebSocket, a timer; each is one action.  A login makes a new socket and *)
(* leaves the old one to close in its own time, and all sockets' callbacks *)
(* work on the same refs.                                                  *)
(*                                                                         *)
(* Around the page, as far as its sockets show them: the bridge, a relay   *)
(* in order (module Bridge), the threads of the server and another user,   *)
(* bob.  The page always asks for one name; user names and texts are left  *)
(* out of packets, a message shown is the number of the socket it came by. *)
(***************************************************************************)
EXTENDS Integers, Sequences

CONSTANTS
  MaxSockets,   \* bound: logins
  MaxEvents     \* bound: what the user asks, bob and the monitor do, and fails

ASSUME WebClientAssumption ==
  MaxSockets \in Nat \ {0} /\ MaxEvents \in Nat

Sockets == 1..MaxSockets
Statuses == {"ACTIVE", "BUSY", "INACTIVE"}

VARIABLES
  phase, myStatus, messages, users, wsStatus, loginError, \* state of the hook
  userInfo,           \* <<whose data, name shown over it>> or <<>>
  current,            \* ws.current: a socket, 0 for null
  usernameRef,        \* usernameRef.current is set
  voluntaryLogout, pendingInfoTarget,
  polling,            \* the interval of startPolling exists
  greet,              \* timers of 200 ms that have not fired, by their socket
  readyState,         \* of every socket; "aborted" is CLOSING before OPEN
  up, down,           \* packets under way on every socket
  srv,                \* the session: "none", "dialling", "tcp", "member",
                      \* "gone"
  status,             \* the member's status in the table
  bob, notice,        \* bob is in the table; his departure is yet to be told
  answer,             \* what the member's thread has yet to send it
  reason,             \* why the last login or session failed
  hurried,            \* see Connect and GetInfo
  events              \* used up of the bound

session == <<phase, usernameRef, polling, greet>>
form == <<wsStatus, loginError>>
view == <<myStatus, messages, users, userInfo>>
refs == <<current, voluntaryLogout, pendingInfoTarget>>
page == <<session, form, view, refs>>
sockets == <<readyState, up, down>>
server == <<srv, status, bob, notice, answer, reason>>
vars == <<page, sockets, server, hurried, events>>

None == ""  \* no text, no reason, nobody

Packet(cmd, val) == [cmd |-> cmd, val |-> val, list |-> {}]
List(entries) == [cmd |-> "USER_LIST", val |-> None, list |-> entries]
NoPacket == Packet(None, None)

Init ==
  /\ phase = "login" /\ myStatus = "ACTIVE" /\ messages = {} /\ users = {}
  /\ wsStatus = "disconnected" /\ loginError = None /\ userInfo = <<>>
  /\ current = 0 /\ usernameRef = FALSE /\ voluntaryLogout = FALSE
  /\ pendingInfoTarget = None /\ polling = FALSE /\ greet = {}
  /\ readyState = [s \in Sockets |-> "none"]
  /\ up = [s \in Sockets |-> <<>>] /\ down = [s \in Sockets |-> <<>>]
  /\ srv = [s \in Sockets |-> "none"] /\ status = "ACTIVE"
  /\ bob = TRUE /\ notice = FALSE /\ answer = NoPacket /\ reason = None
  /\ hurried = FALSE /\ events = 0

-----------------------------------------------------------------------------
\* Pieces of the hook

Open == current # 0 /\ readyState[current] = "open"

send(packet) ==
  IF Open THEN [up EXCEPT ![current] = Append(@, packet)] ELSE up

\* socket.close(): the browser gives the page no more of its messages.
Closed(s) == [t \in Sockets |->
  IF t = s /\ readyState[t] = "connecting" THEN "aborted"
  ELSE IF t = s /\ readyState[t] = "open" THEN "closing"
  ELSE readyState[t]]

Unread(s) == [t \in Sockets |-> IF t = s THEN <<>> ELSE down[t]]

Close(s) == readyState' = Closed(s) /\ down' = Unread(s)

\* Shown with the number of the socket it came or was sent by.
addMessage(s) == messages' = messages \union {s}

\* What logout and the loss of a session both set back.
LeaveChat ==
  /\ usernameRef' = FALSE /\ phase' = "login"
  /\ messages' = {} /\ users' = {} /\ myStatus' = "ACTIVE"

-----------------------------------------------------------------------------
\* handlePacket, one branch each; p is the packet, s the socket it came by

\* Mutant: the bridge's signal is not recognised.
Register_Not == up' = up

Register == up' = [up EXCEPT ![current] = Append(@, Packet("REGISTER", None))]

TcpOk(p) ==
  /\ p.cmd = "tcp_ok"
  /\ Register
  /\ UNCHANGED <<session, form, view>>

\* Mutant: the interval is not set.
startPolling_Not == polling' = polling

startPolling == polling' = TRUE

\* Mutant: what was shown before stays.
NewChat_KeepsMessages == phase' = "chat" /\ messages' = messages

NewChat == phase' = "chat" /\ messages' = {}

Welcome(s, p) ==
  /\ p.cmd = "OK" /\ p.val = "welcome"
  /\ usernameRef' = TRUE /\ NewChat /\ myStatus' = "ACTIVE"
  /\ greet' = greet \union {s} /\ startPolling
  /\ UNCHANGED <<up, form, users, userInfo>>

\* The answer to STATUS, and the server's notices about it.
StatusTold(s, p) ==
  /\ p.cmd \in {"OK", "NOTICE"} /\ p.val \in Statuses
  /\ myStatus' = p.val /\ addMessage(s)
  /\ UNCHANGED <<up, session, form, users, userInfo>>

ErrorTold(s, p) ==
  /\ p.cmd = "ERROR"
  /\ IF usernameRef THEN addMessage(s) /\ UNCHANGED form
                    ELSE wsStatus' = "disconnected" /\ loginError' = "refused"
                         /\ UNCHANGED messages
  /\ UNCHANGED <<up, session, myStatus, users, userInfo>>

\* The echo of the page's own broadcast is not shown a second time.
Text(s, p) ==
  /\ p.cmd = "MSG"
  /\ IF usernameRef /\ p.val = "me" THEN UNCHANGED messages ELSE addMessage(s)
  /\ UNCHANGED <<up, session, form, myStatus, users, userInfo>>

\* Mutant: name and status of an entry are taken the wrong way round.
UserList_Swapped(s, p) ==
  /\ p.cmd = "USER_LIST"
  /\ users' = {[name |-> e.status, status |-> e.name] : e \in p.list}
  /\ UNCHANGED <<up, session, form, myStatus, messages, userInfo>>

\* The whole list, and the page's own status from it.
UserList(s, p) ==
  /\ p.cmd = "USER_LIST"
  /\ users' = p.list
  /\ LET mine == {e.status : e \in {e \in p.list : usernameRef /\ e.name = "me"}}
     IN  IF mine \subseteq {myStatus}
         THEN UNCHANGED <<myStatus, messages>>
         ELSE /\ myStatus' \in mine
              /\ IF myStatus' = "INACTIVE" \/ (myStatus' = "ACTIVE" /\ myStatus = "INACTIVE")
                 THEN addMessage(s) ELSE UNCHANGED messages
  /\ UNCHANGED <<up, session, form, userInfo>>

\* The answer does not say whom it is about; its target is who asked.
UserInfo(p) ==
  /\ p.cmd = "USER_INFO"
  /\ userInfo' = <<p.val, IF pendingInfoTarget # None THEN pendingInfoTarget ELSE "me">>
  /\ UNCHANGED <<up, session, form, myStatus, messages, users>>

Disconnected(s, p) ==
  /\ p.cmd = "DISCONNECTED"
  /\ addMessage(s) /\ users' = {e \in users : e.name # p.val}
  /\ UNCHANGED <<up, session, form, myStatus, userInfo>>

handlePacket(s, p) ==
  \/ TcpOk(p) \/ Welcome(s, p) \/ StatusTold(s, p) \/ ErrorTold(s, p) \/ Text(s, p)
  \/ UserList(s, p) \/ UserInfo(p) \/ Disconnected(s, p)

-----------------------------------------------------------------------------
\* Events of a socket

OnOpen(s) ==
  /\ readyState[s] = "connecting"
  /\ readyState' = [readyState EXCEPT ![s] = "open"]
  /\ wsStatus' = "connected"
  /\ srv' = [srv EXCEPT ![s] = "dialling"]  \* the "connect" message, first of all
  /\ UNCHANGED <<session, loginError, view, refs, up, down, status, bob, notice,
                 answer, reason, hurried, events>>

OnMessage(s) ==
  /\ readyState[s] = "open" /\ down[s] # <<>> /\ Head(down[s]).cmd # "close"
  /\ handlePacket(s, Head(down[s]))
  /\ IF Head(down[s]).cmd = "ERROR" /\ ~usernameRef
     THEN Close(current)
     ELSE readyState' = readyState /\ down' = [down EXCEPT ![s] = Tail(@)]
  /\ UNCHANGED <<refs, server, hurried, events>>

\* Mutant: every end is a lost connection.
WasLost_Always == TRUE

WasLost == usernameRef /\ ~voluntaryLogout

\* onclose, whichever socket it is of; error is what the form says before.
Ended(s, error) ==
  /\ readyState' = [readyState EXCEPT ![s] = "closed"]
  /\ down' = [down EXCEPT ![s] = <<>>]
  /\ wsStatus' = "disconnected" /\ polling' = FALSE
  /\ IF WasLost
     THEN LeaveChat /\ loginError' = "lost"
     ELSE loginError' = error /\ UNCHANGED <<usernameRef, phase, messages, users, myStatus>>
  /\ UNCHANGED <<greet, refs, userInfo, up, hurried, events>>

OnClose(s) ==
  /\ \/ readyState[s] = "closing"
     \/ readyState[s] = "open" /\ down[s] # <<>> /\ Head(down[s]).cmd = "close"
  /\ Ended(s, loginError)
  /\ UNCHANGED server

\* onerror, then onclose: nobody answers, or close() came before the opening.
OnError(s) ==
  /\ readyState[s] \in {"connecting", "aborted"}
  /\ Ended(s, "unreachable")
  /\ reason' = IF s = current THEN "unreachable" ELSE reason
  /\ UNCHANGED <<srv, status, bob, notice, answer>>

-----------------------------------------------------------------------------
\* Timers

Greet ==
  /\ greet # {}
  /\ \E s \in greet : greet' = greet \ {s}
  /\ up' = send(Packet("LIST", None))
  /\ UNCHANGED <<phase, usernameRef, polling, form, view, refs, readyState, down,
                 server, hurried, events>>

\* A LIST that is not answered yet.
Listing ==
  \/ \E i \in DOMAIN up[current] : up[current][i].cmd = "LIST"
  \/ \E i \in DOMAIN down[current] : down[current][i].cmd = "USER_LIST"
  \/ answer.cmd = "USER_LIST"

\* The interval of 15 s is longer than 200 ms and than an answer takes.
Poll ==
  /\ polling /\ Open /\ usernameRef /\ greet = {} /\ ~Listing
  /\ up' = send(Packet("LIST", None))
  /\ UNCHANGED <<page, readyState, down, server, hurried, events>>

-----------------------------------------------------------------------------
\* What the user does

\* Mutant: the socket before is left alone.
NewSocket_KeepsOld ==
  /\ current' = current + 1 /\ down' = down
  /\ readyState' = [readyState EXCEPT ![current + 1] = "connecting"]

NewSocket ==
  /\ current' = current + 1 /\ down' = Unread(current)
  /\ readyState' = [Closed(current) EXCEPT ![current + 1] = "connecting"]

\* The form is disabled while a socket opens.  A user is in a hurry who logs
\* in before the socket before is closed or within 200 ms of the last welcome.
Connect ==
  /\ phase = "login" /\ wsStatus # "connecting" /\ current < MaxSockets
  /\ NewSocket
  /\ usernameRef' = FALSE /\ voluntaryLogout' = FALSE
  /\ loginError' = None /\ wsStatus' = "connecting" /\ reason' = None
  /\ hurried' = (hurried \/ greet # {}
                 \/ \E t \in Sockets : readyState[t] \notin {"none", "closed"})
  /\ UNCHANGED <<phase, polling, greet, view, pendingInfoTarget, up, srv, status,
                 bob, notice, answer, events>>

Ask(packet) ==
  /\ phase = "chat" /\ events < MaxEvents
  /\ events' = events + 1
  /\ up' = send(packet)
  /\ UNCHANGED <<session, form, current, voluntaryLogout, readyState, down, server>>

SendText ==
  /\ \E cmd \in {"BROADCAST", "DIRECT"} : Ask(Packet(cmd, None))
  /\ addMessage(current)
  /\ UNCHANGED <<myStatus, users, userInfo, pendingInfoTarget, hurried>>

ChangeStatus ==
  /\ \E v \in Statuses : Ask(Packet("STATUS", v)) /\ myStatus' = v
  /\ UNCHANGED <<messages, users, userInfo, pendingInfoTarget, hurried>>

ListUsers ==
  /\ Ask(Packet("LIST", None))
  /\ UNCHANGED <<view, pendingInfoTarget, hurried>>

\* An INFO that is not answered yet.
Informing ==
  \/ \E i \in DOMAIN up[current] : up[current][i].cmd = "INFO"
  \/ \E i \in DOMAIN down[current] : down[current][i].cmd = "USER_INFO"
  \/ answer.cmd = "USER_INFO"

\* Mutant: only the first name is kept.
Label_First(who) ==
  pendingInfoTarget' = IF pendingInfoTarget = None THEN who ELSE pendingInfoTarget

Label(who) == pendingInfoTarget' = who

\* A user is in a hurry who asks again before the answer.
GetInfo ==
  \E who \in {"me", "bob"} :
    /\ Ask(Packet("INFO", who))
    /\ Label(who)
    /\ hurried' = (hurried \/ Informing)
    /\ UNCHANGED view

CloseInfo ==
  /\ phase = "chat" /\ userInfo # <<>>
  /\ userInfo' = <<>>
  /\ UNCHANGED <<session, form, myStatus, messages, users, refs, sockets, server,
                 hurried, events>>

\* Mutant: the socket is left to the server.
EndSession_NoClose == up' = send(Packet("LOGOUT", None)) /\ UNCHANGED <<readyState, down>>

EndSession == up' = send(Packet("LOGOUT", None)) /\ Close(current)

Logout ==
  /\ phase = "chat"
  /\ voluntaryLogout' = TRUE /\ polling' = FALSE
  /\ EndSession
  /\ LeaveChat /\ loginError' = None
  /\ UNCHANGED <<greet, wsStatus, userInfo, current, pendingInfoTarget, server,
                 hurried, events>>
-----------------------------------------------------------------------------
\* The bridge and the server's threads

\* What reaches the page: a socket that is not open takes nothing.
Deliver(to, packets) ==
  down' = [s \in Sockets |-> IF s \in to /\ readyState[s] = "open"
                             THEN down[s] \o packets ELSE down[s]]

Members == {s \in Sockets : srv[s] = "member"}

Roster ==
  {[name |-> "me", status |-> status]} \union
  (IF bob THEN {[name |-> "bob", status |-> "ACTIVE"]} ELSE {})

\* An ERROR and the end, from the bridge or from the server.
Refuse(s) ==
  /\ srv' = [srv EXCEPT ![s] = "gone"]
  /\ Deliver({s}, <<Packet("ERROR", None), Packet("close", None)>>)
  /\ reason' = IF s = current THEN "refused" ELSE reason
  /\ UNCHANGED <<status, answer>>

\* The bridge drops what comes before its TCP connection is up.
Drop(s) ==
  /\ srv[s] = "dialling" /\ up[s] # <<>>
  /\ up' = [up EXCEPT ![s] = Tail(@)]
  /\ UNCHANGED <<page, readyState, down, server, hurried, events>>

Dial(s) ==
  /\ srv[s] = "dialling"
  /\ \/ /\ srv' = [srv EXCEPT ![s] = "tcp"]
        /\ Deliver({s}, <<Packet("tcp_ok", None)>>)
        /\ UNCHANGED <<status, answer, reason>>
     \/ Refuse(s)
  /\ UNCHANGED <<page, readyState, up, bob, notice, hurried, events>>

\* Every page's session comes from the bridge's address, which may hold one
\* place in the table; the name may be taken, the table full.
FirstPacket(s) ==
  /\ srv[s] = "tcp" /\ up[s] # <<>>
  /\ up' = [up EXCEPT ![s] = Tail(@)]
  /\ \/ /\ Head(up[s]).cmd = "REGISTER" /\ Members = {}
        /\ srv' = [srv EXCEPT ![s] = "member"] /\ status' = "ACTIVE"
        /\ answer' = Packet("OK", "welcome")
        /\ UNCHANGED <<down, reason>>
     \/ Refuse(s)
  /\ UNCHANGED <<page, readyState, bob, notice, hurried, events>>

\* A member's thread: the notice that it is active again goes out before what
\* the handler sends, which is made now and sent by Reply.  cl_touch, its notice
\* and handle_status are one step here; module ChatServer has them apart.
Serve(s) ==
  /\ srv[s] = "member" /\ answer = NoPacket /\ up[s] # <<>>
  /\ up' = [up EXCEPT ![s] = Tail(@)]
  /\ LET p     == Head(up[s])
         moves == p.cmd \in {"BROADCAST", "DIRECT", "STATUS"} /\ status = "INACTIVE"
     IN  /\ srv' = IF p.cmd = "LOGOUT" THEN [srv EXCEPT ![s] = "gone"] ELSE srv
         /\ status' = IF p.cmd = "STATUS" THEN p.val
                      ELSE IF moves THEN "ACTIVE" ELSE status
         /\ Deliver({s}, IF moves THEN <<Packet("NOTICE", "ACTIVE")>> ELSE <<>>)
         /\ answer' =
              CASE p.cmd = "LIST" -> List(Roster)
                [] p.cmd = "BROADCAST" -> Packet("MSG", "me")
                [] p.cmd = "STATUS" -> Packet("OK", p.val)
                [] p.cmd = "INFO" /\ (p.val = "bob" => bob) -> Packet("USER_INFO", p.val)
                [] p.cmd \in {"DIRECT", "INFO"} /\ ~bob -> Packet("ERROR", None)
                [] OTHER -> NoPacket
  /\ UNCHANGED <<page, readyState, bob, notice, reason, hurried, events>>

Reply(s) ==
  /\ srv[s] = "member" /\ answer # NoPacket
  /\ answer' = NoPacket /\ Deliver({s}, <<answer>>)
  /\ UNCHANGED <<page, readyState, up, srv, status, bob, notice, reason, hurried,
                 events>>

\* The page's end reaches the server; what was under way may be lost.
HangUp(s) ==
  /\ readyState[s] \in {"closing", "closed"} /\ srv[s] \in {"dialling", "tcp", "member"}
  /\ srv' = [srv EXCEPT ![s] = "gone"]
  /\ up' = [up EXCEPT ![s] = <<>>]
  /\ answer' = IF srv[s] = "member" THEN NoPacket ELSE answer
  /\ UNCHANGED <<page, readyState, down, status, bob, notice, reason, hurried,
                 events>>

\* The server, the bridge or a connection fails: with an ERROR of the bridge,
\* with a close only, or losing what was under way.
Fail(s) ==
  /\ srv[s] \in {"tcp", "member"} /\ readyState[s] = "open"
  /\ \E way \in {"error", "close", "lost"} :
       /\ down' = [down EXCEPT ![s] =
            CASE way = "error" -> @ \o <<Packet("ERROR", None), Packet("close", None)>>
              [] way = "close" -> Append(@, Packet("close", None))
              [] way = "lost" -> <<Packet("close", None)>>]
       /\ reason' = IF srv[s] = "member" /\ answer.val # "welcome" THEN "lost"
                    ELSE IF way = "error" THEN "refused" ELSE "silent"
  /\ srv' = [srv EXCEPT ![s] = "gone"]
  /\ up' = [up EXCEPT ![s] = <<>>]
  /\ answer' = IF srv[s] = "member" THEN NoPacket ELSE answer
  /\ UNCHANGED <<page, readyState, status, bob, notice, hurried>>

\* bob's entry goes, and later the others are told; he may be back by then.
Announce ==
  /\ notice
  /\ notice' = FALSE /\ Deliver(Members, <<Packet("DISCONNECTED", "bob")>>)
  /\ UNCHANGED <<page, readyState, up, srv, status, bob, answer, reason, hurried,
                 events>>

ComeAndGo ==
  /\ bob' = ~bob /\ (bob => ~notice) /\ notice' = (notice \/ bob)
  /\ UNCHANGED <<status, down>>

Say ==
  /\ bob
  /\ Deliver(Members, <<Packet("MSG", "bob")>>)
  /\ UNCHANGED <<status, bob, notice>>

\* The monitor marks a member, and tells it in the same critical section.
MonitorMarks ==
  /\ Members # {} /\ status # "INACTIVE"
  /\ status' = "INACTIVE" /\ Deliver(Members, <<Packet("NOTICE", "INACTIVE")>>)
  /\ UNCHANGED <<bob, notice>>

World ==
  /\ events < MaxEvents
  /\ events' = events + 1
  /\ \/ /\ ComeAndGo \/ Say \/ MonitorMarks
        /\ UNCHANGED <<page, readyState, up, srv, answer, reason, hurried>>
     \/ \E s \in Sockets : Fail(s)

-----------------------------------------------------------------------------
Browser(s) == OnOpen(s) \/ OnMessage(s) \/ OnClose(s) \/ OnError(s)

User ==
  \/ Connect \/ SendText \/ ChangeStatus \/ ListUsers \/ GetInfo \/ CloseInfo \/ Logout

Server(s) ==
  \/ Drop(s) \/ Dial(s) \/ FirstPacket(s) \/ Serve(s) \/ Reply(s) \/ HangUp(s)

Next ==
  \/ \E s \in Sockets : Browser(s) \/ Server(s)
  \/ Greet \/ Poll \/ User \/ Announce \/ World

Spec == Init /\ [][Next]_vars

\* The browser reports what happened to a socket and fires its timers, and the
\* bridge and the server take what comes; nobody has to log in, ask or fail.
FairSpec ==
  /\ Spec
  /\ \A s \in Sockets : WF_vars(Browser(s)) /\ WF_vars(Server(s))
  /\ WF_vars(Greet) /\ WF_vars(Poll) /\ WF_vars(Announce)
=============================================================================
